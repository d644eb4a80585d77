------------------------------ MODULE Session ------------------------------
(***************************************************************************)
(* The conversation of symcli with the server.  Each command of the shell  *)
(* opens a connection of its own, sends one request and reads one answer,  *)
(* with blocking calls.  The server has one Session per connection, whose  *)
(* reads and writes are asynchronous: several of them may be outstanding   *)
(* on one socket, and they are served in the order in which they started.  *)
(*                                                                         *)
(* A stream is a sequence of units: the fixed header (whose msg_size wraps *)
(* modulo 2^16, here LengthModulus), the MessageHead, and the units of a   *)
(* body.  The handlers of the requests are modelled in SymbolIndex and     *)
(* ParsePipeline; here a handler fills a response of some size, and ends   *)
(* normally, throws, or crashes the process.                               *)
(***************************************************************************)
EXTENDS Integers, Sequences, FiniteSets, SequencesExt

CONSTANTS
  Clients,       \* symcli processes
  MaxCommands,   \* bound: commands that a client runs
  MaxStarts,     \* bound: starts of the server
  BodySizes,     \* sizes of the bodies of responses
  LengthModulus, \* 2^16: msg_size is a uint16_t
  SocketBuffer,  \* units that the kernel holds for a client
  Outcomes       \* what a handler may do: "done", "throws", "crashes"

ASSUME SessionAssumption ==
  /\ MaxCommands \in Nat
  /\ MaxStarts \in Nat
  /\ BodySizes \subseteq Nat
  /\ LengthModulus \in Nat /\ LengthModulus > 2
  /\ SocketBuffer \in Nat \ {0}
  /\ Outcomes \subseteq {"done", "throws", "crashes"}

Connections == Clients \X (1 .. MaxCommands)

VARIABLES
  starts,   \* how often the server has been started
  server,   \* the server process is running
  cmd,      \* for each client, the number of its current command
  conn,     \* for each client, the connection that its command uses
  shell,    \* what each client is doing
  out,      \* units of the request that a client still has to send
  reply,    \* what a client has read of the answer
  near,     \* the client's end of each connection is open
  far,      \* the server's end: unaccepted, served or gone
  up, down, \* units under way to the server, to the client
  session,  \* the Session of each connection
  built,    \* history: the response that the handler of a command filled
  handled,  \* history: how the handler of a command ended
  result    \* what the client reports of each command

clientVars == << cmd, conn, shell, out, reply, near, result >>
serverVars == << starts, server, far, session, built, handled >>
vars == << clientVars, serverVars, up, down >>

---------------------------------------------------------------------------
(* Messages.                                                               *)

\* Mutant: the length is wider than the field of the other side.
HeaderOf_Wide(n) == [kind |-> "header", size |-> n]

HeaderOf(n) == [kind |-> "header", size |-> n % LengthModulus]
MessageHead == [kind |-> "head"]
BodyOf(k, n) == [i \in 1 .. n |-> [kind |-> "body", of |-> k, at |-> i]]

Frame(body) == << HeaderOf(1 + Len(body)), MessageHead >> \o body

Units ==
  [kind : {"header"}, size : 0 .. LengthModulus - 1] \cup {MessageHead} \cup
  [kind : {"body"}, of : Connections, at : Nat]

(* req_header_ before the first read: not initialised, and not used. *)
NoHeader == HeaderOf(0)

SizeOf(h) == IF h.kind = "header" THEN h.size ELSE 0

(* Two bytes of length are enough for a response of this size.            *)
Fits(body) == 1 + Len(body) < LengthModulus

---------------------------------------------------------------------------
(* The server's end.  reads: the asynchronous reads in the order in which  *)
(* they were started; total: units that the write in progress must still   *)
(* transfer, 0 when there is none.                                         *)

NoSession == [reads |-> << >>, header |-> NoHeader, reply |-> << >>,
              total |-> 0, sent |-> 0]

TypeOK ==
  /\ starts \in 0 .. MaxStarts
  /\ server \in BOOLEAN
  /\ cmd \in [Clients -> 0 .. MaxCommands]
  /\ conn \in [Clients -> 0 .. MaxCommands]
  /\ shell \in [Clients -> {"idle", "sending", "header", "body", "killed"}]
  /\ out \in [Clients -> Seq(Units)]
  /\ reply \in [Clients -> Seq(Units)]
  /\ near \in [Connections -> BOOLEAN]
  /\ far \in [Connections -> {"none", "unaccepted", "served", "gone"}]
  /\ up \in [Connections -> Seq(Units)]
  /\ down \in [Connections -> Seq(Units)]
  /\ session \in [Connections -> [reads : Seq({"header", "body"}),
                                  header : Units, reply : Seq(Units),
                                  total : Nat, sent : Nat]]
  /\ built \in [Connections -> Seq(Units)]
  /\ handled \in [Connections -> {"no", "done", "throws", "crashes"}]
  /\ result \in [Connections -> [status : {"none", "error", "ok"},
                                 answer : Seq(Units)]]

NoResult == [status |-> "none", answer |-> << >>]

Init ==
  /\ starts = 0
  /\ server = FALSE
  /\ cmd = [c \in Clients |-> 0]
  /\ conn = [c \in Clients |-> 0]
  /\ shell = [c \in Clients |-> "idle"]
  /\ out = [c \in Clients |-> << >>]
  /\ reply = [c \in Clients |-> << >>]
  /\ near = [k \in Connections |-> FALSE]
  /\ far = [k \in Connections |-> "none"]
  /\ up = [k \in Connections |-> << >>]
  /\ down = [k \in Connections |-> << >>]
  /\ session = [k \in Connections |-> NoSession]
  /\ built = [k \in Connections |-> << >>]
  /\ handled = [k \in Connections |-> "no"]
  /\ result = [k \in Connections |-> NoResult]

Link(c)    == << c, conn[c] >>
Command(c) == << c, cmd[c] >>

---------------------------------------------------------------------------
(* The client.                                                             *)

\* Mutant: the shell keeps its Session for the next command.
ConnectionFor_Kept(c) == IF conn[c] = 0 THEN cmd[c] + 1 ELSE conn[c]

(* CommandDelegator::helper makes a Session for each command.             *)
ConnectionFor(c) == cmd[c] + 1

(* The Session of the client goes out of scope when a command has ended.  *)
Close(c) == near' = [near EXCEPT ![Link(c)] = FALSE]

Report(c, r) == result' = [result EXCEPT ![Command(c)] = r]

Fail(c) ==
  /\ Report(c, [status |-> "error", answer |-> << >>])
  /\ shell' = [shell EXCEPT ![c] = "idle"]
  /\ Close(c)

(* A command starts: the constructor of Session connects, and ProcessCommand *)
(* catches what it throws when there is no server.                           *)
ConnectFails(c) ==
  /\ shell[c] = "idle" /\ cmd[c] < MaxCommands /\ ~server
  /\ cmd' = [cmd EXCEPT ![c] = @ + 1]
  /\ result' = [result EXCEPT ![<< c, cmd[c] + 1 >>].status = "error"]
  /\ UNCHANGED << conn, shell, out, reply, near, serverVars, up, down >>

Connect(c) ==
  /\ shell[c] = "idle" /\ cmd[c] < MaxCommands /\ server
  /\ LET k == << c, ConnectionFor(c) >>
     IN  /\ conn' = [conn EXCEPT ![c] = k[2]]
         /\ near' = [near EXCEPT ![k] = TRUE]
         /\ far' = [far EXCEPT ![k] = IF @ = "none" THEN "unaccepted" ELSE @]
  /\ cmd' = [cmd EXCEPT ![c] = @ + 1]
  /\ out' = [out EXCEPT ![c] = Frame(BodyOf(<< c, cmd[c] + 1 >>, 1))]
  /\ shell' = [shell EXCEPT ![c] = "sending"]
  /\ UNCHANGED << reply, result, starts, server, session, built, handled,
                  up, down >>

(* Session::send; the write fails once the server's end is closed.        *)
Send(c) ==
  /\ shell[c] = "sending"
  /\ \/ /\ far[Link(c)] = "gone"
        /\ Fail(c)
        /\ UNCHANGED << out, reply, up >>
     \/ /\ far[Link(c)] # "gone"
        /\ up' = [up EXCEPT ![Link(c)] = Append(@, Head(out[c]))]
        /\ out' = [out EXCEPT ![c] = Tail(@)]
        /\ IF Len(out[c]) = 1
             THEN /\ shell' = [shell EXCEPT ![c] = "header"]
                  /\ reply' = [reply EXCEPT ![c] = << >>]
             ELSE UNCHANGED << shell, reply >>
        /\ UNCHANGED << near, result >>
  /\ UNCHANGED << cmd, conn, serverVars, down >>

(* The first read of send_and_recv, and each unit of the second.          *)
Wanted(c) ==
  \/ shell[c] = "header"
  \/ shell[c] = "body" /\ Len(reply[c]) < 1 + SizeOf(Head(reply[c]))

Receive(c) ==
  /\ Wanted(c)
  /\ \/ /\ down[Link(c)] # << >>
        /\ reply' = [reply EXCEPT ![c] = Append(@, Head(down[Link(c)]))]
        /\ down' = [down EXCEPT ![Link(c)] = Tail(@)]
        /\ shell' = [shell EXCEPT ![c] = "body"]
        /\ UNCHANGED << near, result >>
     \/ /\ down[Link(c)] = << >> /\ far[Link(c)] = "gone"
        /\ Fail(c)
        /\ UNCHANGED << reply, down >>
  /\ UNCHANGED << cmd, conn, out, serverVars, up >>

(* The end of send_and_recv: the body starts after the MessageHead.  What  *)
(* is not the whole body may or may not parse.  A length without room for  *)
(* the MessageHead makes the parser read outside the buffer, with a        *)
(* negative size: it fails, or the shell crashes.                          *)
Finish(c) ==
  /\ shell[c] = "body" /\ ~Wanted(c)
  /\ LET size   == SizeOf(Head(reply[c]))
         answer == SubSeq(reply[c], 3, Len(reply[c]))
         whole  == answer = built[Command(c)] /\ size > 0
     IN  \/ /\ ~whole
            /\ Fail(c)
         \/ /\ size > 0
            /\ Report(c, [status |-> "ok", answer |-> answer])
            /\ shell' = [shell EXCEPT ![c] = "idle"]
            /\ Close(c)
         \/ /\ size = 0
            /\ shell' = [shell EXCEPT ![c] = "killed"]
            /\ Close(c)
            /\ UNCHANGED result
  /\ UNCHANGED << cmd, conn, out, reply, serverVars, up, down >>

(* SIGINT is blocked in the shell; another signal ends it.                *)
Kill(c) ==
  /\ shell[c] \notin {"idle", "killed"}
  /\ shell' = [shell EXCEPT ![c] = "killed"]
  /\ Close(c)
  /\ UNCHANGED << cmd, conn, out, reply, result, serverVars, up, down >>

---------------------------------------------------------------------------
(* The server.  A Session lives as long as an operation on it is           *)
(* outstanding: the handlers hold it with shared_from_this.                *)

(* After the operations s of connection k: the socket is closed with the   *)
(* Session.                                                                *)
Keep(k, s) ==
  /\ session' = [session EXCEPT ![k] = s]
  /\ far' = [far EXCEPT ![k] =
               IF s.reads = << >> /\ s.total = 0 THEN "gone" ELSE @]

EndOfServer ==
  /\ server' = FALSE
  /\ far' = [k \in Connections |->
               IF far[k] = "none" THEN "none" ELSE "gone"]
  /\ session' = [k \in Connections |-> NoSession]

Start ==
  /\ ~server /\ starts < MaxStarts
  /\ server' = TRUE
  /\ starts' = starts + 1
  /\ UNCHANGED << clientVars, far, session, built, handled, up, down >>

(* Another component ends the process (ParsePipeline, Registry).          *)
Exit ==
  /\ server
  /\ EndOfServer
  /\ UNCHANGED << clientVars, starts, built, handled, up, down >>

(* Listener::do_accept, Session::start.                                   *)
Accept(k) ==
  /\ server /\ far[k] = "unaccepted"
  /\ far' = [far EXCEPT ![k] = "served"]
  /\ session' = [session EXCEPT ![k].reads = << "header" >>]
  /\ UNCHANGED << clientVars, starts, server, built, handled, up, down >>

Reading(k, what) ==
  /\ server
  /\ session[k].reads # << >>
  /\ Head(session[k].reads) = what

\* Mutant: the error is not looked at, and the body of the last header is
\* read again.
AfterEof_Ignored(s) == [s EXCEPT !.reads = Append(Tail(@), "body")]

AfterEof(s) == [s EXCEPT !.reads = Tail(@)]

HandleReadHeader(k) ==
  /\ Reading(k, "header")
  /\ \/ /\ up[k] # << >>
        /\ up' = [up EXCEPT ![k] = Tail(@)]
        /\ Keep(k, [session[k] EXCEPT !.header = Head(up[k]),
                                      !.reads = Append(Tail(@), "body")])
     \/ /\ up[k] = << >> /\ ~near[k]
        /\ Keep(k, AfterEof(session[k]))
        /\ UNCHANGED up
  /\ UNCHANGED << clientVars, starts, server, built, handled, down >>

\* Mutant: the length of a response does not count the MessageHead.
DoWrite_NoHead(s, body) ==
  [s EXCEPT !.reply = @ \o << HeaderOf(Len(body)), MessageHead >> \o body,
            !.total = 2 + Len(body)]

(* do_write: total_size is computed from the wrapped msg_size.            *)
DoWrite(s, body) ==
  [s EXCEPT !.reply = @ \o Frame(body),
            !.total = 1 + SizeOf(Head(Frame(body)))]

(* What one write_some can transfer; it takes at most 65536 bytes.        *)
Room(k, s) ==
  LET free == SocketBuffer - Len(down[k])
  IN  {n \in 1 .. Len(s.reply) : n <= free /\ n <= LengthModulus}

\* Mutant: the guard does not answer when the handler returns early.
Respond_NotAlways(s, body) == IF body = << >> THEN s ELSE DoWrite(s, body)

(* The destructor of ResponseGuard.                                       *)
Respond(s, body) == DoWrite(s, body)

(* handle_message for a request of the shell, whose message ids all have a *)
(* case; the command of the request is in the body.  read_header is called *)
(* when the handler has returned.  When it throws, ResponseGuard answers   *)
(* all the same: the write starts at once, with what the socket takes, and *)
(* the exception ends the server.                                          *)
HandleMessage(k, request) ==
  \E o \in Outcomes, n \in BodySizes :
    LET c    == request[2].of
        body == BodyOf(c, n)
        s    == Respond([session[k] EXCEPT !.reads = Tail(@)], body)
    IN  /\ handled' = [handled EXCEPT ![c] = o]
        /\ built' = [built EXCEPT ![c] = IF o = "crashes" THEN @ ELSE body]
        /\ CASE o = "done" ->
                  /\ Keep(k, [s EXCEPT !.reads = Append(@, "header")])
                  /\ UNCHANGED << server, down >>
             [] o = "throws" ->
                  /\ EndOfServer
                  /\ \E m \in Room(k, s) \cup {0} :
                       down' = [down EXCEPT ![k] = @ \o SubSeq(s.reply, 1, m)]
             [] o = "crashes" ->
                  /\ EndOfServer
                  /\ UNCHANGED down

(* What was read is a request: its MessageHead, then its body.            *)
IsRequest(units) ==
  Len(units) = 2 /\ units[1].kind = "head" /\ units[2].kind = "body"

(* A MessageHead that does not parse gets no answer.                      *)
HandleReadBody(k) ==
  /\ Reading(k, "body")
  /\ LET n == SizeOf(session[k].header)
     IN  \/ /\ Len(up[k]) >= n
            /\ up' = [up EXCEPT ![k] = SubSeq(@, n + 1, Len(@))]
            /\ IF IsRequest(SubSeq(up[k], 1, n))
                 THEN HandleMessage(k, SubSeq(up[k], 1, n))
                 ELSE /\ Keep(k, [session[k] EXCEPT
                                    !.reads = Append(Tail(@), "header")])
                      /\ UNCHANGED << server, built, handled, down >>
         \/ /\ Len(up[k]) < n /\ ~near[k]
            /\ Keep(k, AfterEof(session[k]))
            /\ UNCHANGED << server, built, handled, up, down >>
  /\ UNCHANGED << clientVars, starts >>

(* The completion of the write starts another read of a header, and drops  *)
(* total_size units more than async_write has already dropped.             *)
WriteDone(s, n) ==
  [s EXCEPT !.reply = SubSeq(@, n + 1, Len(@)), !.total = 0, !.sent = 0,
            !.reads = Append(@, "header")]

WriteSome(k) ==
  /\ server /\ session[k].total > 0
  /\ \/ \* the client is gone
        /\ ~near[k]
        /\ Keep(k, [session[k] EXCEPT !.total = 0, !.sent = 0])
        /\ UNCHANGED down
     \/ /\ near[k]
        /\ \E n \in Room(k, session[k]) :
             LET s == [session[k] EXCEPT !.reply = SubSeq(@, n + 1, Len(@)),
                                         !.sent = @ + n]
             IN  /\ down' = [down EXCEPT ![k] =
                               @ \o SubSeq(session[k].reply, 1, n)]
                 /\ Keep(k, IF s.sent >= s.total THEN WriteDone(s, s.total)
                                                 ELSE s)
  /\ UNCHANGED << clientVars, starts, server, built, handled, up >>

---------------------------------------------------------------------------
ClientStep(c) == Connect(c) \/ ConnectFails(c) \/ Send(c) \/ Receive(c)
                   \/ Finish(c)

ServerStep(k) == Accept(k) \/ HandleReadHeader(k) \/ HandleReadBody(k)
                   \/ WriteSome(k)

Next ==
  \/ \E c \in Clients : ClientStep(c) \/ Kill(c)
  \/ \E k \in Connections : ServerStep(k)
  \/ Start
  \/ Exit

(* The main thread serves every operation that is ready, and a blocking    *)
(* call of the client goes on as soon as there is data or an error.        *)
Fairness ==
  /\ \A c \in Clients : WF_vars(Send(c) \/ Receive(c) \/ Finish(c))
  /\ \A k \in Connections : WF_vars(ServerStep(k))

Spec == Init /\ [][Next]_vars /\ Fairness

---------------------------------------------------------------------------
(* Properties.                                                             *)

(* A read for a header meets a header, and a read for a body the request   *)
(* that it belongs to, although two reads are outstanding once an answer   *)
(* has been written.                                                       *)
FramesAligned ==
  \A k \in Connections :
    "body" \in Range(session[k].reads) =>
      /\ session[k].header = HeaderOf(2)
      /\ session[k].reads = << "body" >>
      /\ IsPrefix(up[k], << MessageHead >> \o BodyOf(k, 1))

(* What the client prints as the answer is the response that the handler   *)
(* of its own command filled, whole, as long as its length fits in two     *)
(* bytes.                                                                  *)
AnswersMatch ==
  \A k \in Connections :
    result[k].status = "ok" /\ Fits(built[k]) =>
      /\ handled[k] \in {"done", "throws"}
      /\ result[k].answer = built[k]

(* The same of every response, as MessageHead promises with a body_size of *)
(* 32 bits.                                                                *)
AnswersComplete ==
  \A k \in Connections :
    result[k].status = "ok" => result[k].answer = built[k]

(* A command that is reported as successful has been carried out.         *)
OkMeansDone ==
  \A k \in Connections : result[k].status = "ok" => handled[k] = "done"

(* Every command ends: the shell, which blocks SIGINT, does not hang, even *)
(* when the server ends at any point of the conversation.                  *)
CommandsEnd ==
  \A c \in Clients :
    shell[c] \in {"sending", "header", "body"} ~>
      shell[c] \in {"idle", "killed"}

(* A Session does not outlive its client: the reads that are outstanding   *)
(* all end, and the socket is closed.                                      *)
SessionsEnd ==
  \A k \in Connections :
    (far[k] = "served" /\ ~near[k]) ~> (far[k] # "served")
=============================================================================
