--------------------------- MODULE SessionProofs ---------------------------
(***************************************************************************)
(* For every number of clients, commands and starts of the server, every   *)
(* size of a response and of the socket's buffer: the state is well        *)
(* formed, the reads of a Session meet what they were started for, and the *)
(* answer that a client prints is the response to its own command.         *)
(***************************************************************************)
EXTENDS Session, SequenceTheorems, TLAPS

-----------------------------------------------------------------------------
(* Units and frames.                                                       *)

LEMMA Modulo ==
  ASSUME NEW n \in Nat
  PROVE  /\ n % LengthModulus \in 0 .. LengthModulus - 1
         /\ n < LengthModulus => n % LengthModulus = n
  BY SessionAssumption

LEMMA HeaderUnit ==
  ASSUME NEW n \in Nat
  PROVE  /\ HeaderOf(n) \in Units
         /\ SizeOf(HeaderOf(n)) = n % LengthModulus
         /\ HeaderOf(n).kind = "header"
  BY Modulo DEF HeaderOf, Units, SizeOf

LEMMA SizesAreNatural ==
  ASSUME NEW u \in Units
  PROVE  SizeOf(u) \in Nat
  BY SessionAssumption DEF Units, SizeOf, MessageHead

LEMMA BodyUnits ==
  ASSUME NEW u \in Units, u.kind = "body"
  PROVE  u.of \in Connections
  BY DEF Units, MessageHead

LEMMA HeadUnit == MessageHead \in Units
  BY DEF Units

LEMMA BodySequence ==
  ASSUME NEW k \in Connections, NEW n \in Nat
  PROVE  BodyOf(k, n) \in Seq(Units) /\ Len(BodyOf(k, n)) = n
  <1>1. \A i \in 1 .. n : [kind |-> "body", of |-> k, at |-> i] \in Units
    BY DEF Units
  <1> QED
    BY <1>1 DEF BodyOf

LEMMA FrameProperties ==
  ASSUME NEW body \in Seq(Units)
  PROVE  /\ Frame(body) \in Seq(Units)
         /\ Len(Frame(body)) = 2 + Len(body)
         /\ Frame(body) # << >>
         /\ Head(Frame(body)) = HeaderOf(1 + Len(body))
         /\ SubSeq(Frame(body), 3, Len(Frame(body))) = body
  <1> DEFINE start == << HeaderOf(1 + Len(body)), MessageHead >>
  <1>1. Len(body) \in Nat /\ HeaderOf(1 + Len(body)) \in Units
    BY LenProperties, HeaderUnit
  <1>2. start \in Seq(Units) /\ Len(start) = 2 /\ start[1] = HeaderOf(1 + Len(body))
    BY <1>1, HeadUnit
  <1> HIDE DEF start
  <1>3. /\ start \o body \in Seq(Units)
        /\ Len(start \o body) = 2 + Len(body)
        /\ \A i \in 1 .. 2 + Len(body) :
             (start \o body)[i] = IF i <= 2 THEN start[i] ELSE body[i - 2]
    <2>1. /\ start \o body \in Seq(Units)
          /\ Len(start \o body) = Len(start) + Len(body)
          /\ \A i \in 1 .. Len(start) + Len(body) :
               (start \o body)[i] = IF i <= Len(start) THEN start[i] ELSE body[i - Len(start)]
      BY <1>2, ConcatProperties, Zenon
    <2> QED
      BY <1>2, <2>1
  <1>4. start \o body # << >> /\ Head(start \o body) = start[1]
    BY <1>1, <1>3
  <1>5. SubSeq(start \o body, 3, 2 + Len(body)) = body
    <2>1. /\ SubSeq(start \o body, 3, 2 + Len(body)) \in Seq(Units)
          /\ Len(SubSeq(start \o body, 3, 2 + Len(body))) = Len(body)
          /\ \A i \in 1 .. Len(body) :
               SubSeq(start \o body, 3, 2 + Len(body))[i] = (start \o body)[2 + i]
      BY <1>1, <1>3
    <2> QED
      BY <1>1, <1>3, <2>1, SeqEqual
  <1> QED
    BY <1>2, <1>3, <1>4, <1>5 DEF Frame, start

-----------------------------------------------------------------------------
(* Sequences of units that move from one end of a stream to the other.     *)

Begins(s, t) == \E rest \in Seq(Units) : s \o rest = t

LEMMA DropProperties ==
  ASSUME NEW S, NEW s \in Seq(S), NEW n \in Nat
  PROVE  SubSeq(s, n + 1, Len(s)) \in Seq(S)
  <1>1. Len(s) \in Nat /\ \A i \in n + 1 .. Len(s) : s[i] \in S
    BY LenProperties, ElementOfSeq
  <1> QED
    BY <1>1, SubSeqProperties

LEMMA SplitProperties ==
  ASSUME NEW S, NEW s \in Seq(S), NEW n \in 0 .. Len(s)
  PROVE  /\ SubSeq(s, 1, n) \in Seq(S) /\ Len(SubSeq(s, 1, n)) = n
         /\ SubSeq(s, n + 1, Len(s)) \in Seq(S)
         /\ Len(SubSeq(s, n + 1, Len(s))) = Len(s) - n
         /\ SubSeq(s, 1, n) \o SubSeq(s, n + 1, Len(s)) = s
  <1>1. Len(s) \in Nat /\ \A i \in 1 .. Len(s) : s[i] \in S
    BY LenProperties, ElementOfSeq
  <1>2. SubSeq(s, 1, n) \in Seq(S) /\ Len(SubSeq(s, 1, n)) = n
    BY <1>1, SubSeqProperties
  <1>3. /\ SubSeq(s, n + 1, Len(s)) \in Seq(S)
        /\ Len(SubSeq(s, n + 1, Len(s))) = Len(s) - n
    BY <1>1, SubSeqProperties
  <1>4. 1 \in 1 .. Len(s) + 1 /\ n \in 1 - 1 .. Len(s) /\ Len(s) \in n .. Len(s)
    BY <1>1
  <1>5. SubSeq(s, 1, n) \o SubSeq(s, n + 1, Len(s)) = SubSeq(s, 1, Len(s))
    BY <1>4, ConcatAdjacentSubSeq
  <1> QED
    BY <1>2, <1>3, <1>5, SubSeqFull

LEMMA HeadAndTail ==
  ASSUME NEW S, NEW s \in Seq(S), s # << >>
  PROVE  /\ Head(s) \in S /\ Tail(s) \in Seq(S) /\ << Head(s) >> \in Seq(S)
         /\ s = << Head(s) >> \o Tail(s)
         /\ Len(Tail(s)) = Len(s) - 1 /\ Len(s) \in Nat \ {0}
  <1>1. Head(s) \in S /\ Tail(s) \in Seq(S) /\ << Head(s) >> \in Seq(S)
        /\ Len(Tail(s)) = Len(s) - 1 /\ Len(s) \in Nat \ {0}
    BY HeadTailProperties, EmptySeq
  <1>2. << Head(s) >> \o Tail(s) \in Seq(S)
        /\ Len(<< Head(s) >> \o Tail(s)) = Len(s)
        /\ \A i \in 1 .. Len(s) : (<< Head(s) >> \o Tail(s))[i] = s[i]
    BY <1>1
  <1> QED
    BY <1>1, <1>2, SeqEqual

LEMMA HeadAndTailOfConcat ==
  ASSUME NEW S, NEW s \in Seq(S), s # << >>, NEW r \in Seq(S)
  PROVE  /\ s \o r # << >> /\ Head(s \o r) = Head(s)
         /\ Tail(s \o r) = Tail(s) \o r
  <1>1. /\ s \o r \in Seq(S) /\ Len(s \o r) = Len(s) + Len(r)
        /\ Len(s) \in Nat \ {0} /\ Len(r) \in Nat
        /\ \A i \in 1 .. Len(s) + Len(r) :
             (s \o r)[i] = IF i <= Len(s) THEN s[i] ELSE r[i - Len(s)]
    BY ConcatProperties, EmptySeq, LenProperties
  <1>2. s \o r # << >> /\ Head(s \o r) = Head(s)
    BY <1>1
  <1>3. /\ Tail(s \o r) \in Seq(S) /\ Tail(s) \o r \in Seq(S)
        /\ Len(Tail(s \o r)) = Len(Tail(s) \o r)
        /\ \A i \in 1 .. Len(Tail(s \o r)) : Tail(s \o r)[i] = (Tail(s) \o r)[i]
    BY <1>1, <1>2
  <1> QED
    BY <1>2, <1>3, SeqEqual

\* A unit that one end has read, or handed over, leaves the stream as it was.
LEMMA MoveOne ==
  ASSUME NEW r \in Seq(Units), NEW s \in Seq(Units), s # << >>
  PROVE  /\ Append(r, Head(s)) \in Seq(Units) /\ Append(r, Head(s)) # << >>
         /\ Append(r, Head(s)) \o Tail(s) = r \o s
         /\ r \o s # << >>
  <1>1. Head(s) \in Units /\ Tail(s) \in Seq(Units) /\ << Head(s) >> \in Seq(Units)
        /\ s = << Head(s) >> \o Tail(s)
    BY HeadAndTail
  <1>2. Append(r, Head(s)) = r \o << Head(s) >> /\ Append(r, Head(s)) \in Seq(Units)
        /\ Append(r, Head(s)) # << >>
    BY <1>1, AppendIsConcat, AppendProperties
  <1>3. (r \o << Head(s) >>) \o Tail(s) = r \o (<< Head(s) >> \o Tail(s))
    BY <1>1, ConcatAssociative
  <1>4. r \o s # << >>
    BY ConcatEqualIffEmpty
  <1> QED
    BY <1>1, <1>2, <1>3, <1>4

LEMMA ConcatUnits ==
  ASSUME NEW r \in Seq(Units), NEW s \in Seq(Units), NEW t \in Seq(Units)
  PROVE  /\ r \o s \in Seq(Units) /\ s \o t \in Seq(Units)
         /\ (r \o s) \o t = r \o (s \o t)
         /\ Len(r \o s) = Len(r) + Len(s)
         /\ Len(r) \in Nat /\ Len(s) \in Nat
  BY ConcatAssociative, ConcatProperties, LenProperties

LEMMA BeginsEmpty ==
  ASSUME NEW t \in Seq(Units)
  PROVE  Begins(<< >>, t)
  BY ConcatEmptySeq DEF Begins

LEMMA BeginsFirst ==
  ASSUME NEW r \in Seq(Units), NEW s \in Seq(Units), NEW t, Begins(r \o s, t)
  PROVE  Begins(r, t)
  <1> PICK rest \in Seq(Units) : (r \o s) \o rest = t
    BY DEF Begins
  <1>1. r \o (s \o rest) = t /\ s \o rest \in Seq(Units)
    BY ConcatUnits
  <1> QED
    BY <1>1 DEF Begins

LEMMA BeginsTail ==
  ASSUME NEW s \in Seq(Units), NEW t \in Seq(Units), s # << >>, Begins(s, t)
  PROVE  t # << >> /\ Head(s) = Head(t) /\ Begins(Tail(s), Tail(t))
  BY HeadAndTailOfConcat DEF Begins

LEMMA BeginsWhole ==
  ASSUME NEW s \in Seq(Units), NEW t \in Seq(Units), Begins(s, t)
  PROVE  /\ Len(s) \in Nat /\ Len(t) \in Nat /\ Len(s) <= Len(t)
         /\ Len(s) >= Len(t) => s = t
         /\ IsPrefix(s, t)
  <1> PICK rest \in Seq(Units) : s \o rest = t
    BY DEF Begins
  <1>1. Len(s) \in Nat /\ Len(rest) \in Nat /\ Len(t) = Len(s) + Len(rest)
    BY ConcatProperties, LenProperties
  <1>2. ASSUME Len(s) >= Len(t) PROVE s = t
    BY <1>1, <1>2, EmptySeq, ConcatEmptySeq
  <1>3. SubSeq(s, 1, Len(s)) = SubSeq(t, 1, Len(s))
    <2>1. \A i \in 1 .. Len(s) : t[i] = s[i]
      BY <1>1, ConcatProperties
    <2>2. /\ SubSeq(s, 1, Len(s)) \in Seq(Units) /\ Len(SubSeq(s, 1, Len(s))) = Len(s)
          /\ SubSeq(t, 1, Len(s)) \in Seq(Units) /\ Len(SubSeq(t, 1, Len(s))) = Len(s)
          /\ \A i \in 1 .. Len(s) : SubSeq(s, 1, Len(s))[i] = SubSeq(t, 1, Len(s))[i]
      BY <1>1, <2>1
    <2> QED
      BY <2>2, SeqEqual
  <1> QED
    BY <1>1, <1>2, <1>3 DEF IsPrefix

-----------------------------------------------------------------------------
(* The inductive invariant.                                                *)

Request(k) == Frame(BodyOf(k, 1))

Active(c) == shell[c] \in {"sending", "header", "body"}

\* A client is at its own command's connection, which nobody has used before.
ClientOwns ==
  \A c \in Clients :
    /\ Active(c) => conn[c] = cmd[c] /\ cmd[c] # 0
    /\ shell[c] = "sending" => out[c] # << >>
    /\ \A n \in 1 .. MaxCommands :
         /\ near[<< c, n >>] <=> (Active(c) /\ n = cmd[c])
         /\ n > cmd[c] => far[<< c, n >>] = "none" /\ up[<< c, n >>] = << >>

Accepted(k) == far[k] \notin {"none", "unaccepted"}

(* unread: what the Session of connection k has yet to read of the request.*)
AwaitsHeader(k) ==
  /\ session[k].reads \in {<< >>, << "header" >>}
  /\ ~Accepted(k) => session[k].reads = << >>
  /\ handled[k] = "no"

AwaitsBody(k) ==
  /\ Accepted(k)
  /\ \/ session[k].reads = << >>
     \/ session[k].reads = << "body" >> /\ session[k].header = HeaderOf(2)
  /\ handled[k] = "no"

AwaitsNothing(k) == Accepted(k) /\ session[k].reads \in Seq({"header"})

Stage(k, unread) ==
  \/ unread = Request(k) /\ AwaitsHeader(k)
  \/ unread = Tail(Request(k)) /\ AwaitsBody(k)
  \/ unread = << >> /\ AwaitsNothing(k)

RequestOf(k, unread) ==
  /\ Stage(k, unread)
  /\ Begins(up[k], unread)
  /\ near[k] /\ shell[k[1]] = "sending" => up[k] \o out[k[1]] = unread

Requested(k) ==
  \E unread \in {Request(k), Tail(Request(k)), << >>} : RequestOf(k, unread)

Answered(k) == handled[k] \in {"done", "throws"}

\* Nothing comes from a handler that has not filled a response.
Silent(k) ==
  /\ built[k] = << >> /\ down[k] = << >>
  /\ session[k].reply = << >> /\ session[k].total = 0 /\ session[k].sent = 0
  /\ near[k] => shell[k[1]] # "body"

ReplyRead ==
  \A c \in Clients :
    /\ shell[c] = "header" => reply[c] = << >>
    /\ shell[c] = "body" => reply[c] # << >>

(* What the client has read, what is under way to it and what the Session  *)
(* has buffered are the response, in this order.                           *)
Received(k) == reply[k[1]] \o down[k]

Answering(k) ==
  session[k].total > 0 =>
    /\ session[k].total = Len(Frame(built[k]))
    /\ session[k].sent = Len(Received(k))
    /\ Received(k) \o session[k].reply = Frame(built[k])

Delivered(k) ==
  near[k] /\ Answered(k) /\ Fits(built[k]) /\ shell[k[1]] # "sending" =>
    Begins(Received(k), Frame(built[k])) /\ Answering(k)

Matched(k) ==
  result[k].status = "ok" /\ Fits(built[k]) =>
    Answered(k) /\ result[k].answer = built[k]

Sound(k) ==
  Requested(k) /\ (~Answered(k) => Silent(k)) /\ Delivered(k) /\ Matched(k)

IInv ==
  /\ TypeOK
  /\ ClientOwns
  /\ ReplyRead
  /\ \A k \in Connections : Sound(k)

-----------------------------------------------------------------------------
(* Type correctness.                                                       *)

Reads == Seq({"header", "body"})

SessionType == [reads : Reads, header : Units, reply : Seq(Units),
                total : Nat, sent : Nat]

LEMMA NoSessionType == NoSession \in SessionType
  BY HeaderUnit, EmptySeq DEF NoSession, NoHeader, SessionType, Reads

LEMMA ReadsProperties ==
  ASSUME NEW r \in Reads, NEW what \in {"header", "body"}
  PROVE  /\ Append(r, what) \in Reads
         /\ r # << >> => Tail(r) \in Reads
  BY AppendProperties, HeadTailProperties DEF Reads

LEMMA KeepType ==
  ASSUME TypeOK, NEW k \in Connections, NEW s \in SessionType, Keep(k, s)
  PROVE  /\ session' \in [Connections -> SessionType]
         /\ far' \in [Connections -> {"none", "unaccepted", "served", "gone"}]
  BY DEF TypeOK, Keep, SessionType, Reads

LEMMA EndOfServerType ==
  ASSUME TypeOK, EndOfServer
  PROVE  /\ server' \in BOOLEAN
         /\ session' \in [Connections -> SessionType]
         /\ far' \in [Connections -> {"none", "unaccepted", "served", "gone"}]
  BY NoSessionType DEF TypeOK, EndOfServer

LEMMA ClientsHaveLinks ==
  ASSUME TypeOK, NEW c \in Clients
  PROVE  /\ near' = [near EXCEPT ![Link(c)] = FALSE]
              => near' \in [Connections -> BOOLEAN]
         /\ \A r : r \in [status : {"none", "error", "ok"}, answer : Seq(Units)]
              /\ Report(c, r) => result' \in [Connections -> [status : {"none", "error", "ok"}, answer : Seq(Units)]]
  BY DEF TypeOK, Report

LEMMA FailType ==
  ASSUME TypeOK, NEW c \in Clients, Fail(c)
  PROVE  /\ near' \in [Connections -> BOOLEAN]
         /\ shell' \in [Clients -> {"idle", "sending", "header", "body", "killed"}]
         /\ result' \in [Connections -> [status : {"none", "error", "ok"}, answer : Seq(Units)]]
  <1>1. [status |-> "error", answer |-> << >>] \in
          [status : {"none", "error", "ok"}, answer : Seq(Units)]
    BY EmptySeq
  <1> QED
    BY <1>1, ClientsHaveLinks DEF TypeOK, Fail, Close

LEMMA DoWriteType ==
  ASSUME NEW s \in SessionType, NEW body \in Seq(Units)
  PROVE  /\ Respond(s, body) \in SessionType
         /\ Respond(s, body).reply = s.reply \o Frame(body)
         /\ Respond(s, body).total = 1 + ((1 + Len(body)) % LengthModulus)
         /\ Respond(s, body).reads = s.reads
         /\ Respond(s, body).sent = s.sent
  <1> DEFINE m == (1 + Len(body)) % LengthModulus
  <1>1. Frame(body) \in Seq(Units) /\ Head(Frame(body)) = HeaderOf(1 + Len(body))
    BY FrameProperties
  <1>2. 1 + Len(body) \in Nat
    BY LenProperties
  <1>3. m \in Nat /\ SizeOf(Head(Frame(body))) = m
    BY <1>1, <1>2, HeaderUnit, Modulo, SessionAssumption
  <1>4. s.reply \o Frame(body) \in Seq(Units)
    BY <1>1, ConcatProperties DEF SessionType
  <1>5. Respond(s, body) = [s EXCEPT !.reply = s.reply \o Frame(body), !.total = 1 + m]
    BY <1>3 DEF Respond, DoWrite
  <1> HIDE DEF m
  <1>6. [s EXCEPT !.reply = s.reply \o Frame(body), !.total = 1 + m] \in SessionType
    <2>1. 1 + m \in Nat
      BY <1>3
    <2> QED
      BY <1>4, <2>1 DEF SessionType
  <1>7. /\ Respond(s, body) \in SessionType
        /\ Respond(s, body).reply = s.reply \o Frame(body)
        /\ Respond(s, body).total = 1 + m
        /\ Respond(s, body).reads = s.reads
        /\ Respond(s, body).sent = s.sent
    BY <1>5, <1>6 DEF SessionType
  <1> QED
    BY <1>7 DEF m

\* What a handler may be given and may do.
LEMMA HandlerTypes ==
  ASSUME NEW request \in Seq(Units), IsRequest(request),
         NEW n \in BodySizes, NEW o \in Outcomes
  PROVE  /\ request[2].of \in Connections
         /\ BodyOf(request[2].of, n) \in Seq(Units)
         /\ o \in {"done", "throws", "crashes"}
  <1>1. request[2] \in Units /\ request[2].kind = "body"
    <2>1. Len(request) = 2 /\ request[2].kind = "body"
      BY DEF IsRequest
    <2>2. 2 \in 1 .. Len(request)
      BY <2>1
    <2> QED
      BY <2>1, <2>2, ElementOfSeq
  <1> QED
    BY <1>1, BodyUnits, BodySequence, SessionAssumption

LEMMA SessionChanges ==
  ASSUME NEW s \in SessionType
  PROVE  /\ \A r \in Reads : [s EXCEPT !.reads = r] \in SessionType
         /\ \A r \in Reads, h \in Units : [s EXCEPT !.header = h, !.reads = r] \in SessionType
         /\ [s EXCEPT !.total = 0, !.sent = 0] \in SessionType
         /\ \A r \in Seq(Units), n \in Nat : [s EXCEPT !.reply = r, !.sent = s.sent + n] \in SessionType
         /\ \A n \in Nat : WriteDone(s, n) \in SessionType
  <1>1. /\ \A r \in Reads : [s EXCEPT !.reads = r] \in SessionType
        /\ \A r \in Reads, h \in Units : [s EXCEPT !.header = h, !.reads = r] \in SessionType
        /\ [s EXCEPT !.total = 0, !.sent = 0] \in SessionType
    BY DEF SessionType
  <1>3. ASSUME NEW r \in Seq(Units), NEW n \in Nat
        PROVE  [s EXCEPT !.reply = r, !.sent = s.sent + n] \in SessionType
    <2>1. s.sent + n \in Nat
      BY DEF SessionType
    <2> QED
      BY <2>1 DEF SessionType
  <1>2. ASSUME NEW n \in Nat PROVE WriteDone(s, n) \in SessionType
    <2>1. SubSeq(s.reply, n + 1, Len(s.reply)) \in Seq(Units)
      BY DropProperties DEF SessionType
    <2>2. Append(s.reads, "header") \in Reads
      BY ReadsProperties DEF SessionType
    <2> QED
      BY <2>1, <2>2 DEF WriteDone, SessionType
  <1> QED
    BY <1>1, <1>2, <1>3

LEMMA ClientTypes ==
  ASSUME TypeOK, ClientOwns, NEW c \in Clients, ClientStep(c) \/ Kill(c)
  PROVE  TypeOK'
  <1>1. CASE Connect(c)
    <2> DEFINE k == << c, ConnectionFor(c) >>
    <2>1. ConnectionFor(c) \in 1 .. MaxCommands /\ k \in Connections
      BY <1>1, SessionAssumption DEF Connect, ConnectionFor, Connections, TypeOK
    <2>2. Frame(BodyOf(<< c, cmd[c] + 1 >>, 1)) \in Seq(Units)
      BY <2>1, BodySequence, FrameProperties DEF ConnectionFor
    <2>3. /\ cmd' \in [Clients -> 0 .. MaxCommands]
          /\ conn' \in [Clients -> 0 .. MaxCommands]
      BY <1>1, <2>1, SessionAssumption DEF Connect, ConnectionFor, TypeOK
    <2>4. /\ near' \in [Connections -> BOOLEAN]
          /\ far' \in [Connections -> {"none", "unaccepted", "served", "gone"}]
      BY <1>1, <2>1 DEF Connect, TypeOK
    <2>5. /\ out' \in [Clients -> Seq(Units)]
          /\ shell' \in [Clients -> {"idle", "sending", "header", "body", "killed"}]
      BY <1>1, <2>2 DEF Connect, TypeOK
    <2> QED
      BY <1>1, <2>3, <2>4, <2>5 DEF Connect, TypeOK
  <1>2. CASE ConnectFails(c)
    <2>1. cmd' \in [Clients -> 0 .. MaxCommands]
      BY <1>2, SessionAssumption DEF ConnectFails, TypeOK
    <2>2. result' \in [Connections -> [status : {"none", "error", "ok"}, answer : Seq(Units)]]
      BY <1>2 DEF ConnectFails, TypeOK
    <2> QED
      BY <1>2, <2>1, <2>2 DEF ConnectFails, TypeOK, serverVars
  <1>3. CASE Send(c)
    <2>1. CASE Fail(c) /\ UNCHANGED << out, reply, up >>
      BY <1>3, <2>1, FailType DEF Send, TypeOK, serverVars
    <2>2. CASE ~(Fail(c) /\ UNCHANGED << out, reply, up >>)
      <3>1. /\ shell[c] = "sending"
            /\ up' = [up EXCEPT ![Link(c)] = Append(@, Head(out[c]))]
            /\ out' = [out EXCEPT ![c] = Tail(@)]
            /\ UNCHANGED << near, result, cmd, conn, serverVars, down >>
        BY <1>3, <2>2 DEF Send
      <3>2. Head(out[c]) \in Units /\ Tail(out[c]) \in Seq(Units)
        BY <3>1, HeadTailProperties DEF ClientOwns, TypeOK
      <3>3. \A k \in Connections : Append(up[k], Head(out[c])) \in Seq(Units)
        BY <3>2, AppendProperties DEF TypeOK
      <3>4. up' \in [Connections -> Seq(Units)] /\ out' \in [Clients -> Seq(Units)]
        BY <3>1, <3>2, <3>3 DEF TypeOK
      <3>5. /\ shell' \in [Clients -> {"idle", "sending", "header", "body", "killed"}]
            /\ reply' \in [Clients -> Seq(Units)]
        <4>1. CASE Len(out[c]) = 1
          <5>1. /\ shell' = [shell EXCEPT ![c] = "header"]
                /\ reply' = [reply EXCEPT ![c] = << >>]
            BY <1>3, <2>2, <4>1 DEF Send
          <5> QED
            BY <5>1, EmptySeq DEF TypeOK
        <4>2. CASE Len(out[c]) # 1
          <5>1. UNCHANGED << shell, reply >>
            BY <1>3, <2>2, <4>2 DEF Send
          <5> QED
            BY <5>1 DEF TypeOK
        <4> QED
          BY <4>1, <4>2
      <3> QED
        BY <3>1, <3>4, <3>5 DEF TypeOK, serverVars
    <2> QED
      BY <2>1, <2>2
  <1>4. CASE Receive(c)
    <2>1. CASE Fail(c) /\ UNCHANGED << reply, down >>
      BY <1>4, <2>1, FailType DEF Receive, TypeOK, serverVars
    <2>2. CASE ~(Fail(c) /\ UNCHANGED << reply, down >>)
      <3>1. Active(c) /\ Link(c) \in Connections
        BY <1>4, SessionAssumption
        DEF Receive, Wanted, Active, ClientOwns, TypeOK, Link, Connections
      <3>2. Head(down[Link(c)]) \in Units /\ Tail(down[Link(c)]) \in Seq(Units)
        BY <1>4, <2>2, <3>1, HeadTailProperties DEF Receive, TypeOK
      <3>3. Append(reply[c], Head(down[Link(c)])) \in Seq(Units)
        BY <3>2, AppendProperties DEF TypeOK
      <3>4. reply' \in [Clients -> Seq(Units)] /\ down' \in [Connections -> Seq(Units)]
        <4>1. /\ reply' = [reply EXCEPT ![c] = Append(reply[c], Head(down[Link(c)]))]
              /\ down' = [down EXCEPT ![Link(c)] = Tail(down[Link(c)])]
          BY <1>4, <2>2 DEF Receive
        <4> QED
          BY <3>1, <3>2, <3>3, <4>1 DEF TypeOK
      <3>5. shell' \in [Clients -> {"idle", "sending", "header", "body", "killed"}]
        BY <1>4, <2>2 DEF Receive, TypeOK
      <3> QED
        BY <1>4, <2>2, <3>4, <3>5 DEF Receive, TypeOK, serverVars
    <2> QED
      BY <2>1, <2>2
  <1>5. CASE Finish(c)
    <2> DEFINE answer == SubSeq(reply[c], 3, Len(reply[c]))
    <2>1. answer \in Seq(Units)
      <3>1. SubSeq(reply[c], 2 + 1, Len(reply[c])) \in Seq(Units)
        BY DropProperties DEF TypeOK
      <3> QED
        BY <3>1
    <2>2. [status |-> "ok", answer |-> answer] \in
            [status : {"none", "error", "ok"}, answer : Seq(Units)]
      BY <2>1
    <2>3. /\ near' \in [Connections -> BOOLEAN]
          /\ shell' \in [Clients -> {"idle", "sending", "header", "body", "killed"}]
      BY <1>5, FailType DEF Finish, Close, TypeOK
    <2>4. result' \in [Connections -> [status : {"none", "error", "ok"}, answer : Seq(Units)]]
      <3>1. CASE Fail(c)
        BY <3>1, FailType
      <3>2. CASE Report(c, [status |-> "ok", answer |-> answer])
        BY <3>2, <2>2, ClientsHaveLinks
      <3>3. CASE UNCHANGED result
        BY <3>3 DEF TypeOK
      <3> QED
        BY <1>5, <3>1, <3>2, <3>3 DEF Finish
    <2> QED
      BY <1>5, <2>3, <2>4 DEF Finish, TypeOK, serverVars
  <1>6. CASE Kill(c)
    BY <1>6 DEF Kill, Close, TypeOK, serverVars
  <1> QED
    BY <1>1, <1>2, <1>3, <1>4, <1>5, <1>6 DEF ClientStep

\* What the handler of a request leaves.
LEMMA HandleMessageTypes ==
  ASSUME TypeOK, NEW k \in Connections, session[k].reads # << >>,
         NEW request \in Seq(Units), IsRequest(request), HandleMessage(k, request)
  PROVE  /\ server' \in BOOLEAN
         /\ session' \in [Connections -> SessionType]
         /\ far' \in [Connections -> {"none", "unaccepted", "served", "gone"}]
         /\ down' \in [Connections -> Seq(Units)]
         /\ built' \in [Connections -> Seq(Units)]
         /\ handled' \in [Connections -> {"no", "done", "throws", "crashes"}]
  <1> PICK o \in Outcomes, n \in BodySizes :
        LET c    == request[2].of
            body == BodyOf(c, n)
            s    == Respond([session[k] EXCEPT !.reads = Tail(@)], body)
        IN  /\ handled' = [handled EXCEPT ![c] = o]
            /\ built' = [built EXCEPT ![c] = IF o = "crashes" THEN @ ELSE body]
            /\ CASE o = "done" ->
                      /\ Keep(k, [s EXCEPT !.reads = Append(@, "header")])
                      /\ UNCHANGED << server, down >>
                 [] o = "throws" ->
                      /\ EndOfServer
                      /\ \E m \in Room(k, s) \cup {0} :
                           down' = [down EXCEPT ![k] = @ \o SubSeq(s.reply, 1, m)]
                 [] o = "crashes" ->
                      /\ EndOfServer
                      /\ UNCHANGED down
    BY DEF HandleMessage
  <1> DEFINE c    == request[2].of
             body == BodyOf(c, n)
             s    == Respond([session[k] EXCEPT !.reads = Tail(@)], body)
  <1>1. c \in Connections /\ body \in Seq(Units) /\ o \in {"done", "throws", "crashes"}
    BY HandlerTypes
  <1>2. session[k] \in SessionType /\ session[k].reads \in Reads
    BY DEF TypeOK, SessionType, Reads
  <1>3. [session[k] EXCEPT !.reads = Tail(@)] \in SessionType
    BY <1>2, ReadsProperties, SessionChanges
  <1>4. s \in SessionType /\ s.reads \in Reads /\ s.reply \in Seq(Units)
    <2>1. s \in SessionType
      BY <1>1, <1>3, DoWriteType
    <2> QED
      BY <2>1 DEF SessionType
  <1>5. [s EXCEPT !.reads = Append(@, "header")] \in SessionType
    BY <1>4, ReadsProperties, SessionChanges
  <1>6. /\ handled' \in [Connections -> {"no", "done", "throws", "crashes"}]
        /\ built' \in [Connections -> Seq(Units)]
    BY <1>1 DEF TypeOK
  <1>7. CASE o = "done"
    BY <1>5, <1>6, <1>7, KeepType DEF TypeOK
  <1>8. CASE o = "throws"
    <2>1. PICK m \in Room(k, s) \cup {0} :
            down' = [down EXCEPT ![k] = @ \o SubSeq(s.reply, 1, m)]
      BY <1>8
    <2>2. m \in 0 .. Len(s.reply)
      BY <1>4, LenProperties DEF Room
    <2>3. down[k] \o SubSeq(s.reply, 1, m) \in Seq(Units)
      BY <1>4, <2>2, SplitProperties, ConcatProperties DEF TypeOK
    <2>4. down' \in [Connections -> Seq(Units)]
      BY <2>1, <2>3 DEF TypeOK
    <2> QED
      BY <1>6, <1>8, <2>4, EndOfServerType
  <1>9. CASE o = "crashes"
    BY <1>6, <1>9, EndOfServerType DEF TypeOK
  <1> QED
    BY <1>1, <1>7, <1>8, <1>9

LEMMA SessionsTyped ==
  ASSUME TypeOK, NEW k \in Connections
  PROVE  /\ session[k] \in SessionType /\ session[k].reads \in Reads
         /\ session[k].reply \in Seq(Units) /\ session[k].header \in Units
         /\ session[k].total \in Nat /\ session[k].sent \in Nat
         /\ up[k] \in Seq(Units) /\ down[k] \in Seq(Units) /\ built[k] \in Seq(Units)
  BY DEF TypeOK, SessionType, Reads

\* The bytes that a write hands to the socket.
LEMMA WriteTypes ==
  ASSUME TypeOK, NEW k \in Connections, NEW n \in Room(k, session[k])
  PROVE  /\ n \in 1 .. Len(session[k].reply)
         /\ down[k] \o SubSeq(session[k].reply, 1, n) \in Seq(Units)
         /\ [session[k] EXCEPT !.reply = SubSeq(@, n + 1, Len(@)), !.sent = @ + n]
              \in SessionType
         /\ \A m \in Nat :
              WriteDone([session[k] EXCEPT !.reply = SubSeq(@, n + 1, Len(@)),
                                           !.sent = @ + n], m) \in SessionType
  <1>1. /\ session[k] \in SessionType /\ session[k].reply \in Seq(Units)
        /\ session[k].sent \in Nat /\ down[k] \in Seq(Units)
    BY SessionsTyped
  <1>2. n \in 1 .. Len(session[k].reply)
    BY DEF Room
  <1>3. Len(session[k].reply) \in Nat /\ n \in Nat /\ n \in 0 .. Len(session[k].reply)
    BY <1>1, <1>2, LenProperties
  <1>4. /\ SubSeq(session[k].reply, 1, n) \in Seq(Units)
        /\ SubSeq(session[k].reply, n + 1, Len(session[k].reply)) \in Seq(Units)
    BY <1>1, <1>3, SplitProperties
  <1>5. [session[k] EXCEPT !.reply = SubSeq(@, n + 1, Len(@)), !.sent = @ + n]
          \in SessionType
    BY <1>1, <1>3, <1>4, SessionChanges
  <1> QED
    BY <1>1, <1>2, <1>4, <1>5, ConcatProperties, SessionChanges

LEMMA ServerTypes ==
  ASSUME TypeOK, NEW k \in Connections, ServerStep(k)
  PROVE  TypeOK'
  <1> USE SessionsTyped
  <1>1. CASE Accept(k)
    <2>1. << "header" >> \in Reads
      BY DEF Reads
    <2>2. [session[k] EXCEPT !.reads = << "header" >>] \in SessionType
      BY <2>1, SessionChanges
    <2>3. session' \in [Connections -> SessionType]
      BY <1>1, <2>2 DEF Accept, TypeOK, SessionType, Reads
    <2> QED
      BY <1>1, <2>3 DEF Accept, TypeOK, clientVars, SessionType, Reads
  <1>2. CASE HandleReadHeader(k)
    <2>1. Tail(session[k].reads) \in Reads
      BY <1>2, ReadsProperties DEF HandleReadHeader, Reading
    <2>2. AfterEof(session[k]) \in SessionType
      BY <2>1, SessionChanges DEF AfterEof
    <2>3. /\ up' \in [Connections -> Seq(Units)]
          /\ \E s \in SessionType : Keep(k, s)
      <3>1. CASE UNCHANGED up /\ Keep(k, AfterEof(session[k]))
        BY <3>1, <2>2 DEF TypeOK
      <3>2. CASE ~(UNCHANGED up /\ Keep(k, AfterEof(session[k])))
        <4>1. up[k] # << >> /\ Head(up[k]) \in Units /\ Tail(up[k]) \in Seq(Units)
          BY <1>2, <3>2, HeadTailProperties DEF HandleReadHeader
        <4>2. [session[k] EXCEPT !.header = Head(up[k]),
                                 !.reads = Append(Tail(@), "body")] \in SessionType
          BY <2>1, <4>1, ReadsProperties, SessionChanges
        <4>3. /\ up' = [up EXCEPT ![k] = Tail(up[k])]
              /\ Keep(k, [session[k] EXCEPT !.header = Head(up[k]),
                                            !.reads = Append(Tail(@), "body")])
          BY <1>2, <3>2 DEF HandleReadHeader
        <4> QED
          BY <4>1, <4>2, <4>3 DEF TypeOK
      <3> QED
        BY <3>1, <3>2
    <2>4. /\ session' \in [Connections -> SessionType]
          /\ far' \in [Connections -> {"none", "unaccepted", "served", "gone"}]
      BY <2>3, KeepType
    <2> QED
      BY <1>2, <2>3, <2>4 DEF HandleReadHeader, TypeOK, clientVars, SessionType, Reads
  <1>3. CASE HandleReadBody(k)
    <2> DEFINE n == SizeOf(session[k].header)
    <2>1. Tail(session[k].reads) \in Reads /\ session[k].reads # << >>
      BY <1>3, ReadsProperties DEF HandleReadBody, Reading
    <2>2. AfterEof(session[k]) \in SessionType
      BY <2>1, SessionChanges DEF AfterEof
    <2>3. n \in Nat
      BY SizesAreNatural
    <2>4. CASE /\ Len(up[k]) < n /\ Keep(k, AfterEof(session[k]))
               /\ UNCHANGED << server, built, handled, up, down >>
      BY <1>3, <2>2, <2>4, KeepType
      DEF HandleReadBody, TypeOK, clientVars, SessionType, Reads
    <2>5. CASE ~(/\ Len(up[k]) < n /\ Keep(k, AfterEof(session[k]))
                 /\ UNCHANGED << server, built, handled, up, down >>)
      <3>1. Len(up[k]) >= n /\ up' = [up EXCEPT ![k] = SubSeq(up[k], n + 1, Len(up[k]))]
        BY <1>3, <2>5 DEF HandleReadBody
      <3>2. up' \in [Connections -> Seq(Units)] /\ SubSeq(up[k], 1, n) \in Seq(Units)
        <4>1. n \in 0 .. Len(up[k])
          BY <2>3, <3>1, LenProperties
        <4>2. SubSeq(up[k], n + 1, Len(up[k])) \in Seq(Units) /\ SubSeq(up[k], 1, n) \in Seq(Units)
          BY <4>1, SplitProperties
        <4> QED
          BY <3>1, <4>2 DEF TypeOK
      <3>3. CASE IsRequest(SubSeq(up[k], 1, n))
        <4>1. HandleMessage(k, SubSeq(up[k], 1, n))
          BY <1>3, <2>5, <3>3 DEF HandleReadBody
        <4>2. /\ server' \in BOOLEAN
              /\ session' \in [Connections -> SessionType]
              /\ far' \in [Connections -> {"none", "unaccepted", "served", "gone"}]
              /\ down' \in [Connections -> Seq(Units)]
              /\ built' \in [Connections -> Seq(Units)]
              /\ handled' \in [Connections -> {"no", "done", "throws", "crashes"}]
          BY <2>1, <3>2, <3>3, <4>1, HandleMessageTypes
        <4> QED
          BY <1>3, <3>2, <4>2 DEF HandleReadBody, TypeOK, clientVars, SessionType, Reads
      <3>4. CASE ~IsRequest(SubSeq(up[k], 1, n))
        <4>1. /\ Keep(k, [session[k] EXCEPT !.reads = Append(Tail(@), "header")])
              /\ UNCHANGED << server, built, handled, down >>
          BY <1>3, <2>5, <3>4 DEF HandleReadBody
        <4>2. [session[k] EXCEPT !.reads = Append(Tail(@), "header")] \in SessionType
          BY <2>1, ReadsProperties, SessionChanges
        <4>3. /\ session' \in [Connections -> SessionType]
              /\ far' \in [Connections -> {"none", "unaccepted", "served", "gone"}]
          BY <4>1, <4>2, KeepType
        <4> QED
          BY <1>3, <3>2, <4>1, <4>3 DEF HandleReadBody, TypeOK, clientVars, SessionType, Reads
      <3> QED
        BY <3>3, <3>4
    <2> QED
      BY <2>4, <2>5
  <1>4. CASE WriteSome(k)
    <2>1. /\ down' \in [Connections -> Seq(Units)]
          /\ \E s \in SessionType : Keep(k, s)
      <3>1. CASE /\ Keep(k, [session[k] EXCEPT !.total = 0, !.sent = 0])
                 /\ UNCHANGED down
        BY <3>1, SessionChanges DEF TypeOK
      <3>2. ASSUME NEW n \in Room(k, session[k]), NEW s,
                   s = [session[k] EXCEPT !.reply = SubSeq(@, n + 1, Len(@)), !.sent = @ + n],
                   down' = [down EXCEPT ![k] = @ \o SubSeq(session[k].reply, 1, n)],
                   Keep(k, IF s.sent >= s.total THEN WriteDone(s, s.total) ELSE s)
            PROVE  /\ down' \in [Connections -> Seq(Units)]
                   /\ \E t \in SessionType : Keep(k, t)
        <4>1. down' \in [Connections -> Seq(Units)]
          BY <3>2, WriteTypes DEF TypeOK
        <4>2. s \in SessionType /\ \A m \in Nat : WriteDone(s, m) \in SessionType
          BY <3>2, WriteTypes
        <4>3. s.total \in Nat
          BY <4>2 DEF SessionType
        <4> QED
          BY <3>2, <4>1, <4>2, <4>3
      <3> QED
        BY <1>4, <3>1, <3>2 DEF WriteSome
    <2>2. /\ session' \in [Connections -> SessionType]
          /\ far' \in [Connections -> {"none", "unaccepted", "served", "gone"}]
      BY <2>1, KeepType
    <2> QED
      BY <1>4, <2>1, <2>2 DEF WriteSome, TypeOK, clientVars, SessionType, Reads
  <1> QED
    BY <1>1, <1>2, <1>3, <1>4 DEF ServerStep

LEMMA TypeInit == Init => TypeOK
  <1> SUFFICES ASSUME Init PROVE TypeOK
    OBVIOUS
  <1>1. << >> \in Seq(Units)
    BY EmptySeq
  <1>2. session \in [Connections -> SessionType]
    BY NoSessionType DEF Init
  <1>3. result \in [Connections -> [status : {"none", "error", "ok"}, answer : Seq(Units)]]
    BY <1>1 DEF Init, NoResult
  <1>4. /\ starts \in 0 .. MaxStarts /\ server \in BOOLEAN
        /\ cmd \in [Clients -> 0 .. MaxCommands] /\ conn \in [Clients -> 0 .. MaxCommands]
        /\ shell \in [Clients -> {"idle", "sending", "header", "body", "killed"}]
    <2>1. 0 \in 0 .. MaxStarts /\ 0 \in 0 .. MaxCommands
      BY SessionAssumption
    <2> QED
      BY <2>1, Zenon DEF Init
  <1>5. /\ out \in [Clients -> Seq(Units)] /\ reply \in [Clients -> Seq(Units)]
        /\ up \in [Connections -> Seq(Units)] /\ down \in [Connections -> Seq(Units)]
        /\ built \in [Connections -> Seq(Units)]
    BY <1>1 DEF Init
  <1>6. /\ near \in [Connections -> BOOLEAN]
        /\ far \in [Connections -> {"none", "unaccepted", "served", "gone"}]
        /\ handled \in [Connections -> {"no", "done", "throws", "crashes"}]
    BY DEF Init
  <1> QED
    BY <1>2, <1>3, <1>4, <1>5, <1>6 DEF TypeOK, SessionType, Reads

LEMMA TypeStep ==
  ASSUME TypeOK, ClientOwns, [Next]_vars
  PROVE  TypeOK'
  <1>1. ASSUME NEW c \in Clients, ClientStep(c) \/ Kill(c) PROVE TypeOK'
    BY <1>1, ClientTypes
  <1>2. ASSUME NEW k \in Connections, ServerStep(k) PROVE TypeOK'
    BY <1>2, ServerTypes
  <1>3. CASE Start
    BY <1>3, SessionAssumption DEF Start, TypeOK, clientVars
  <1>4. CASE Exit
    BY <1>4, EndOfServerType DEF Exit, TypeOK, clientVars, SessionType, Reads
  <1>5. CASE UNCHANGED vars
    BY <1>5 DEF vars, clientVars, serverVars, TypeOK
  <1> QED
    BY <1>1, <1>2, <1>3, <1>4, <1>5 DEF Next

-----------------------------------------------------------------------------
(* Connections that a step leaves alone, and connections that the end of   *)
(* the server closes.                                                      *)

RequestUnchanged(k) ==
  /\ near'[k] => near[k] /\ shell'[k[1]] = shell[k[1]]
                         /\ out'[k[1]] = out[k[1]] /\ reply'[k[1]] = reply[k[1]]
  /\ up'[k] = up[k] /\ down'[k] = down[k]
  /\ built'[k] = built[k] /\ handled'[k] = handled[k] /\ result'[k] = result[k]

LEMMA UnchangedSound ==
  ASSUME NEW k \in Connections, Sound(k), RequestUnchanged(k),
         session'[k] = session[k], far'[k] = far[k]
  PROVE  Sound(k)'
  <1>1. Requested(k)'
    BY DEF Sound, Requested, RequestOf, Stage, AwaitsHeader, AwaitsBody,
           AwaitsNothing, Accepted, RequestUnchanged, Request
  <1>2. (~Answered(k) => Silent(k))'
    BY DEF Sound, Answered, Silent, RequestUnchanged
  <1>3. Delivered(k)'
    <2> SUFFICES ASSUME near'[k] PROVE Delivered(k)'
      BY DEF Delivered
    <2>1. /\ near[k] /\ shell'[k[1]] = shell[k[1]] /\ Received(k)' = Received(k)
          /\ handled'[k] = handled[k] /\ built'[k] = built[k]
      BY DEF RequestUnchanged, Received
    <2>2. Answering(k)' <=> Answering(k)
      BY <2>1 DEF Answering
    <2> QED
      BY <2>1, <2>2 DEF Sound, Delivered, Answered
  <1>4. Matched(k)'
    BY DEF Sound, Matched, Answered, RequestUnchanged
  <1> QED
    BY <1>1, <1>2, <1>3, <1>4 DEF Sound

LEMMA EndedSound ==
  ASSUME NEW k \in Connections, Sound(k), RequestUnchanged(k), EndOfServer
  PROVE  Sound(k)'
  <1>1. /\ session'[k] = NoSession /\ far'[k] = IF far[k] = "none" THEN "none" ELSE "gone"
        /\ session'[k].reads = << >> /\ session'[k].reply = << >>
        /\ session'[k].total = 0 /\ session'[k].sent = 0
    BY DEF EndOfServer, NoSession
  <1>2. << >> \in Seq({"header"})
    BY EmptySeq
  <1>3. Requested(k)'
    <2> PICK unread \in {Request(k), Tail(Request(k)), << >>} : RequestOf(k, unread)
      BY DEF Sound, Requested
    <2>1. Stage(k, unread)'
      BY <1>1, <1>2 DEF RequestOf, Stage, AwaitsHeader, AwaitsBody, AwaitsNothing,
                        Accepted, RequestUnchanged, Request
    <2>2. RequestOf(k, unread)'
      BY <2>1 DEF RequestOf, RequestUnchanged
    <2> QED
      BY <2>2 DEF Requested, Request
  <1>4. (~Answered(k) => Silent(k))'
    BY <1>1 DEF Sound, Answered, Silent, RequestUnchanged
  <1>5. Delivered(k)'
    <2> SUFFICES ASSUME near'[k] PROVE Delivered(k)'
      BY DEF Delivered
    <2>1. /\ near[k] /\ shell'[k[1]] = shell[k[1]] /\ Received(k)' = Received(k)
          /\ handled'[k] = handled[k] /\ built'[k] = built[k]
      BY DEF RequestUnchanged, Received
    <2>2. Answering(k)'
      BY <1>1 DEF Answering
    <2> QED
      BY <2>1, <2>2 DEF Sound, Delivered, Answered
  <1>6. Matched(k)'
    BY DEF Sound, Matched, Answered, RequestUnchanged
  <1> QED
    BY <1>3, <1>4, <1>5, <1>6 DEF Sound

\* A Session with something to do has been accepted.
LEMMA ServedAccepted ==
  ASSUME NEW k \in Connections, Sound(k), session[k].total \in Nat,
         session[k].reads # << >> \/ session[k].total > 0
  PROVE  Accepted(k)
  <1>1. CASE Answered(k)
    BY <1>1 DEF Sound, Requested, RequestOf, Stage, AwaitsHeader, AwaitsBody,
                AwaitsNothing, Answered
  <1>2. CASE ~Answered(k)
    <2>1. session[k].reads # << >>
      BY <1>2 DEF Sound, Silent
    <2> QED
      BY <2>1 DEF Sound, Requested, RequestOf, Stage, AwaitsHeader, AwaitsBody,
                  AwaitsNothing
  <1> QED
    BY <1>1, <1>2

-----------------------------------------------------------------------------
(* The steps of a client.                                                  *)

Owns(c) ==
  /\ Active(c) => conn[c] = cmd[c] /\ cmd[c] # 0
  /\ shell[c] = "sending" => out[c] # << >>
  /\ \A n \in 1 .. MaxCommands :
       /\ near[<< c, n >>] <=> (Active(c) /\ n = cmd[c])
       /\ n > cmd[c] => far[<< c, n >>] = "none" /\ up[<< c, n >>] = << >>

ReplyOf(c) ==
  /\ shell[c] = "header" => reply[c] = << >>
  /\ shell[c] = "body" => reply[c] # << >>

LEMMA PerClient ==
  /\ ClientOwns <=> \A c \in Clients : Owns(c)
  /\ ReplyRead <=> \A c \in Clients : ReplyOf(c)
  BY DEF ClientOwns, ReplyRead, Owns, ReplyOf

Pairs == \A k \in Connections : k[1] \in Clients /\ k[2] \in 1 .. MaxCommands
                                  /\ k = << k[1], k[2] >>

LEMMA ConnectionsArePairs == Pairs
  BY DEF Pairs, Connections

LEMMA CurrentConnection ==
  ASSUME TypeOK, ClientOwns
  PROVE  /\ \A k \in Connections : near[k] =>
              Active(k[1]) /\ k = Link(k[1]) /\ k = Command(k[1])
         /\ \A c \in Clients : Active(c) =>
              /\ Link(c) = Command(c) /\ Link(c) \in Connections
              /\ Link(c)[1] = c /\ near[Link(c)]
  <1>1. ASSUME NEW c \in Clients, Active(c)
        PROVE  /\ Link(c) = Command(c) /\ Link(c) \in Connections
               /\ Link(c)[1] = c /\ near[Link(c)]
    <2>1. conn[c] = cmd[c] /\ cmd[c] \in 1 .. MaxCommands
      BY <1>1, SessionAssumption DEF ClientOwns, TypeOK
    <2> QED
      BY <1>1, <2>1 DEF ClientOwns, Link, Command, Connections
  <1>2. ASSUME NEW k \in Connections, near[k]
        PROVE  Active(k[1]) /\ k = Link(k[1]) /\ k = Command(k[1])
    BY <1>2, ConnectionsArePairs DEF ClientOwns, Pairs, Link, Command
  <1> QED
    BY <1>1, <1>2

\* The other clients do not notice a step of client c.
LEMMA OtherClients ==
  ASSUME NEW c \in Clients, NEW d \in Clients \ {c}, Owns(d), ReplyOf(d),
         shell'[d] = shell[d], conn'[d] = conn[d], cmd'[d] = cmd[d],
         out'[d] = out[d], reply'[d] = reply[d],
         \A n \in 1 .. MaxCommands :
           /\ near'[<< d, n >>] = near[<< d, n >>]
           /\ far'[<< d, n >>] = far[<< d, n >>]
           /\ up'[<< d, n >>] = up[<< d, n >>]
  PROVE  Owns(d)' /\ ReplyOf(d)'
  BY DEF Owns, ReplyOf, Active

\* A command ends: its connection is closed at the client's end.
LEMMA EndOfCommand ==
  ASSUME IInv, TypeOK', NEW c \in Clients, Active(c),
         NEW how \in {"idle", "killed"}, shell' = [shell EXCEPT ![c] = how],
         Close(c), UNCHANGED << cmd, conn, out, reply, up, down, serverVars >>,
         \A k \in Connections : k # Link(c) => result'[k] = result[k],
         Matched(Link(c))'
  PROVE  IInv'
  <1>1. /\ Link(c) = Command(c) /\ Link(c) \in Connections
        /\ Link(c)[1] = c /\ near[Link(c)]
    BY CurrentConnection DEF IInv
  <1>2. /\ shell'[c] = how
        /\ \A d \in Clients \ {c} : shell'[d] = shell[d]
        /\ ~near'[Link(c)]
        /\ \A k \in Connections : k # Link(c) => near'[k] = near[k]
    BY <1>1 DEF Close, IInv, TypeOK
  <1>3. ASSUME NEW d \in Clients PROVE Owns(d)' /\ ReplyOf(d)'
    <2>1. Owns(d) /\ ReplyOf(d)
      BY PerClient DEF IInv
    <2>2. CASE d # c
      <3>1. \A n \in 1 .. MaxCommands : << d, n >> \in Connections /\ << d, n >> # Link(c)
        BY <2>2 DEF Connections, Link
      <3> QED
        BY <1>2, <2>1, <2>2, <3>1, OtherClients DEF serverVars
    <2>3. CASE d = c
      <3>1. \A n \in 1 .. MaxCommands : ~near'[<< c, n >>]
        BY <1>1, <1>2, <2>1, <2>3 DEF Owns, Connections, Link
      <3> QED
        BY <1>2, <2>1, <2>3, <3>1 DEF Owns, ReplyOf, Active, serverVars
    <2> QED
      BY <2>2, <2>3
  <1>4. ASSUME NEW k \in Connections PROVE Sound(k)'
    <2>1. Sound(k)
      BY DEF IInv
    <2>2. CASE k # Link(c)
      <3>1. near[k] => k[1] \in Clients \ {c}
        BY <2>2, CurrentConnection, ConnectionsArePairs DEF IInv, Pairs
      <3>2. RequestUnchanged(k)
        BY <1>2, <2>2, <3>1 DEF RequestUnchanged, serverVars
      <3> QED
        BY <2>1, <3>2, UnchangedSound DEF serverVars
    <2>3. CASE k = Link(c)
      <3>1. Requested(k)'
        BY <1>2, <2>1, <2>3
        DEF Sound, Requested, RequestOf, Stage, AwaitsHeader, AwaitsBody,
            AwaitsNothing, Accepted, Request, serverVars
      <3>2. (~Answered(k) => Silent(k))'
        BY <1>2, <2>1, <2>3 DEF Sound, Answered, Silent, serverVars
      <3>3. Delivered(k)'
        BY <1>2, <2>3 DEF Delivered
      <3>4. Matched(k)'
        <4>1. Link(c)' = Link(c)
          BY DEF Link
        <4> QED
          BY <2>3, <4>1 DEF Matched, Answered
      <3> QED
        BY <3>1, <3>2, <3>3, <3>4 DEF Sound
    <2> QED
      BY <2>2, <2>3
  <1> QED
    BY <1>3, <1>4, PerClient DEF IInv, ClientOwns, ReplyRead, Owns, ReplyOf, Active

LEMMA FailStep ==
  ASSUME IInv, TypeOK', NEW c \in Clients, Active(c), Fail(c),
         UNCHANGED << cmd, conn, out, reply, up, down, serverVars >>
  PROVE  IInv'
  <1>1. /\ Link(c) = Command(c) /\ Link(c) \in Connections
    BY CurrentConnection DEF IInv
  <1>2. /\ result'[Link(c)].status = "error"
        /\ \A k \in Connections : k # Link(c) => result'[k] = result[k]
    BY <1>1 DEF Fail, Report, IInv, TypeOK
  <1>3. Matched(Link(c))'
    <2>1. Link(c)' = Link(c)
      BY DEF Link
    <2> QED
      BY <1>2, <2>1 DEF Matched
  <1> QED
    BY <1>2, <1>3, EndOfCommand DEF Fail

LEMMA ConnectFailsStep ==
  ASSUME IInv, TypeOK', NEW c \in Clients, ConnectFails(c)
  PROVE  IInv'
  <1>1. /\ shell[c] = "idle" /\ cmd[c] + 1 \in 1 .. MaxCommands
        /\ cmd'[c] = cmd[c] + 1 /\ \A d \in Clients \ {c} : cmd'[d] = cmd[d]
    BY SessionAssumption DEF ConnectFails, IInv, TypeOK
  <1>2. /\ << c, cmd[c] + 1 >> \in Connections
        /\ result'[<< c, cmd[c] + 1 >>].status = "error"
        /\ \A k \in Connections : k # << c, cmd[c] + 1 >> => result'[k] = result[k]
    BY <1>1 DEF ConnectFails, IInv, TypeOK, Connections
  <1>3. ASSUME NEW d \in Clients PROVE Owns(d)' /\ ReplyOf(d)'
    <2>1. Owns(d) /\ ReplyOf(d)
      BY PerClient DEF IInv
    <2>2. CASE d # c
      BY <1>1, <2>1, <2>2, OtherClients DEF ConnectFails, serverVars
    <2>3. CASE d = c
      <3>1. ~Active(c) /\ ~Active(c)'
        BY <1>1 DEF ConnectFails, Active
      <3>2. \A n \in 1 .. MaxCommands : n > cmd'[c] => n > cmd[c]
        BY <1>1 DEF IInv, TypeOK
      <3> QED
        BY <1>1, <2>1, <2>3, <3>1, <3>2 DEF Owns, ReplyOf, ConnectFails, serverVars
    <2> QED
      BY <2>2, <2>3
  <1>4. ASSUME NEW k \in Connections PROVE Sound(k)'
    <2>1. Sound(k)
      BY DEF IInv
    <2>2. CASE k # << c, cmd[c] + 1 >>
      <3>1. RequestUnchanged(k)
        BY <1>2, <2>2 DEF RequestUnchanged, ConnectFails, serverVars
      <3> QED
        BY <2>1, <3>1, UnchangedSound DEF ConnectFails, serverVars
    <2>3. CASE k = << c, cmd[c] + 1 >>
      <3>1. ~near[k] /\ ~near'[k]
        BY <1>1, <2>3, CurrentConnection, ConnectionsArePairs
        DEF IInv, Active, Pairs, ConnectFails
      <3>2. Requested(k)'
        BY <2>1, <3>1
        DEF ConnectFails, Sound, Requested, RequestOf, Stage, AwaitsHeader,
            AwaitsBody, AwaitsNothing, Accepted, Request, serverVars
      <3>3. (~Answered(k) => Silent(k))'
        BY <2>1, <3>1 DEF ConnectFails, Sound, Answered, Silent, serverVars
      <3>4. Delivered(k)'
        BY <3>1 DEF Delivered
      <3>5. Matched(k)'
        BY <1>2, <2>3 DEF Matched
      <3> QED
        BY <3>2, <3>3, <3>4, <3>5 DEF Sound
    <2> QED
      BY <2>2, <2>3
  <1> QED
    BY <1>3, <1>4, PerClient DEF IInv, ClientOwns, ReplyRead, Owns, ReplyOf, Active

LEMMA ConnectStep ==
  ASSUME IInv, TypeOK', NEW c \in Clients, Connect(c)
  PROVE  IInv'
  <1> PICK n \in 1 .. MaxCommands : n = cmd[c] + 1
    BY SessionAssumption DEF Connect, IInv, TypeOK
  <1> DEFINE k == << c, n >>
  <1>0. /\ shell[c] = "idle"
        /\ conn' = [conn EXCEPT ![c] = n]
        /\ near' = [near EXCEPT ![k] = TRUE]
        /\ far' = [far EXCEPT ![k] = IF @ = "none" THEN "unaccepted" ELSE @]
        /\ cmd' = [cmd EXCEPT ![c] = n]
        /\ out' = [out EXCEPT ![c] = Request(k)]
        /\ shell' = [shell EXCEPT ![c] = "sending"]
        /\ UNCHANGED << reply, result, session, built, handled, up, down >>
    BY DEF Connect, ConnectionFor, Request
  <1>1. /\ k \in Connections /\ cmd[c] \in Nat /\ n > cmd[c] /\ n # 0
    <2>1. cmd[c] \in 0 .. MaxCommands /\ MaxCommands \in Nat
      BY SessionAssumption DEF IInv, TypeOK
    <2> QED
      BY <2>1 DEF Connections
  <1> HIDE DEF k
  <1>2. /\ cmd'[c] = n /\ conn'[c] = n /\ shell'[c] = "sending"
        /\ out'[c] = Request(k)
        /\ \A d \in Clients \ {c} :
             /\ cmd'[d] = cmd[d] /\ conn'[d] = conn[d] /\ shell'[d] = shell[d]
             /\ out'[d] = out[d]
    BY <1>0 DEF IInv, TypeOK
  <1>3. /\ near'[k] /\ far'[k] = IF far[k] = "none" THEN "unaccepted" ELSE far[k]
        /\ \A q \in Connections : q # k => near'[q] = near[q] /\ far'[q] = far[q]
    BY <1>0, <1>1 DEF IInv, TypeOK
  <1>4. Owns(c) /\ far[k] = "none" /\ up[k] = << >>
    BY <1>1, PerClient DEF Owns, IInv, k
  <1>5. /\ Request(k) \in Seq(Units) /\ Request(k) # << >>
    BY <1>1, BodySequence, FrameProperties DEF Request
  <1>6. \A m \in 1 .. MaxCommands : ~near[<< c, m >>]
    BY <1>0, <1>4 DEF Owns, Active
  <1>7. \A m \in 1 .. MaxCommands :
          << c, m >> \in Connections /\ (m # n => << c, m >> # k)
    BY DEF Connections, k
  <1>8. ASSUME NEW d \in Clients PROVE Owns(d)' /\ ReplyOf(d)'
    <2>1. Owns(d) /\ ReplyOf(d)
      BY PerClient DEF IInv
    <2>2. CASE d # c
      <3>1. \A m \in 1 .. MaxCommands : << d, m >> \in Connections /\ << d, m >> # k
        BY <2>2 DEF Connections, k
      <3> QED
        <4>1. \A m \in 1 .. MaxCommands :
                /\ near'[<< d, m >>] = near[<< d, m >>]
                /\ far'[<< d, m >>] = far[<< d, m >>]
                /\ up'[<< d, m >>] = up[<< d, m >>]
          BY <1>0, <1>3, <3>1
        <4> QED
          BY <1>0, <1>2, <2>1, <2>2, <4>1, OtherClients
    <2>3. CASE d = c
      <3>1. Active(c)' /\ conn'[c] = cmd'[c] /\ cmd'[c] # 0 /\ out'[c] # << >>
        BY <1>1, <1>2, <1>5 DEF Active
      <3>2. ASSUME NEW m \in 1 .. MaxCommands
            PROVE  /\ near'[<< c, m >>] <=> (Active(c)' /\ m = cmd'[c])
                   /\ m > cmd'[c] => far'[<< c, m >>] = "none" /\ up'[<< c, m >>] = << >>
        <4>1. CASE m = n
          BY <1>1, <1>2, <1>3, <3>1, <4>1 DEF k
        <4>2. CASE m # n
          <5>1. ~near'[<< c, m >>] /\ far'[<< c, m >>] = far[<< c, m >>]
            BY <1>3, <1>6, <1>7, <4>2
          <5>2. m > n => m > cmd[c]
            BY <1>1
          <5> QED
            BY <1>0, <1>2, <1>4, <4>2, <5>1, <5>2 DEF Owns
        <4> QED
          BY <4>1, <4>2
      <3>3. Owns(c)'
        BY <3>1, <3>2 DEF Owns
      <3>4. ReplyOf(c)'
        BY <1>2 DEF ReplyOf
      <3> QED
        BY <2>3, <3>3, <3>4
    <2> QED
      BY <2>2, <2>3
  <1>9. ASSUME NEW q \in Connections PROVE Sound(q)'
    <2>1. Sound(q)
      BY DEF IInv
    <2>2. CASE q # k
      <3>1. near'[q] => near[q] /\ q[1] \in Clients \ {c}
        BY <1>0, <1>1, <1>3, <2>2, CurrentConnection, ConnectionsArePairs DEF IInv, Pairs, Active
      <3>2. RequestUnchanged(q)
        BY <1>0, <1>2, <3>1 DEF RequestUnchanged
      <3> QED
        BY <1>0, <1>3, <2>1, <2>2, <3>2, UnchangedSound
    <2>3. CASE q = k
      <3>1. k[1] = c /\ ~Accepted(k) /\ far'[k] = "unaccepted" /\ up'[k] = << >>
        BY <1>0, <1>3, <1>4 DEF k, Accepted
      <3>2. AwaitsHeader(k)
        BY <2>1, <2>3, <3>1 DEF Sound, Requested, RequestOf, Stage, AwaitsBody, AwaitsNothing
      <3>3. AwaitsHeader(k)'
        BY <1>0, <3>1, <3>2 DEF AwaitsHeader, Accepted
      <3>4. /\ Begins(up'[k], Request(k))
            /\ up'[k] \o out'[k[1]] = Request(k)
        BY <1>2, <1>5, <3>1, BeginsEmpty, ConcatEmptySeq
      <3>5. Requested(k)'
        <4>1. RequestOf(k, Request(k))'
          BY <3>3, <3>4 DEF RequestOf, Stage, Request
        <4> QED
          BY <4>1 DEF Requested, Request
      <3>6. ~Answered(k) /\ ~Answered(k)'
        BY <3>2, <3>3 DEF AwaitsHeader, Answered
      <3>7. Silent(k)'
        BY <1>0, <1>2, <2>1, <2>3, <3>1, <3>6 DEF Sound, Silent
      <3>8. Matched(k)'
        BY <1>0, <2>1, <2>3, <3>6 DEF Sound, Matched, Answered
      <3> QED
        BY <2>3, <3>5, <3>6, <3>7, <3>8 DEF Sound, Delivered
    <2> QED
      BY <2>2, <2>3
  <1> QED
    BY <1>8, <1>9, PerClient DEF IInv, ClientOwns, ReplyRead, Owns, ReplyOf, Active

\* A client reads or writes on the connection of its command.
LEMMA ActiveStep ==
  ASSUME IInv, TypeOK', NEW c \in Clients, NEW k \in Connections,
         k[1] = c, k = Link(c), Active(c), Active(c)',
         UNCHANGED << cmd, conn, near, result, serverVars >>,
         \A d \in Clients \ {c} :
           shell'[d] = shell[d] /\ out'[d] = out[d] /\ reply'[d] = reply[d],
         \A q \in Connections \ {k} : up'[q] = up[q] /\ down'[q] = down[q],
         shell'[c] = "sending" => out'[c] # << >>,
         ReplyOf(c)', Sound(k)'
  PROVE  IInv'
  <1>1. k = << c, conn[c] >> /\ conn[c] = cmd[c]
    BY DEF Link, IInv, ClientOwns
  <1>2. ASSUME NEW d \in Clients PROVE Owns(d)' /\ ReplyOf(d)'
    <2>1. Owns(d) /\ ReplyOf(d)
      BY PerClient DEF IInv
    <2>2. CASE d # c
      <3>1. \A m \in 1 .. MaxCommands :
              << d, m >> \in Connections /\ up'[<< d, m >>] = up[<< d, m >>]
        BY <1>1, <2>2 DEF Connections
      <3> QED
        BY <2>1, <2>2, <3>1, OtherClients DEF serverVars
    <2>3. CASE d = c
      <3>1. ASSUME NEW m \in 1 .. MaxCommands, m > cmd[c]
            PROVE  up'[<< c, m >>] = up[<< c, m >>]
        <4>1. m # cmd[c]
          BY <3>1 DEF IInv, TypeOK
        <4> QED
          BY <1>1, <4>1 DEF Connections
      <3> QED
        BY <2>1, <2>3, <3>1 DEF Owns, Active, serverVars
    <2> QED
      BY <2>2, <2>3
  <1>3. ASSUME NEW q \in Connections PROVE Sound(q)'
    <2>1. CASE q # k
      <3>1. near[q] => q[1] \in Clients \ {c}
        BY <2>1, CurrentConnection, ConnectionsArePairs DEF IInv, Pairs
      <3>2. RequestUnchanged(q)
        BY <2>1, <3>1 DEF RequestUnchanged, serverVars
      <3> QED
        BY <3>2, UnchangedSound DEF IInv, serverVars
    <2> QED
      BY <2>1
  <1> QED
    BY <1>2, <1>3, PerClient DEF IInv, ClientOwns, ReplyRead, Owns, ReplyOf, Active

LEMMA SendStep ==
  ASSUME IInv, TypeOK', NEW c \in Clients, Send(c)
  PROVE  IInv'
  <1>1. shell[c] = "sending" /\ Active(c)
    BY DEF Send, Active
  <1>2. CASE Fail(c) /\ UNCHANGED << out, reply, up >>
    BY <1>1, <1>2, FailStep DEF Send, serverVars
  <1>3. CASE ~(Fail(c) /\ UNCHANGED << out, reply, up >>)
    <2> PICK k \in Connections : k = Link(c) /\ k[1] = c /\ near[k]
      BY <1>1, CurrentConnection DEF IInv
    <2>1. /\ up' = [up EXCEPT ![k] = Append(up[k], Head(out[c]))]
          /\ out' = [out EXCEPT ![c] = Tail(out[c])]
          /\ UNCHANGED << near, result, cmd, conn, serverVars, down >>
      BY <1>3 DEF Send
    <2>2. /\ Len(out[c]) = 1 => /\ shell' = [shell EXCEPT ![c] = "header"]
                                /\ reply' = [reply EXCEPT ![c] = << >>]
          /\ Len(out[c]) # 1 => UNCHANGED << shell, reply >>
      BY <1>3 DEF Send
    <2>3. /\ out[c] \in Seq(Units) /\ out[c] # << >> /\ up[k] \in Seq(Units)
          /\ Tail(out[c]) \in Seq(Units)
          /\ Len(Tail(out[c])) = Len(out[c]) - 1 /\ Len(out[c]) \in Nat \ {0}
      <3>1. out[c] \in Seq(Units) /\ out[c] # << >>
        BY <1>1 DEF IInv, TypeOK, ClientOwns
      <3> QED
        BY <3>1, HeadAndTail DEF IInv, TypeOK
    <2>4. /\ up'[k] = Append(up[k], Head(out[c])) /\ out'[c] = Tail(out[c])
          /\ \A q \in Connections \ {k} : up'[q] = up[q]
          /\ \A d \in Clients \ {c} :
               out'[d] = out[d] /\ shell'[d] = shell[d] /\ reply'[d] = reply[d]
      <3>1. /\ up'[k] = Append(up[k], Head(out[c])) /\ out'[c] = Tail(out[c])
            /\ \A q \in Connections \ {k} : up'[q] = up[q]
            /\ \A d \in Clients \ {c} : out'[d] = out[d]
        BY <2>1 DEF IInv, TypeOK
      <3>2. \A d \in Clients \ {c} : shell'[d] = shell[d] /\ reply'[d] = reply[d]
        BY <2>2 DEF IInv, TypeOK
      <3> QED
        BY <3>1, <3>2
    <2>5. up'[k] \o out'[c] = up[k] \o out[c] /\ up'[k] \in Seq(Units)
      <3>1. /\ Append(up[k], Head(out[c])) \in Seq(Units)
            /\ Append(up[k], Head(out[c])) \o Tail(out[c]) = up[k] \o out[c]
        BY <2>3, MoveOne
      <3> QED
        BY <2>4, <3>1
    <2>6. /\ shell'[c] \in {"sending", "header"}
          /\ shell'[c] = "header" => reply'[c] = << >>
          /\ shell'[c] = "sending" => out'[c] # << >>
      <3>1. CASE Len(out[c]) = 1
        BY <2>2, <3>1 DEF IInv, TypeOK
      <3>2. CASE Len(out[c]) # 1
        <4>1. Len(out'[c]) # 0
          BY <2>3, <2>4, <3>2
        <4> QED
          BY <1>1, <2>2, <3>2, <4>1
      <3> QED
        BY <3>1, <3>2
    <2>7. Sound(k)'
      <3>1. Sound(k)
        BY DEF IInv
      <3> PICK unread \in {Request(k), Tail(Request(k)), << >>} : RequestOf(k, unread)
        BY <3>1 DEF Sound, Requested
      <3>2. up[k] \o out[c] = unread
        BY <1>1 DEF RequestOf
      <3>3. unread # << >>
        <4>1. up[k] \o out[c] # << >>
          BY <2>3, MoveOne
        <4> QED
          BY <3>2, <4>1
      <3>4. handled[k] = "no" /\ ~Answered(k) /\ ~Answered(k)'
        BY <2>1, <3>3
        DEF RequestOf, Stage, AwaitsHeader, AwaitsBody, Answered, serverVars
      <3>5. Begins(up'[k], unread)
        BY <2>3, <2>4, <2>5, <3>2 DEF Begins
      <3>6. Stage(k, unread)'
        BY <2>1 DEF RequestOf, Stage, AwaitsHeader, AwaitsBody, AwaitsNothing,
                    Accepted, Request, serverVars
      <3>7. Requested(k)'
        <4>1. RequestOf(k, unread)'
          BY <2>5, <3>2, <3>5, <3>6 DEF RequestOf
        <4> QED
          BY <4>1 DEF Requested, Request
      <3>8. Silent(k)'
        BY <2>1, <2>6, <3>1, <3>4 DEF Sound, Silent, serverVars
      <3>9. Matched(k)'
        BY <2>1, <3>1, <3>4 DEF Sound, Matched, Answered, serverVars
      <3> QED
        BY <3>4, <3>7, <3>8, <3>9 DEF Sound, Delivered
    <2>8. ReplyOf(c)' /\ Active(c)'
      BY <2>6 DEF ReplyOf, Active
    <2> QED
      BY <1>1, <2>1, <2>4, <2>6, <2>7, <2>8, ActiveStep
  <1> QED
    BY <1>2, <1>3

LEMMA ReceiveStep ==
  ASSUME IInv, TypeOK', NEW c \in Clients, Receive(c)
  PROVE  IInv'
  <1>1. shell[c] \in {"header", "body"} /\ Active(c)
    BY DEF Receive, Wanted, Active
  <1>2. CASE Fail(c) /\ UNCHANGED << reply, down >>
    BY <1>1, <1>2, FailStep DEF Receive, serverVars
  <1>3. CASE ~(Fail(c) /\ UNCHANGED << reply, down >>)
    <2> PICK k \in Connections : k = Link(c) /\ k[1] = c /\ near[k]
      BY <1>1, CurrentConnection DEF IInv
    <2>1. /\ down[k] # << >>
          /\ reply' = [reply EXCEPT ![c] = Append(reply[c], Head(down[k]))]
          /\ down' = [down EXCEPT ![k] = Tail(down[k])]
          /\ shell' = [shell EXCEPT ![c] = "body"]
          /\ UNCHANGED << near, result, cmd, conn, out, serverVars, up >>
      BY <1>3 DEF Receive
    <2>2. /\ reply'[c] = Append(reply[c], Head(down[k])) /\ down'[k] = Tail(down[k])
          /\ shell'[c] = "body"
          /\ \A q \in Connections \ {k} : down'[q] = down[q]
          /\ \A d \in Clients \ {c} : shell'[d] = shell[d] /\ reply'[d] = reply[d]
      BY <2>1 DEF IInv, TypeOK
    <2>3. reply'[c] \o down'[k] = reply[c] \o down[k] /\ reply'[c] # << >>
      <3>1. reply[c] \in Seq(Units) /\ down[k] \in Seq(Units)
        BY DEF IInv, TypeOK
      <3>2. /\ Append(reply[c], Head(down[k])) # << >>
            /\ Append(reply[c], Head(down[k])) \o Tail(down[k]) = reply[c] \o down[k]
        BY <2>1, <3>1, MoveOne
      <3> QED
        BY <2>2, <3>2
    <2>4. Sound(k)'
      <3>1. Sound(k)
        BY DEF IInv
      <3>2. Answered(k) /\ Answered(k)'
        BY <2>1, <3>1 DEF Sound, Silent, Answered, serverVars
      <3>3. Requested(k)'
        BY <2>1, <2>2, <3>1
        DEF Sound, Requested, RequestOf, Stage, AwaitsHeader, AwaitsBody,
            AwaitsNothing, Accepted, Request, serverVars
      <3>4. Matched(k)'
        BY <2>1, <3>1 DEF Sound, Matched, Answered, serverVars
      <3>5. Received(k)' = Received(k)
        BY <2>3 DEF Received
      <3>6. Delivered(k)'
        <4>1. Answering(k)' <=> Answering(k)
          BY <2>1, <3>5 DEF Answering, serverVars
        <4> QED
          BY <1>1, <2>1, <3>1, <3>2, <3>5, <4>1 DEF Sound, Delivered, serverVars
      <3> QED
        BY <3>2, <3>3, <3>4, <3>6 DEF Sound
    <2>5. ReplyOf(c)' /\ Active(c)'
      BY <2>2, <2>3 DEF ReplyOf, Active
    <2> QED
      BY <1>1, <2>1, <2>2, <2>4, <2>5, ActiveStep
  <1> QED
    BY <1>2, <1>3

\* What the client has read when it has read enough is the whole response.
LEMMA WholeAnswer ==
  ASSUME IInv, NEW c \in Clients, shell[c] = "body", ~Wanted(c),
         NEW k \in Connections, k = Link(c), k[1] = c, near[k], Fits(built[k])
  PROVE  Answered(k) /\ SubSeq(reply[c], 3, Len(reply[c])) = built[k]
  <1>1. Sound(k) /\ built[k] \in Seq(Units)
    BY DEF IInv, TypeOK
  <1>2. Answered(k)
    BY <1>1 DEF Sound, Silent
  <1>3. Begins(Received(k), Frame(built[k]))
    BY <1>1, <1>2 DEF Sound, Delivered
  <1>4. /\ reply[c] \in Seq(Units) /\ down[k] \in Seq(Units) /\ reply[c] # << >>
    BY DEF IInv, TypeOK, ReplyRead
  <1> DEFINE frame == Frame(built[k])
  <1>5. /\ frame \in Seq(Units) /\ Len(frame) = 2 + Len(built[k])
        /\ Head(frame) = HeaderOf(1 + Len(built[k]))
        /\ SubSeq(frame, 3, Len(frame)) = built[k]
    BY <1>1, FrameProperties
  <1> HIDE DEF frame
  <1>6. Begins(reply[c], frame)
    BY <1>3, <1>4, <1>5, BeginsFirst DEF Received, frame
  <1>7. Head(reply[c]) = HeaderOf(1 + Len(built[k]))
    BY <1>4, <1>5, <1>6, BeginsTail
  <1>8. 1 + Len(built[k]) \in Nat /\ SizeOf(HeaderOf(1 + Len(built[k]))) = 1 + Len(built[k])
    <2>1. 1 + Len(built[k]) \in Nat /\ 1 + Len(built[k]) < LengthModulus
      BY <1>1, LenProperties DEF Fits
    <2> QED
      BY <2>1, HeaderUnit, Modulo
  <1>9. Len(reply[c]) \in Nat /\ Len(reply[c]) >= Len(frame)
    <2>1. ~(Len(reply[c]) < 1 + (1 + Len(built[k])))
      BY <1>7, <1>8 DEF Wanted
    <2> QED
      BY <1>4, <1>5, <1>8, <2>1, LenProperties
  <1>10. reply[c] = frame
    BY <1>4, <1>5, <1>6, <1>9, BeginsWhole
  <1> QED
    BY <1>2, <1>5, <1>10

LEMMA FinishStep ==
  ASSUME IInv, TypeOK', NEW c \in Clients, Finish(c)
  PROVE  IInv'
  <1>1. shell[c] = "body" /\ ~Wanted(c) /\ Active(c)
    BY DEF Finish, Active
  <1>2. UNCHANGED << cmd, conn, out, reply, up, down, serverVars >>
    BY DEF Finish
  <1> PICK k \in Connections : k = Link(c) /\ k[1] = c /\ near[k] /\ k = Command(c)
    BY <1>1, CurrentConnection DEF IInv
  <1>3. CASE Fail(c)
    BY <1>1, <1>2, <1>3, FailStep
  <1>4. ASSUME NEW answer, answer = SubSeq(reply[c], 3, Len(reply[c])),
               Report(c, [status |-> "ok", answer |-> answer]),
               shell' = [shell EXCEPT ![c] = "idle"], Close(c)
        PROVE  IInv'
    <2>1. /\ result'[k].answer = answer
          /\ \A q \in Connections : q # k => result'[q] = result[q]
      BY <1>4 DEF Report, IInv, TypeOK
    <2>2. Matched(k)'
      <3>1. Fits(built[k]) => Answered(k) /\ answer = built[k]
        BY <1>1, <1>4, WholeAnswer
      <3> QED
        BY <1>2, <2>1, <3>1 DEF Matched, Fits, Answered, serverVars
    <2>3. Matched(Link(c))'
      <3>1. Link(c)' = k
        BY <1>2 DEF Link
      <3> QED
        BY <2>2, <3>1 DEF Matched, Answered
    <2> QED
      BY <1>1, <1>2, <1>4, <2>1, <2>3, EndOfCommand
  <1>5. CASE shell' = [shell EXCEPT ![c] = "killed"] /\ Close(c) /\ UNCHANGED result
    <2>1. Matched(Link(c))'
      <3>1. Link(c)' = k /\ Matched(k)
        BY <1>2 DEF Link, IInv, Sound
      <3> QED
        BY <1>2, <1>5, <3>1 DEF Matched, Answered, Fits, serverVars
    <2> QED
      BY <1>1, <1>2, <1>5, <2>1, EndOfCommand
  <1> QED
    BY <1>3, <1>4, <1>5 DEF Finish

LEMMA KillStep ==
  ASSUME IInv, TypeOK', NEW c \in Clients, Kill(c)
  PROVE  IInv'
  <1>1. Active(c)
    BY DEF Kill, Active, IInv, TypeOK
  <1> PICK k \in Connections : k = Link(c)
    BY <1>1, CurrentConnection DEF IInv
  <1>2. Matched(Link(c))'
    <2>1. Link(c)' = k /\ Matched(k)
      BY DEF Link, IInv, Sound, Kill
    <2> QED
      BY <2>1 DEF Matched, Answered, Fits, serverVars, Kill
  <1> QED
    BY <1>1, <1>2, EndOfCommand DEF Kill

-----------------------------------------------------------------------------
(* The steps of the server.                                                *)

LEMMA RequestUnits ==
  ASSUME NEW k \in Connections
  PROVE  /\ Request(k) \in Seq(Units) /\ Request(k) # << >>
         /\ Head(Request(k)) = HeaderOf(2)
         /\ Tail(Request(k)) = << MessageHead >> \o BodyOf(k, 1)
         /\ Tail(Request(k)) \in Seq(Units) /\ Len(Tail(Request(k))) = 2
         /\ Tail(Request(k)) # << >>
         /\ IsRequest(Tail(Request(k)))
         /\ Tail(Request(k))[2].of = k
  <1> DEFINE B == BodyOf(k, 1)
  <1>1. B \in Seq(Units) /\ Len(B) = 1 /\ B[1] = [kind |-> "body", of |-> k, at |-> 1]
    BY BodySequence DEF BodyOf
  <1>2. << HeaderOf(2) >> \in Seq(Units) /\ << MessageHead >> \in Seq(Units)
    BY HeaderUnit, HeadUnit
  <1> HIDE DEF B
  <1>3. /\ << MessageHead >> \o B \in Seq(Units) /\ Len(<< MessageHead >> \o B) = 2
        /\ (<< MessageHead >> \o B)[1] = MessageHead
        /\ (<< MessageHead >> \o B)[2] = B[1]
    BY <1>1, <1>2
  <1>4. << HeaderOf(2), MessageHead >> = << HeaderOf(2) >> \o << MessageHead >>
    BY <1>2
  <1>5. Request(k) = << HeaderOf(2) >> \o (<< MessageHead >> \o B)
    <2>1. (<< HeaderOf(2) >> \o << MessageHead >>) \o B
            = << HeaderOf(2) >> \o (<< MessageHead >> \o B)
      BY <1>1, <1>2, ConcatUnits
    <2> QED
      BY <1>1, <1>4, <2>1 DEF Request, Frame, B
  <1>6. /\ << HeaderOf(2) >> # << >> /\ Head(<< HeaderOf(2) >>) = HeaderOf(2)
        /\ Tail(<< HeaderOf(2) >>) = << >>
    OBVIOUS
  <1>7. /\ Request(k) # << >> /\ Head(Request(k)) = HeaderOf(2)
        /\ Tail(Request(k)) = << >> \o (<< MessageHead >> \o B)
    BY <1>2, <1>3, <1>5, <1>6, HeadAndTailOfConcat
  <1>8. /\ Tail(Request(k)) = << MessageHead >> \o B
        /\ Request(k) \in Seq(Units)
    BY <1>2, <1>3, <1>5, <1>7, ConcatEmptySeq, ConcatUnits
  <1>9. IsRequest(<< MessageHead >> \o B)
    BY <1>1, <1>3 DEF IsRequest, MessageHead
  <1>10. (<< MessageHead >> \o B)[2].of = k /\ << MessageHead >> \o B # << >>
    BY <1>1, <1>3
  <1> QED
    BY <1>3, <1>7, <1>8, <1>9, <1>10 DEF B

\* A step of the server is sound when it is sound for each connection.
LEMMA ServerSound ==
  ASSUME IInv, TypeOK', UNCHANGED clientVars,
         \A q \in Connections : Sound(q)',
         \A q \in Connections : far[q] = "none" => far'[q] = "none" /\ up'[q] = up[q]
  PROVE  IInv'
  <1>1. ASSUME NEW c \in Clients PROVE Owns(c)' /\ ReplyOf(c)'
    <2>1. Owns(c) /\ ReplyOf(c) /\ \A n \in 1 .. MaxCommands : << c, n >> \in Connections
      BY PerClient DEF IInv, Connections
    <2> QED
      BY <2>1 DEF Owns, ReplyOf, Active, clientVars
  <1> QED
    BY <1>1, PerClient DEF IInv, ClientOwns, ReplyRead, Owns, ReplyOf, Active

\* A step that serves one connection does nothing to the others.
LEMMA OneServed ==
  ASSUME IInv, TypeOK', UNCHANGED clientVars, NEW k \in Connections,
         far[k] # "none", Sound(k)',
         \A q \in Connections \ {k} :
           /\ up'[q] = up[q] /\ down'[q] = down[q] /\ session'[q] = session[q]
           /\ far'[q] = far[q] /\ built'[q] = built[q] /\ handled'[q] = handled[q]
  PROVE  IInv'
  <1>1. ASSUME NEW q \in Connections \ {k} PROVE Sound(q)'
    <2>1. RequestUnchanged(q)
      BY DEF RequestUnchanged, clientVars
    <2> QED
      BY <2>1, UnchangedSound DEF IInv
  <1> QED
    BY <1>1, ServerSound

\* The end of the server in a step that serves one connection.
LEMMA OneServedLast ==
  ASSUME IInv, TypeOK', UNCHANGED clientVars, NEW k \in Connections,
         far[k] # "none", Sound(k)', EndOfServer,
         \A q \in Connections \ {k} :
           /\ up'[q] = up[q] /\ down'[q] = down[q]
           /\ built'[q] = built[q] /\ handled'[q] = handled[q]
  PROVE  IInv'
  <1>1. ASSUME NEW q \in Connections \ {k} PROVE Sound(q)'
    <2>1. RequestUnchanged(q)
      BY DEF RequestUnchanged, clientVars
    <2> QED
      BY <2>1, EndedSound DEF IInv
  <1> QED
    BY <1>1, ServerSound DEF EndOfServer

LEMMA KeepEffect ==
  ASSUME TypeOK, NEW k \in Connections, NEW s, Keep(k, s)
  PROVE  /\ session'[k] = s
         /\ far'[k] = IF s.reads = << >> /\ s.total = 0 THEN "gone" ELSE far[k]
         /\ Accepted(k) => Accepted(k)'
         /\ \A q \in Connections \ {k} : session'[q] = session[q] /\ far'[q] = far[q]
  BY DEF TypeOK, Keep, Accepted

\* A read changes only what is read.
LEMMA ReadSound ==
  ASSUME NEW k \in Connections, Sound(k), UNCHANGED clientVars,
         down'[k] = down[k], built'[k] = built[k], handled'[k] = handled[k],
         session'[k].reply = session[k].reply,
         session'[k].total = session[k].total, session'[k].sent = session[k].sent,
         Requested(k)'
  PROVE  Sound(k)'
  <1>1. (~Answered(k) => Silent(k))'
    BY DEF Sound, Answered, Silent, clientVars
  <1>2. Received(k)' = Received(k)
    BY DEF Received, clientVars
  <1>3. Answering(k)' <=> Answering(k)
    BY <1>2 DEF Answering
  <1>4. Delivered(k)'
    BY <1>2, <1>3 DEF Sound, Delivered, Answered, clientVars
  <1>5. Matched(k)'
    BY DEF Sound, Matched, Answered, clientVars
  <1> QED
    BY <1>1, <1>4, <1>5 DEF Sound

LEMMA AcceptStep ==
  ASSUME IInv, TypeOK', NEW k \in Connections, Accept(k)
  PROVE  IInv'
  <1>1. /\ far[k] = "unaccepted" /\ far'[k] = "served"
        /\ session'[k] = [session[k] EXCEPT !.reads = << "header" >>]
        /\ \A q \in Connections \ {k} : far'[q] = far[q] /\ session'[q] = session[q]
        /\ UNCHANGED << clientVars, built, handled, up, down >>
    BY DEF Accept, IInv, TypeOK
  <1>2. Sound(k) /\ session[k] \in SessionType
    BY DEF IInv, TypeOK, SessionType, Reads
  <1>3. /\ session'[k].reads = << "header" >> /\ session'[k].reply = session[k].reply
        /\ session'[k].total = session[k].total /\ session'[k].sent = session[k].sent
    BY <1>1, <1>2 DEF SessionType
  <1>4. Requested(k)'
    <2>1. RequestOf(k, Request(k))
      BY <1>1, <1>2 DEF Sound, Requested, RequestOf, Stage, AwaitsBody, AwaitsNothing, Accepted
    <2>2. AwaitsHeader(k)
      BY <1>1, <2>1, RequestUnits DEF RequestOf, Stage, AwaitsBody, AwaitsNothing, Accepted
    <2>3. AwaitsHeader(k)'
      BY <1>1, <1>3, <2>2 DEF AwaitsHeader, Accepted
    <2>4. RequestOf(k, Request(k))'
      BY <1>1, <2>1, <2>3 DEF RequestOf, Stage, Request, clientVars
    <2> QED
      BY <2>4 DEF Requested, Request
  <1> QED
    BY <1>1, <1>2, <1>3, <1>4, ReadSound, OneServed

LEMMA ReadHeaderStep ==
  ASSUME IInv, TypeOK', NEW k \in Connections, HandleReadHeader(k)
  PROVE  IInv'
  <1>1. /\ session[k].reads # << >> /\ Head(session[k].reads) = "header"
        /\ UNCHANGED << clientVars, built, handled, down >>
    BY DEF HandleReadHeader, Reading
  <1>2. Sound(k) /\ session[k] \in SessionType /\ up[k] \in Seq(Units) /\ TypeOK
    BY DEF IInv, TypeOK, SessionType, Reads
  <1>3. Accepted(k) /\ far[k] # "none"
    <2>1. session[k].total \in Nat
      BY <1>2 DEF SessionType
    <2> QED
      BY <1>1, <1>2, <2>1, ServedAccepted DEF Accepted
  <1> PICK unread \in {Request(k), Tail(Request(k)), << >>} : RequestOf(k, unread)
    BY <1>2 DEF Sound, Requested
  <1>4. \/ unread = Request(k) /\ session[k].reads = << "header" >> /\ handled[k] = "no"
        \/ unread = << >> /\ session[k].reads \in Seq({"header"})
    BY <1>1 DEF RequestOf, Stage, AwaitsHeader, AwaitsBody, AwaitsNothing
  <1>5. CASE up[k] # << >> /\ up' = [up EXCEPT ![k] = Tail(up[k])]
             /\ Keep(k, [session[k] EXCEPT !.header = Head(up[k]),
                                           !.reads = Append(Tail(@), "body")])
    <2>1. Begins(up[k], unread) /\ unread \in Seq(Units)
      BY <1>4, RequestUnits, EmptySeq DEF RequestOf
    <2>2. unread # << >> /\ Head(up[k]) = Head(unread) /\ Begins(Tail(up[k]), Tail(unread))
      BY <1>2, <1>5, <2>1, BeginsTail
    <2>3. unread = Request(k) /\ session[k].reads = << "header" >> /\ handled[k] = "no"
      BY <1>4, <2>2
    <2>4. Head(up[k]) = HeaderOf(2) /\ Append(Tail(session[k].reads), "body") = << "body" >>
      BY <2>2, <2>3, RequestUnits
    <2>5. /\ session'[k].reads = << "body" >> /\ session'[k].header = HeaderOf(2)
          /\ session'[k].reply = session[k].reply
          /\ session'[k].total = session[k].total /\ session'[k].sent = session[k].sent
      <3>1. session'[k] = [session[k] EXCEPT !.header = Head(up[k]),
                                             !.reads = Append(Tail(@), "body")]
        BY <1>2, <1>5, KeepEffect
      <3> QED
        BY <1>2, <2>4, <3>1 DEF SessionType
    <2>6. /\ up'[k] = Tail(up[k])
          /\ \A q \in Connections \ {k} :
               up'[q] = up[q] /\ session'[q] = session[q] /\ far'[q] = far[q]
          /\ Accepted(k)'
      <3>1. up'[k] = Tail(up[k]) /\ \A q \in Connections \ {k} : up'[q] = up[q]
        BY <1>2, <1>5 DEF TypeOK
      <3>2. /\ \A q \in Connections \ {k} : session'[q] = session[q] /\ far'[q] = far[q]
            /\ Accepted(k)'
        BY <1>2, <1>3, <1>5, KeepEffect
      <3> QED
        BY <3>1, <3>2
    <2>7. Requested(k)'
      <3>1. AwaitsBody(k)'
        BY <1>1, <2>3, <2>5, <2>6 DEF AwaitsBody, HeaderOf
      <3>2. ASSUME near'[k], shell'[k[1]] = "sending"
            PROVE  up'[k] \o out'[k[1]] = Tail(Request(k))
        <4>1. up[k] \o out[k[1]] = Request(k)
          BY <1>1, <2>3, <3>2 DEF RequestOf, clientVars
        <4>2. out[k[1]] \in Seq(Units)
          BY <1>2, ConnectionsArePairs DEF TypeOK, Pairs
        <4>3. Tail(up[k] \o out[k[1]]) = Tail(up[k]) \o out[k[1]]
          BY <1>2, <1>5, <4>2, HeadAndTailOfConcat
        <4> QED
          BY <1>1, <2>6, <4>1, <4>3 DEF clientVars
      <3>3. RequestOf(k, Tail(Request(k)))'
        BY <2>2, <2>3, <2>6, <3>1, <3>2 DEF RequestOf, Stage, Request
      <3> QED
        BY <3>3 DEF Requested, Request
    <2> QED
      BY <1>1, <1>2, <1>3, <2>5, <2>6, <2>7, ReadSound, OneServed
  <1>6. CASE up[k] = << >> /\ ~near[k] /\ Keep(k, AfterEof(session[k])) /\ UNCHANGED up
    <2>1. /\ session'[k].reads = Tail(session[k].reads)
          /\ session'[k].reply = session[k].reply
          /\ session'[k].total = session[k].total /\ session'[k].sent = session[k].sent
      <3>1. session'[k] = [session[k] EXCEPT !.reads = Tail(@)]
        BY <1>2, <1>6, KeepEffect DEF AfterEof
      <3> QED
        BY <1>2, <3>1 DEF SessionType
    <2>2. /\ \A q \in Connections \ {k} : session'[q] = session[q] /\ far'[q] = far[q]
          /\ Accepted(k)'
      BY <1>2, <1>3, <1>6, KeepEffect
    <2>3. Stage(k, unread)'
      <3>1. CASE unread = Request(k) /\ session[k].reads = << "header" >> /\ handled[k] = "no"
        BY <1>1, <2>1, <2>2, <3>1 DEF Stage, AwaitsHeader, Request
      <3>2. CASE unread = << >> /\ session[k].reads \in Seq({"header"})
        <4>1. Tail(session[k].reads) \in Seq({"header"})
          BY <1>1, <3>2, HeadTailProperties
        <4> QED
          BY <2>1, <2>2, <3>2, <4>1 DEF Stage, AwaitsNothing
      <3> QED
        BY <1>4, <3>1, <3>2
    <2>4. Requested(k)'
      <3>1. RequestOf(k, unread)'
        BY <1>1, <1>6, <2>3 DEF RequestOf, clientVars
      <3> QED
        BY <3>1 DEF Requested, Request
    <2> QED
      BY <1>1, <1>2, <1>3, <1>6, <2>1, <2>2, <2>4, ReadSound, OneServed
  <1> QED
    BY <1>5, <1>6 DEF HandleReadHeader

\* A Session that reads a body has yet to read the whole of it.
LEMMA ReadsOfBody ==
  ASSUME NEW k \in Connections, Sound(k),
         session[k].reads # << >>, Head(session[k].reads) = "body"
  PROVE  /\ RequestOf(k, Tail(Request(k)))
         /\ Accepted(k) /\ handled[k] = "no" /\ Silent(k) /\ ~Answered(k)
         /\ session[k].reads = << "body" >> /\ session[k].header = HeaderOf(2)
         /\ SizeOf(session[k].header) = 2
  <1> PICK unread \in {Request(k), Tail(Request(k)), << >>} : RequestOf(k, unread)
    BY DEF Sound, Requested
  <1>1. ~AwaitsHeader(k)
    BY DEF AwaitsHeader
  <1>2. ~AwaitsNothing(k)
    <2> SUFFICES ASSUME session[k].reads \in Seq({"header"}) PROVE FALSE
      BY DEF AwaitsNothing
    <2>1. Head(session[k].reads) \in {"header"}
      BY HeadTailProperties
    <2> QED
      BY <2>1
  <1>3. unread = Tail(Request(k)) /\ AwaitsBody(k)
    BY <1>1, <1>2 DEF RequestOf, Stage
  <1>4. SizeOf(HeaderOf(2)) = 2
    <2>1. 2 % LengthModulus = 2
      BY Modulo, SessionAssumption
    <2> QED
      BY <2>1, HeaderUnit
  <1> QED
    BY <1>3, <1>4 DEF AwaitsBody, Answered, Sound

\* The response that a handler leaves is under way, whole or as far as the
\* server got.
LEMMA HandlerSound ==
  ASSUME IInv, TypeOK', UNCHANGED clientVars, NEW k \in Connections, Sound(k),
         ~Answered(k), Silent(k), Requested(k)',
         NEW body \in Seq(Units), built'[k] = body, Answered(k)',
         NEW sent \in Seq(Units), down'[k] = sent,
         NEW left \in Seq(Units), sent \o left = Frame(body),
         session'[k].total > 0 =>
           /\ Fits(body) => session'[k].total = Len(Frame(body))
           /\ session'[k].sent = Len(sent) /\ session'[k].reply = left
  PROVE  Sound(k)'
  <1>1. result[k].status # "ok"
    <2>1. Fits(built[k])
      BY SessionAssumption DEF Silent, Fits
    <2> QED
      BY <2>1 DEF Sound, Matched
  <1>2. Matched(k)'
    BY <1>1 DEF Matched, clientVars
  <1>3. Delivered(k)'
    <2> SUFFICES ASSUME near[k], shell[k[1]] # "sending", Fits(body)
                 PROVE  Begins(Received(k)', Frame(body)) /\ Answering(k)'
      BY DEF Delivered, clientVars
    <2>1. k[1] \in Clients /\ Active(k[1])
      BY CurrentConnection, ConnectionsArePairs DEF IInv, Pairs
    <2>2. reply[k[1]] = << >>
      BY <2>1 DEF Silent, Active, IInv, ReplyRead
    <2>3. Received(k)' = sent
      <3>1. << >> \o sent = sent
        BY ConcatEmptySeq
      <3> QED
        BY <2>2, <3>1 DEF Received, clientVars
    <2>4. Begins(Received(k)', Frame(body))
      BY <2>3 DEF Begins
    <2>5. Answering(k)'
      BY <2>3 DEF Answering
    <2> QED
      BY <2>4, <2>5
  <1> QED
    BY <1>2, <1>3 DEF Sound

LEMMA HandleMessageStep ==
  ASSUME IInv, TypeOK', UNCHANGED clientVars, NEW k \in Connections,
         session[k].reads # << >>, Head(session[k].reads) = "body",
         ~(near[k] /\ shell[k[1]] = "sending"),
         up' = [up EXCEPT ![k] = << >>],
         NEW request \in Seq(Units), IsRequest(request), request[2].of = k,
         HandleMessage(k, request)
  PROVE  IInv'
  <1> PICK o \in Outcomes, n \in BodySizes :
        LET c    == request[2].of
            body == BodyOf(c, n)
            s    == Respond([session[k] EXCEPT !.reads = Tail(@)], body)
        IN  /\ handled' = [handled EXCEPT ![c] = o]
            /\ built' = [built EXCEPT ![c] = IF o = "crashes" THEN @ ELSE body]
            /\ CASE o = "done" ->
                      /\ Keep(k, [s EXCEPT !.reads = Append(@, "header")])
                      /\ UNCHANGED << server, down >>
                 [] o = "throws" ->
                      /\ EndOfServer
                      /\ \E m \in Room(k, s) \cup {0} :
                           down' = [down EXCEPT ![k] = @ \o SubSeq(s.reply, 1, m)]
                 [] o = "crashes" ->
                      /\ EndOfServer
                      /\ UNCHANGED down
    BY DEF HandleMessage
  <1> DEFINE body == BodyOf(k, n)
             s0   == [session[k] EXCEPT !.reads = Tail(@)]
             s    == Respond(s0, body)
  <1>0. request[2].of = k
    OBVIOUS
  <1>1. body \in Seq(Units) /\ o \in {"done", "throws", "crashes"}
    BY HandlerTypes
  <1>2. /\ Sound(k) /\ TypeOK /\ session[k] \in SessionType
        /\ up'[k] = << >> /\ \A q \in Connections \ {k} : up'[q] = up[q]
    BY DEF IInv, TypeOK, SessionType, Reads
  <1>3. /\ Accepted(k) /\ Silent(k) /\ ~Answered(k)
        /\ session[k].reads = << "body" >> /\ far[k] # "none"
    BY <1>2, ReadsOfBody DEF Accepted
  <1>4. /\ s0 \in SessionType /\ s0.reads = << >>
        /\ s0.reply = << >> /\ s0.sent = 0
    <2>1. s0 \in SessionType
      BY <1>2, <1>3, ReadsProperties, SessionChanges DEF SessionType
    <2> QED
      BY <1>2, <1>3, <2>1 DEF SessionType, Silent
  <1> HIDE DEF s0
  <1>5. /\ s \in SessionType /\ s.reply = Frame(body) /\ s.reads = << >>
        /\ s.sent = 0 /\ s.total > 0
        /\ Fits(body) => s.total = Len(Frame(body))
    <2>1. /\ s \in SessionType /\ s.reply = << >> \o Frame(body)
          /\ s.total = 1 + ((1 + Len(body)) % LengthModulus)
          /\ s.reads = << >> /\ s.sent = 0
      <3>1. /\ Respond(s0, body) \in SessionType
            /\ Respond(s0, body).reply = s0.reply \o Frame(body)
            /\ Respond(s0, body).total = 1 + ((1 + Len(body)) % LengthModulus)
            /\ Respond(s0, body).reads = s0.reads
            /\ Respond(s0, body).sent = s0.sent
        BY <1>1, <1>4, DoWriteType
      <3> QED
        BY <1>4, <3>1
    <2>2. Frame(body) \in Seq(Units) /\ Len(Frame(body)) = 2 + Len(body)
      BY <1>1, FrameProperties
    <2>3. << >> \o Frame(body) = Frame(body)
      BY <2>2, ConcatEmptySeq
    <2>4. 1 + Len(body) \in Nat
      BY <1>1, LenProperties
    <2>5. /\ (1 + Len(body)) % LengthModulus \in Nat
          /\ Fits(body) => (1 + Len(body)) % LengthModulus = 1 + Len(body)
      BY <2>4, Modulo, SessionAssumption DEF Fits
    <2> QED
      BY <2>1, <2>2, <2>3, <2>4, <2>5
  <1>6. /\ Frame(body) \in Seq(Units) /\ Len(Frame(body)) \in Nat
        /\ << >> \o Frame(body) = Frame(body) /\ << >> \in Seq(Units)
    BY <1>1, FrameProperties, LenProperties, ConcatEmptySeq, EmptySeq
  <1>7. /\ handled'[k] = o /\ (o # "crashes" => built'[k] = body)
        /\ (o = "crashes" => built'[k] = built[k])
        /\ \A q \in Connections \ {k} : built'[q] = built[q] /\ handled'[q] = handled[q]
    BY <1>2 DEF TypeOK
  <1> HIDE DEF s, body
  <1>8. ASSUME Accepted(k)', session'[k].reads \in Seq({"header"}) PROVE Requested(k)'
    <2>1. Begins(<< >>, << >>)
      BY <1>6, BeginsEmpty
    <2>2. RequestOf(k, << >>)'
      BY <1>2, <1>8, <2>1 DEF RequestOf, Stage, AwaitsNothing, clientVars
    <2> QED
      BY <2>2 DEF Requested
  <1>9. CASE o = "done"
    <2>1. /\ Keep(k, [s EXCEPT !.reads = Append(@, "header")])
          /\ down' = down
      BY <1>0, <1>9 DEF s, s0, body
    <2>2. /\ session'[k] = [s EXCEPT !.reads = Append(@, "header")]
          /\ Accepted(k)'
          /\ \A q \in Connections \ {k} : session'[q] = session[q] /\ far'[q] = far[q]
      BY <1>2, <1>3, <2>1, KeepEffect
    <2>3. /\ session'[k].reads = << "header" >> /\ session'[k].reply = Frame(body)
          /\ session'[k].total = s.total /\ session'[k].sent = 0
      BY <1>5, <2>2 DEF SessionType
    <2>4. Requested(k)'
      <3>1. << "header" >> \in Seq({"header"})
        OBVIOUS
      <3> QED
        BY <1>8, <2>2, <2>3, <3>1
    <2>5. down'[k] = << >> /\ Answered(k)'
      BY <1>3, <1>7, <1>9, <2>1 DEF Silent, Answered
    <2>6. Len(<< >>) = 0
      OBVIOUS
    <2>7. Sound(k)'
      <3>1. /\ Fits(body) => session'[k].total = Len(Frame(body))
            /\ session'[k].sent = Len(<< >>) /\ session'[k].reply = Frame(body)
        BY <1>5, <2>3, <2>6
      <3>2. built'[k] = body
        BY <1>7, <1>9
      <3> QED
        BY <1>1, <1>2, <1>3, <1>6, <2>4, <2>5, <3>1, <3>2, HandlerSound
    <2> QED
      BY <1>2, <1>3, <1>7, <2>1, <2>2, <2>7, OneServed
  <1>10. CASE o \in {"throws", "crashes"}
    <2>1. EndOfServer
      BY <1>10
    <2>2. /\ session'[k].reads = << >> /\ session'[k].total = 0
          /\ session'[k].reply = << >> /\ session'[k].sent = 0 /\ Accepted(k)'
      BY <1>3, <2>1 DEF EndOfServer, NoSession, Accepted
    <2>3. Requested(k)'
      <3>1. << >> \in Seq({"header"})
        BY EmptySeq
      <3> QED
        BY <1>8, <2>2, <3>1
    <2>4. CASE o = "throws"
      <3> PICK m \in Room(k, s) \cup {0} :
            down' = [down EXCEPT ![k] = @ \o SubSeq(s.reply, 1, m)]
        BY <1>0, <2>4 DEF s, s0, body
      <3>1. m \in 0 .. Len(Frame(body))
        BY <1>5, <1>6 DEF Room
      <3> PICK sent \in Seq(Units), left \in Seq(Units) :
            sent = SubSeq(Frame(body), 1, m) /\ sent \o left = Frame(body)
        <4>1. /\ SubSeq(Frame(body), 1, m) \in Seq(Units)
              /\ SubSeq(Frame(body), m + 1, Len(Frame(body))) \in Seq(Units)
              /\ SubSeq(Frame(body), 1, m) \o SubSeq(Frame(body), m + 1, Len(Frame(body)))
                   = Frame(body)
          BY <1>6, <3>1, SplitProperties
        <4> QED
          BY <4>1
      <3>3. << >> \o sent = sent
        BY ConcatEmptySeq
      <3>4. down'[k] = sent /\ \A q \in Connections \ {k} : down'[q] = down[q]
        <4>1. down[k] = << >> /\ s.reply = Frame(body)
          BY <1>3, <1>5 DEF Silent
        <4>2. down' = [down EXCEPT ![k] = sent]
          BY <3>3, <4>1
        <4>3. down \in [Connections -> Seq(Units)]
          BY <1>2 DEF TypeOK
        <4> QED
          BY <4>2, <4>3
      <3>5. Answered(k)' /\ built'[k] = body
        BY <1>7, <2>4 DEF Answered
      <3>6. Sound(k)'
        <4>1. ~(session'[k].total > 0)
          BY <2>2
        <4>2. down'[k] = sent /\ built'[k] = body /\ Answered(k)'
          BY <3>4, <3>5
        <4> QED
          BY <1>1, <1>2, <1>3, <2>3, <4>1, <4>2, HandlerSound
      <3> QED
        BY <1>2, <1>3, <1>7, <2>1, <3>4, <3>6, OneServedLast
    <2>5. CASE o = "crashes"
      <3>1. down' = down
        BY <2>5
      <3>2. ~Answered(k)' /\ built'[k] = built[k]
        BY <1>7, <2>5 DEF Answered
      <3>3. Silent(k)'
        BY <1>3, <2>2, <3>1, <3>2 DEF Silent, clientVars
      <3>4. Matched(k)'
        BY <1>2, <1>3, <3>2 DEF Sound, Matched, clientVars
      <3>5. Sound(k)'
        BY <2>3, <3>2, <3>3, <3>4 DEF Sound, Delivered
      <3> QED
        BY <1>2, <1>3, <1>7, <2>1, <3>1, <3>5, OneServedLast
    <2> QED
      BY <1>10, <2>4, <2>5
  <1> QED
    BY <1>1, <1>9, <1>10

LEMMA ReadBodyStep ==
  ASSUME IInv, TypeOK', NEW k \in Connections, HandleReadBody(k)
  PROVE  IInv'
  <1> DEFINE rest == Tail(Request(k))
  <1>1. /\ session[k].reads # << >> /\ Head(session[k].reads) = "body"
        /\ UNCHANGED clientVars
    BY DEF HandleReadBody, Reading
  <1>2. Sound(k) /\ session[k] \in SessionType /\ up[k] \in Seq(Units) /\ TypeOK
    BY DEF IInv, TypeOK, SessionType, Reads
  <1>3. /\ RequestOf(k, rest) /\ Accepted(k) /\ far[k] # "none"
        /\ handled[k] = "no" /\ Silent(k) /\ ~Answered(k)
        /\ session[k].reads = << "body" >> /\ SizeOf(session[k].header) = 2
    BY <1>1, <1>2, ReadsOfBody DEF Accepted
  <1>4. rest \in Seq(Units) /\ Len(rest) = 2 /\ rest # << >> /\ IsRequest(rest) /\ rest[2].of = k
    BY RequestUnits
  <1> HIDE DEF rest
  <1>5. CASE Len(up[k]) >= 2
    <2>1. up[k] = rest
      BY <1>2, <1>3, <1>4, <1>5, BeginsWhole DEF RequestOf
    <2>2. SubSeq(up[k], 1, 2) = rest
      BY <1>4, <2>1, SubSeqFull
    <2>3. SubSeq(up[k], 2 + 1, Len(up[k])) = << >>
      <3>1. Len(up[k]) = 2
        BY <1>4, <2>1
      <3>2. 2 + 1 \in Int /\ 2 \in Int /\ 2 < 2 + 1
        OBVIOUS
      <3>3. SubSeq(up[k], 2 + 1, 2) = << >>
        BY <3>2, SubSeqEmpty
      <3> QED
        BY <3>1, <3>3
    <2>4. up' = [up EXCEPT ![k] = << >>] /\ HandleMessage(k, rest)
      <3>1. ~(Len(up[k]) < 2)
        BY <1>5, <2>1, <1>4
      <3> QED
        BY <1>3, <1>4, <2>2, <2>3, <3>1 DEF HandleReadBody
    <2>5. ~(near[k] /\ shell[k[1]] = "sending")
      <3> SUFFICES ASSUME near[k], shell[k[1]] = "sending" PROVE FALSE
        OBVIOUS
      <3>1. rest \o out[k[1]] = rest
        BY <1>3, <2>1 DEF RequestOf
      <3>2. out[k[1]] \in Seq(Units) /\ out[k[1]] # << >>
        BY <1>2, ConnectionsArePairs DEF TypeOK, Pairs, IInv, ClientOwns
      <3> QED
        BY <1>4, <3>1, <3>2, ConcatEqualIffEmpty
    <2> QED
      BY <1>1, <1>4, <2>4, <2>5, HandleMessageStep
  <1>6. CASE ~(Len(up[k]) >= 2)
    <2>1. /\ ~near[k] /\ Keep(k, AfterEof(session[k]))
          /\ UNCHANGED << server, built, handled, up, down >>
      BY <1>3, <1>6 DEF HandleReadBody
    <2>2. /\ session'[k].reads = << >> /\ session'[k].reply = session[k].reply
          /\ session'[k].total = session[k].total /\ session'[k].sent = session[k].sent
      <3>1. session'[k] = [session[k] EXCEPT !.reads = Tail(@)]
        BY <1>2, <2>1, KeepEffect DEF AfterEof
      <3> QED
        BY <1>2, <1>3, <3>1 DEF SessionType
    <2>3. /\ \A q \in Connections \ {k} : session'[q] = session[q] /\ far'[q] = far[q]
          /\ Accepted(k)'
      BY <1>2, <1>3, <2>1, KeepEffect
    <2>4. Requested(k)'
      <3>1. AwaitsBody(k)'
        BY <1>3, <2>1, <2>2, <2>3 DEF AwaitsBody
      <3>2. RequestOf(k, Tail(Request(k)))'
        BY <1>1, <1>3, <2>1, <3>1 DEF RequestOf, Stage, Request, rest, clientVars
      <3> QED
        BY <3>2 DEF Requested, Request
    <2> QED
      BY <1>1, <1>2, <1>3, <2>1, <2>2, <2>3, <2>4, ReadSound, OneServed
  <1> QED
    BY <1>5, <1>6

\* A write moves units from the Session to the socket.
LEMMA WriteKeepsRequest ==
  ASSUME NEW k \in Connections, Sound(k), Answered(k), UNCHANGED clientVars,
         up'[k] = up[k], Accepted(k)',
         session[k].reads \in Seq({"header"}) => session'[k].reads \in Seq({"header"})
  PROVE  Requested(k)'
  <1>1. RequestOf(k, << >>) /\ AwaitsNothing(k)
    BY RequestUnits DEF Sound, Requested, RequestOf, Stage, AwaitsHeader, AwaitsBody, Answered
  <1>2. RequestOf(k, << >>)'
    BY <1>1 DEF RequestOf, Stage, AwaitsNothing, clientVars
  <1> QED
    BY <1>2 DEF Requested

Regrouped(read, under, first, left) ==
  /\ (read \o (under \o first)) \o left = (read \o under) \o (first \o left)
  /\ Len(read \o (under \o first)) = Len(read \o under) + Len(first)

LEMMA RegroupUnits ==
  ASSUME NEW read \in Seq(Units), NEW under \in Seq(Units),
         NEW first \in Seq(Units), NEW left \in Seq(Units)
  PROVE  Regrouped(read, under, first, left)
  <1>1. (read \o under) \o first = read \o (under \o first)
    BY ConcatAssociative
  <1>2. PICK both \in Seq(Units) : both = read \o under
    BY ConcatProperties
  <1>3. (both \o first) \o left = both \o (first \o left)
    BY ConcatAssociative
  <1>4. Len(both \o first) = Len(both) + Len(first)
    BY ConcatProperties
  <1> QED
    BY <1>1, <1>2, <1>3, <1>4 DEF Regrouped

LEMMA WriteStep ==
  ASSUME IInv, TypeOK', NEW k \in Connections, WriteSome(k)
  PROVE  IInv'
  <1>1. session[k].total > 0 /\ UNCHANGED << clientVars, built, handled, up >>
    BY DEF WriteSome
  <1>2. /\ Sound(k) /\ session[k] \in SessionType /\ TypeOK
        /\ session[k].total \in Nat /\ session[k].sent \in Nat
        /\ session[k].reply \in Seq(Units) /\ session[k].reads \in Reads
    BY DEF IInv, TypeOK, SessionType, Reads
  <1>3. Accepted(k) /\ far[k] # "none" /\ Answered(k)
    BY <1>1, <1>2, ServedAccepted DEF Accepted, Sound, Silent
  <1>4. CASE ~near[k] /\ Keep(k, [session[k] EXCEPT !.total = 0, !.sent = 0]) /\ down' = down
    <2>1. /\ session'[k].reads = session[k].reads
          /\ \A q \in Connections \ {k} : session'[q] = session[q] /\ far'[q] = far[q]
          /\ Accepted(k)'
      <3>1. /\ session'[k] = [session[k] EXCEPT !.total = 0, !.sent = 0]
            /\ \A q \in Connections \ {k} : session'[q] = session[q] /\ far'[q] = far[q]
            /\ Accepted(k)'
        BY <1>2, <1>3, <1>4, KeepEffect
      <3> QED
        BY <1>2, <3>1 DEF SessionType
    <2>2. Requested(k)'
      BY <1>1, <1>2, <1>3, <2>1, WriteKeepsRequest
    <2>3. Answered(k)' /\ Matched(k)' /\ Delivered(k)'
      BY <1>1, <1>2, <1>3, <1>4 DEF Sound, Matched, Delivered, Answered, clientVars
    <2>4. Sound(k)'
      BY <2>2, <2>3 DEF Sound
    <2> QED
      BY <1>1, <1>3, <1>4, <2>1, <2>4, OneServed
  <1>5. ASSUME NEW n \in Room(k, session[k]), NEW s,
               s = [session[k] EXCEPT !.reply = SubSeq(@, n + 1, Len(@)), !.sent = @ + n],
               down' = [down EXCEPT ![k] = @ \o SubSeq(session[k].reply, 1, n)],
               Keep(k, IF s.sent >= s.total THEN WriteDone(s, s.total) ELSE s)
        PROVE  IInv'
    <2> DEFINE first == SubSeq(session[k].reply, 1, n)
               left  == SubSeq(session[k].reply, n + 1, Len(session[k].reply))
    <2>1. /\ n \in Nat /\ first \in Seq(Units) /\ Len(first) = n
          /\ left \in Seq(Units) /\ first \o left = session[k].reply
      <3>1. n \in 0 .. Len(session[k].reply)
        BY <1>2, LenProperties DEF Room
      <3>2. session[k].reply \in Seq(Units)
        BY <1>2
      <3> HIDE DEF first, left
      <3>3. /\ first \in Seq(Units) /\ Len(first) = n
            /\ left \in Seq(Units) /\ first \o left = session[k].reply
        BY <3>1, <3>2, SplitProperties DEF first, left
      <3> QED
        BY <3>1, <3>3
    <2>2. /\ s \in SessionType /\ s.reads = session[k].reads /\ s.reply = left
          /\ s.total = session[k].total /\ s.sent = session[k].sent + n
      <3>1. s \in SessionType
        BY <1>2, <1>5, WriteTypes
      <3> QED
        BY <1>2, <1>5, <3>1 DEF SessionType
    <2>3. /\ down'[k] = down[k] \o first
          /\ \A q \in Connections \ {k} : down'[q] = down[q]
      BY <1>2, <1>5 DEF TypeOK
    <2>4. /\ session'[k] = IF s.sent >= s.total THEN WriteDone(s, s.total) ELSE s
          /\ \A q \in Connections \ {k} : session'[q] = session[q] /\ far'[q] = far[q]
          /\ Accepted(k)'
      BY <1>2, <1>3, <1>5, KeepEffect
    <2> HIDE DEF first, left
    <2>5. /\ session[k].reads \in Seq({"header"}) => session'[k].reads \in Seq({"header"})
          /\ session'[k].total > 0 =>
               session'[k].total = s.total /\ session'[k].sent = s.sent /\ session'[k].reply = left
      <3>1. CASE s.sent >= s.total
        <4>1. session'[k].reads = Append(session[k].reads, "header") /\ session'[k].total = 0
          BY <2>2, <2>4, <3>1 DEF WriteDone, SessionType
        <4> QED
          BY <4>1, AppendProperties
      <3>2. CASE ~(s.sent >= s.total)
        BY <2>2, <2>4, <3>2
      <3> QED
        BY <3>1, <3>2
    <2>6. Requested(k)'
      BY <1>1, <1>2, <1>3, <2>4, <2>5, WriteKeepsRequest
    <2>7. Matched(k)' /\ Answered(k)'
      BY <1>1, <1>2, <1>3 DEF Sound, Matched, Answered, clientVars
    <2>8. Delivered(k)'
      <3> SUFFICES ASSUME near[k], Fits(built[k]), shell[k[1]] # "sending"
                   PROVE  Begins(Received(k)', Frame(built[k])) /\ Answering(k)'
        BY <1>1 DEF Delivered, clientVars
      <3>1. /\ session[k].total = Len(Frame(built[k]))
            /\ session[k].sent = Len(Received(k))
            /\ Received(k) \o session[k].reply = Frame(built[k])
        BY <1>1, <1>2, <1>3 DEF Sound, Delivered, Answering
      <3>2. PICK read \in Seq(Units), under \in Seq(Units), moved \in Seq(Units),
                 kept \in Seq(Units) :
              read = reply[k[1]] /\ under = down[k] /\ moved = first /\ kept = left
        BY <1>2, <2>1, ConnectionsArePairs DEF TypeOK, Pairs
      <3>3. Regrouped(read, under, moved, kept)
        BY RegroupUnits
      <3>4. Received(k)' = read \o (under \o moved) /\ Received(k) = read \o under
        BY <1>1, <2>3, <3>2 DEF Received, clientVars
      <3>5. /\ Received(k)' \o left = Frame(built[k])
            /\ Len(Received(k)') = session[k].sent + n
            /\ Begins(Received(k)', Frame(built[k]))
        BY <2>1, <3>1, <3>2, <3>3, <3>4 DEF Begins, Regrouped
      <3>6. Answering(k)'
        BY <1>1, <2>2, <2>5, <3>1, <3>5 DEF Answering
      <3> QED
        BY <3>5, <3>6
    <2>9. Sound(k)'
      BY <2>6, <2>7, <2>8 DEF Sound
    <2> QED
      BY <1>1, <1>3, <2>3, <2>4, <2>9, OneServed
  <1> QED
    BY <1>4, <1>5 DEF WriteSome

-----------------------------------------------------------------------------
(* The theorems.                                                           *)

LEMMA InvariantInit == Init => IInv
  <1> SUFFICES ASSUME Init PROVE IInv
    OBVIOUS
  <1>1. TypeOK
    BY TypeInit
  <1>2. ClientOwns /\ ReplyRead
    BY DEF Init, ClientOwns, ReplyRead, Active, Connections
  <1>3. ASSUME NEW k \in Connections PROVE Sound(k)
    <2>1. /\ ~near[k] /\ far[k] = "none" /\ up[k] = << >> /\ down[k] = << >>
          /\ session[k] = NoSession /\ built[k] = << >> /\ handled[k] = "no"
          /\ result[k].status = "none"
      BY DEF Init, NoResult
    <2>2. /\ session[k].reads = << >> /\ session[k].reply = << >>
          /\ session[k].total = 0 /\ session[k].sent = 0
      BY <2>1 DEF NoSession
    <2>3. Begins(up[k], Request(k))
      BY <2>1, RequestUnits, BeginsEmpty
    <2>4. Requested(k)
      BY <2>1, <2>2, <2>3 DEF Requested, RequestOf, Stage, AwaitsHeader
    <2> QED
      BY <2>1, <2>2, <2>4 DEF Sound, Silent, Delivered, Matched, Answered
  <1> QED
    BY <1>1, <1>2, <1>3 DEF IInv

LEMMA InvariantStep == IInv /\ [Next]_vars => IInv'
  <1> SUFFICES ASSUME IInv, [Next]_vars PROVE IInv'
    OBVIOUS
  <1>1. TypeOK'
    BY TypeStep DEF IInv
  <1>2. ASSUME NEW c \in Clients, ClientStep(c) \/ Kill(c) PROVE IInv'
    BY <1>1, <1>2, ConnectStep, ConnectFailsStep, SendStep, ReceiveStep, FinishStep, KillStep
    DEF ClientStep
  <1>3. ASSUME NEW k \in Connections, ServerStep(k) PROVE IInv'
    BY <1>1, <1>3, AcceptStep, ReadHeaderStep, ReadBodyStep, WriteStep DEF ServerStep
  <1>4. CASE Start
    <2>1. ASSUME NEW k \in Connections PROVE Sound(k)'
      <3>1. RequestUnchanged(k) /\ session'[k] = session[k] /\ far'[k] = far[k]
        BY <1>4 DEF RequestUnchanged, Start, clientVars
      <3> QED
        BY <3>1, UnchangedSound DEF IInv
    <2> QED
      BY <1>1, <1>4, <2>1, ServerSound DEF Start
  <1>5. CASE Exit
    <2>1. ASSUME NEW k \in Connections PROVE Sound(k)'
      <3>1. RequestUnchanged(k) /\ EndOfServer
        BY <1>5 DEF RequestUnchanged, Exit, clientVars
      <3> QED
        BY <3>1, EndedSound DEF IInv
    <2> QED
      BY <1>1, <1>5, <2>1, ServerSound DEF Exit, EndOfServer
  <1>6. CASE UNCHANGED vars
    <2>1. ASSUME NEW k \in Connections PROVE Sound(k)'
      <3>1. RequestUnchanged(k) /\ session'[k] = session[k] /\ far'[k] = far[k]
        BY <1>6 DEF RequestUnchanged, vars, clientVars, serverVars
      <3> QED
        BY <3>1, UnchangedSound DEF IInv
    <2> QED
      BY <1>1, <1>6, <2>1, ServerSound DEF vars, serverVars
  <1> QED
    BY <1>2, <1>3, <1>4, <1>5, <1>6 DEF Next

LEMMA InvariantHolds == Spec => []IInv
  <1>1. Init => IInv
    BY InvariantInit
  <1>2. IInv /\ [Next]_vars => IInv'
    BY InvariantStep
  <1> QED
    BY <1>1, <1>2, PTL DEF Spec

\* The state is well formed: no conversation leaves the shapes of its parts,
\* however the two ends, their deaths and the restarts interleave.
THEOREM TypeCorrect == Spec => []TypeOK
  <1>1. IInv => TypeOK
    BY DEF IInv
  <1> QED
    BY <1>1, InvariantHolds, PTL

\* A read meets what it was started for: Session::handle_read_body never
\* takes the units of a header, nor handle_read_header those of a body, also
\* with the second read that a completed write starts.
THEOREM FramesStayAligned == Spec => []FramesAligned
  <1>1. ASSUME IInv, NEW k \in Connections, "body" \in Range(session[k].reads)
        PROVE  /\ session[k].header = HeaderOf(2)
               /\ session[k].reads = << "body" >>
               /\ IsPrefix(up[k], << MessageHead >> \o BodyOf(k, 1))
    <2>1. Sound(k) /\ up[k] \in Seq(Units)
      BY <1>1 DEF IInv, TypeOK
    <2> PICK unread \in {Request(k), Tail(Request(k)), << >>} : RequestOf(k, unread)
      BY <2>1 DEF Sound, Requested
    <2>2. /\ "body" \notin Range(<< >>) /\ "body" \notin Range(<< "header" >>)
      BY DEF Range
    <2>3. session[k].reads \notin Seq({"header"})
      BY <1>1, RangeOfSeq
    <2>4. unread = Tail(Request(k)) /\ AwaitsBody(k)
      BY <1>1, <2>2, <2>3 DEF RequestOf, Stage, AwaitsHeader, AwaitsNothing
    <2>5. session[k].reads = << "body" >> /\ session[k].header = HeaderOf(2)
      BY <1>1, <2>2, <2>4 DEF AwaitsBody
    <2>6. IsPrefix(up[k], Tail(Request(k)))
      BY <2>1, <2>4, RequestUnits, BeginsWhole DEF RequestOf
    <2> QED
      BY <2>5, <2>6, RequestUnits
  <1>2. IInv => FramesAligned
    BY <1>1 DEF FramesAligned
  <1> QED
    BY <1>2, InvariantHolds, PTL

\* What symcli prints as the answer of a command is the whole response that
\* the handler of this very command filled, when its length fits in two bytes.
THEOREM AnswersAreMatched == Spec => []AnswersMatch
  <1>1. IInv => AnswersMatch
    BY DEF IInv, Sound, Matched, Answered, AnswersMatch
  <1> QED
    BY <1>1, InvariantHolds, PTL

=============================================================================
