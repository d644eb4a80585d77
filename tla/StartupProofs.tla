--------------------------- MODULE StartupProofs ---------------------------
(***************************************************************************)
(* When starts do not overlap, at most one process has the socket, and the *)
(* one that serves is the one that clients reach and that has the          *)
(* databases, for any number of processes, kills and restarts.             *)
(***************************************************************************)
EXTENDS Startup, TLAPS

\* The processes that own the socket.
Owning == {"listen", "load", "serve"}

\* The inductive invariant.  The test of a start only tells that nobody listens at
\* the path; that nobody listens at all (Alone) needs that the path leads to
\* every process that owns a socket (Owned), which in turn needs that nobody
\* unlinks the path while another process is between bind and listen
\* (OneStart).  Free says that a bind cannot fail.
OneStart == \A p, q \in Procs : pc[p] \in Starting /\ pc[q] \in Starting => p = q
Owned == \A p \in Procs : pc[p] \in Owning => path = p
Alone == \A p, q \in Procs :
           pc[p] \in {"unlink", "bind", "listen"} => pc[q] \notin Listening
Locked == \A p \in Procs : pc[p] = "serve" => locker = p
Free == \A p \in Procs : pc[p] = "bind" => path = None

IInv == TypeOK /\ OneStart /\ Owned /\ Alone /\ Locked /\ Free

LEMMA OwnedIsOne == ASSUME Owned PROVE OneServer
  BY DEF Owned, OneServer, Owning, Listening

LEMMA InitIInv == Init => IInv
  BY StartupAssumption DEF Init, IInv, TypeOK, OneStart, Owned, Alone, Locked, Free, Steps,
     Starting, Listening, Owning

\* The effect of moving one process.
LEMMA Moved ==
  ASSUME TypeOK, NEW p \in Procs, NEW s \in Steps, To(p, s)
  PROVE  /\ pc' \in [Procs -> Steps]
         /\ pc'[p] = s
         /\ \A q \in Procs \ {p} : pc'[q] = pc[q]
  BY DEF TypeOK, To

LEMMA MainStep ==
  ASSUME IInv, ~Overlapping, NEW p \in Procs, Main(p)
  PROVE  IInv'
  <1>1. /\ pc' \in [Procs -> Steps] /\ pc'[p] = "check"
        /\ \A q \in Procs \ {p} : pc'[q] = pc[q]
    BY Moved DEF Main, IInv, Steps
  <1>2. TypeOK'
    BY <1>1, StartupAssumption DEF Main, IInv, TypeOK
  <1>3. OneStart'
    BY <1>1 DEF Main, OneStart
  <1>4. Owned' /\ Alone' /\ Locked'
    BY <1>1 DEF Main, IInv, Owned, Alone, Locked, Owning, Listening
  <1>8. Free'
    BY <1>1 DEF Main, IInv, OneStart, Free, Starting
  <1> QED
    BY <1>8, <1>2, <1>3, <1>4 DEF IInv

LEMMA CheckRunningStep ==
  ASSUME IInv, NEW p \in Procs, CheckRunning(p)
  PROVE  IInv'
  <1>1. PICK s \in {"off", "unlink"} :
          /\ To(p, s)
          /\ s = "unlink" => ~IsServerRunning
    BY DEF CheckRunning
  <1>2. /\ pc' \in [Procs -> Steps] /\ pc'[p] = s
        /\ \A q \in Procs \ {p} : pc'[q] = pc[q]
    BY <1>1, Moved DEF IInv, Steps
  <1>3. TypeOK'
    BY <1>2, StartupAssumption DEF CheckRunning, IInv, TypeOK
  <1>4. OneStart'
    BY <1>2 DEF CheckRunning, IInv, OneStart, Starting
  <1>5. Owned' /\ Locked'
    BY <1>2 DEF CheckRunning, IInv, Owned, Locked, Owning
  <1>6. s = "unlink" => \A q \in Procs : pc[q] \notin Listening
    BY <1>1, StartupAssumption DEF IsServerRunning, IInv, Owned, Owning, Listening
  <1>7. Alone'
    BY <1>2, <1>6 DEF CheckRunning, IInv, Alone, Listening
  <1>8. Free'
    BY <1>2 DEF CheckRunning, IInv, OneStart, Free, Starting
  <1> QED
    BY <1>8, <1>3, <1>4, <1>5, <1>7 DEF IInv

LEMMA UnlinkStep ==
  ASSUME IInv, NEW p \in Procs, Unlink(p)
  PROVE  IInv'
  <1>1. /\ pc' \in [Procs -> Steps] /\ pc'[p] = "bind"
        /\ \A q \in Procs \ {p} : pc'[q] = pc[q]
    BY Moved DEF Unlink, IInv, Steps
  <1>2. TypeOK'
    BY <1>1, StartupAssumption DEF Unlink, IInv, TypeOK
  <1>3. OneStart' /\ Locked'
    BY <1>1 DEF Unlink, IInv, OneStart, Locked, Starting
  <1>4. \A q \in Procs \ {p} : pc[q] \notin Owning
    BY DEF Unlink, IInv, OneStart, Alone, Starting, Listening, Owning
  <1>5. Owned' /\ Alone'
    BY <1>1, <1>4 DEF Unlink, IInv, Owned, Alone, Owning, Listening
  <1>8. Free'
    BY <1>1 DEF Unlink, IInv, OneStart, Free, Starting
  <1> QED
    BY <1>8, <1>2, <1>3, <1>5 DEF IInv

LEMMA BindStep ==
  ASSUME IInv, NEW p \in Procs, Bind(p)
  PROVE  IInv'
  <1>1. PICK s \in {"off", "listen"} :
          /\ To(p, s)
          /\ s = "listen" => path' = p
          /\ s = "off" => path' = path
    BY DEF Bind
  <1>2. /\ pc' \in [Procs -> Steps] /\ pc'[p] = s
        /\ \A q \in Procs \ {p} : pc'[q] = pc[q]
    BY <1>1, Moved DEF IInv, Steps
  <1>3. TypeOK'
    BY <1>1, <1>2, StartupAssumption DEF Bind, IInv, TypeOK
  <1>4. OneStart' /\ Locked'
    BY <1>2 DEF Bind, IInv, OneStart, Locked, Starting
  <1>5. \A q \in Procs \ {p} : pc[q] \notin Owning
    BY DEF Bind, IInv, OneStart, Alone, Starting, Listening, Owning
  <1>6. Owned' /\ Alone'
    BY <1>1, <1>2, <1>5 DEF Bind, IInv, Owned, Alone, Owning, Listening
  <1>8. Free'
    BY <1>1, <1>2 DEF Bind, IInv, OneStart, Free, Starting
  <1> QED
    BY <1>8, <1>3, <1>4, <1>6 DEF IInv

LEMMA ListenStep ==
  ASSUME IInv, NEW p \in Procs, Listen(p)
  PROVE  IInv'
  <1>1. /\ pc' \in [Procs -> Steps] /\ pc'[p] = "load"
        /\ \A q \in Procs \ {p} : pc'[q] = pc[q]
    BY Moved DEF Listen, IInv, Steps
  <1>2. TypeOK'
    BY <1>1, StartupAssumption DEF Listen, IInv, TypeOK
  <1>3. OneStart' /\ Locked' /\ Owned'
    BY <1>1 DEF Listen, IInv, OneStart, Locked, Owned, Starting, Owning
  <1>4. \A q \in Procs \ {p} : pc[q] \notin {"unlink", "bind", "listen"}
    BY DEF Listen, IInv, OneStart, Starting
  <1>5. Alone'
    BY <1>1, <1>4 DEF Listen, IInv, Alone, Listening
  <1>8. Free'
    BY <1>1 DEF Listen, IInv, OneStart, Free, Starting
  <1> QED
    BY <1>8, <1>2, <1>3, <1>5 DEF IInv

LEMMA LoadStep ==
  ASSUME IInv, NEW p \in Procs, LoadConfiguredProject(p)
  PROVE  IInv'
  <1>1. /\ pc' \in [Procs -> Steps] /\ pc'[p] = "serve"
        /\ \A q \in Procs \ {p} : pc'[q] = pc[q]
    BY Moved DEF LoadConfiguredProject, IInv, Steps
  <1>2. \A q \in Procs \ {p} : pc[q] \notin Owning
    BY OwnedIsOne DEF LoadConfiguredProject, IInv, OneServer, Owning, Listening
  <1>3. locker' = p
    BY <1>2 DEF LoadConfiguredProject, IInv, TypeOK, Owning
  <1>4. TypeOK'
    BY <1>1, <1>3, StartupAssumption DEF LoadConfiguredProject, IInv, TypeOK
  <1>5. OneStart' /\ Owned' /\ Alone'
    BY <1>1 DEF LoadConfiguredProject, IInv, OneStart, Owned, Alone, Starting, Owning,
       Listening
  <1>6. Locked'
    BY <1>1, <1>2, <1>3 DEF Locked, Owning
  <1>8. Free'
    BY <1>1 DEF LoadConfiguredProject, IInv, OneStart, Free, Starting
  <1> QED
    BY <1>8, <1>4, <1>5, <1>6 DEF IInv

LEMMA KilledStep ==
  ASSUME IInv, NEW p \in Procs, Killed(p)
  PROVE  IInv'
  <1>1. /\ pc' \in [Procs -> Steps] /\ pc'[p] = "off"
        /\ \A q \in Procs \ {p} : pc'[q] = pc[q]
    BY Moved DEF Killed, IInv, Steps
  <1>2. TypeOK'
    BY <1>1, StartupAssumption DEF Killed, IInv, TypeOK
  <1>3. OneStart' /\ Owned' /\ Alone'
    BY <1>1 DEF Killed, IInv, OneStart, Owned, Alone, Starting, Owning, Listening
  <1>4. Locked'
    BY <1>1 DEF Killed, IInv, Locked
  <1>8. Free'
    BY <1>1 DEF Killed, IInv, OneStart, Free, Starting
  <1> QED
    BY <1>8, <1>2, <1>3, <1>4 DEF IInv

LEMMA NextIInv ==
  ASSUME IInv, ~Overlapping, [Next]_vars
  PROVE  IInv'
  <1>1. CASE UNCHANGED vars
    BY <1>1 DEF vars, IInv, TypeOK, OneStart, Owned, Alone, Locked, Free
  <1>2. CASE Next
    BY <1>2, MainStep, CheckRunningStep, UnlinkStep, BindStep, ListenStep, LoadStep,
       KilledStep DEF Next, Step
  <1> QED
    BY <1>1, <1>2

LEMMA IInvIsInvariant == ASSUME ~Overlapping PROVE Spec => []IInv
  <1>1. IInv /\ [Next]_vars => IInv'
    BY NextIInv
  <1> QED
    BY <1>1, InitIInv, PTL DEF Spec

\* main, IsServerRunning, Listener: without overlapping starts at most one process
\* owns the socket.
THEOREM StartsAreExclusive == ~Overlapping => (Spec => []OneServer)
  <1>1. SUFFICES ASSUME ~Overlapping PROVE Spec => []OneServer
    OBVIOUS
  <1>2. IInv => OneServer
    BY OwnedIsOne DEF IInv
  <1> QED
    BY <1>1, <1>2, IInvIsInvariant, PTL

\* main, Server::Run: without overlapping starts the process that serves is the one
\* that the path leads to and the one that has the databases open.
THEOREM ServersAreReachable == ~Overlapping => (Spec => []ServerIsReachable)
  <1>1. SUFFICES ASSUME ~Overlapping PROVE Spec => []ServerIsReachable
    OBVIOUS
  <1>2. IInv => ServerIsReachable
    BY DEF IInv, Owned, Locked, Owning, ServerIsReachable
  <1> QED
    BY <1>1, <1>2, IInvIsInvariant, PTL

\* main: without overlapping starts the only thing that ends a start, other than a
\* kill, is a server that listens: no socket that was left behind does.
THEOREM StartsSucceed == ~Overlapping => (Spec => StartSucceeds)
  <1>1. SUFFICES ASSUME ~Overlapping PROVE Spec => StartSucceeds
    OBVIOUS
  <1>2. ASSUME IInv, NEW p \in Procs, Step(p), pc'[p] = "off"
        PROVE  \E q \in Procs \ {p} : pc[q] \in Listening
    <2>1. CASE CheckRunning(p)
      <3>1. IsServerRunning /\ pc[p] = "check"
        BY <1>2, <2>1 DEF CheckRunning, To, IInv, TypeOK
      <3> QED
        BY <1>2, <3>1 DEF IsServerRunning, IInv, TypeOK, Listening
    <2>2. CASE Bind(p)
      BY <1>2, <2>2 DEF Bind, To, IInv, Free, TypeOK
    <2>3. CASE Unlink(p) \/ Listen(p) \/ LoadConfiguredProject(p)
      BY <1>2, <2>3 DEF Unlink, Listen, LoadConfiguredProject, To, IInv, TypeOK
    <2> QED
      BY <1>2, <2>1, <2>2, <2>3 DEF Step
  <1>3. IInv => \A p \in Procs : Step(p) /\ pc'[p] = "off" =>
                  \E q \in Procs \ {p} : pc[q] \in Listening
    BY <1>2
  <1> QED
    BY <1>1, <1>3, IInvIsInvariant, PTL DEF StartSucceeds

\* The types, with or without overlapping starts: in particular a process that is
\* not serving never holds the databases.
THEOREM StartupTypeCorrect == Spec => []TypeOK
  <1>1. Init => TypeOK
    BY InitIInv DEF IInv
  <1>2. ASSUME TypeOK, [Next]_vars PROVE TypeOK'
    <2>1. CASE UNCHANGED vars
      BY <1>2, <2>1 DEF vars, TypeOK
    <2>2. ASSUME NEW p \in Procs, Main(p) \/ Step(p) \/ Killed(p) PROVE TypeOK'
      <3>1. CASE Main(p) \/ CheckRunning(p) \/ Unlink(p) \/ Bind(p) \/ Listen(p)
        BY <1>2, <3>1, StartupAssumption DEF TypeOK, Main, CheckRunning, Unlink, Bind, Listen, To, Steps
      <3>2. CASE LoadConfiguredProject(p) \/ Killed(p)
        BY <1>2, <3>2, StartupAssumption DEF TypeOK, LoadConfiguredProject, Killed, To, Steps
      <3> QED
        BY <2>2, <3>1, <3>2 DEF Step
    <2> QED
      BY <1>2, <2>1, <2>2 DEF Next
  <1> QED
    BY <1>1, <1>2, PTL DEF Spec
=============================================================================
