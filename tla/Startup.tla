------------------------------ MODULE Startup ------------------------------
(***************************************************************************)
(* Starts of the server (main, Server::IsServerRunning, the start of       *)
(* Server::Run): is a server listening on the socket, unlink the socket,   *)
(* bind, listen, open the databases, serve.  Several processes may be      *)
(* started with the same configuration, and any may be killed at any time. *)
(*                                                                         *)
(* The path of the socket leads to the socket that was bound last, also    *)
(* after its process is dead (connecting is then refused).  The databases  *)
(* are locked by the process that opened them first; a process that cannot *)
(* open them logs it and serves without projects (LoadConfiguredProject).  *)
(***************************************************************************)
EXTENDS Integers, FiniteSets

CONSTANTS
  Procs,      \* processes
  None,       \* no process
  Overlapping \* a start may begin before another has a listening socket

ASSUME StartupAssumption == None \notin Procs /\ Overlapping \in BOOLEAN

VARIABLES
  pc,     \* where each process is
  path,   \* the process whose socket the path leads to
  locker  \* the process that has the databases open

vars == <<pc, path, locker>>

Steps == {"off", "check", "unlink", "bind", "listen", "load", "serve"}
Starting == {"check", "unlink", "bind", "listen"}
Listening == {"load", "serve"}

Init ==
  /\ pc = [p \in Procs |-> "off"]
  /\ path = None
  /\ locker = None

To(p, step) == pc' = [pc EXCEPT ![p] = step]

Main(p) ==
  /\ pc[p] = "off"
  /\ Overlapping \/ \A q \in Procs : pc[q] \notin Starting
  /\ To(p, "check")
  /\ UNCHANGED <<path, locker>>

\* Mutant: only a server that is done with its start answers.
IsServerRunning_Loaded == path # None /\ pc[path] = "serve"

\* The socket of a process that died or does not listen yet refuses.
IsServerRunning == path # None /\ pc[path] \in Listening

\* Mutant: the test is left out.
CheckRunning_Skipped(p) ==
  /\ pc[p] = "check"
  /\ To(p, "unlink")
  /\ UNCHANGED <<path, locker>>

CheckRunning(p) ==
  /\ pc[p] = "check"
  /\ To(p, IF IsServerRunning THEN "off" ELSE "unlink")
  /\ UNCHANGED <<path, locker>>

\* Mutant: a socket that is left behind is not unlinked.
Unlink_Kept(p) ==
  /\ pc[p] = "unlink"
  /\ To(p, "bind")
  /\ UNCHANGED <<path, locker>>

Unlink(p) ==
  /\ pc[p] = "unlink"
  /\ path' = None
  /\ To(p, "bind")
  /\ UNCHANGED locker

\* The constructor of Listener opens, binds and listens; when the path is
\* taken it throws, and main ends.
Bind(p) ==
  /\ pc[p] = "bind"
  /\ IF path = None THEN path' = p /\ To(p, "listen")
                    ELSE To(p, "off") /\ UNCHANGED path
  /\ UNCHANGED locker

\* Mutant: the databases are opened before the listener is set up.
Listen_Opens(p) ==
  /\ pc[p] = "listen"
  /\ locker' = IF locker = None THEN p ELSE locker
  /\ To(p, "load")
  /\ UNCHANGED path

Listen(p) ==
  /\ pc[p] = "listen"
  /\ To(p, "load")
  /\ UNCHANGED <<path, locker>>

LoadConfiguredProject(p) ==
  /\ pc[p] = "load"
  /\ locker' = IF locker = None THEN p ELSE locker
  /\ To(p, "serve")
  /\ UNCHANGED path

\* The process ends and its lock with it; its socket stays.
Killed(p) ==
  /\ pc[p] # "off"
  /\ To(p, "off")
  /\ locker' = IF locker = p THEN None ELSE locker
  /\ UNCHANGED path

Step(p) ==
  \/ CheckRunning(p)
  \/ Unlink(p)
  \/ Bind(p)
  \/ Listen(p)
  \/ LoadConfiguredProject(p)

Next == \E p \in Procs : Main(p) \/ Step(p) \/ Killed(p)

Spec == Init /\ [][Next]_vars

-----------------------------------------------------------------------------
(* Properties                                                              *)

\* Types, and only a process that serves has the databases open.
TypeOK ==
  /\ pc \in [Procs -> Steps]
  /\ path \in Procs \cup {None}
  /\ locker \in Procs \cup {None}
  /\ locker # None => pc[locker] = "serve"

\* main, "Server already running": at most one process gets past the test
\* and the bind.
OneServer ==
  \A p, q \in Procs :
    pc[p] \in Listening \cup {"listen"} /\ pc[q] \in Listening \cup {"listen"} => p = q

\* A process that serves is the one that the path leads to and the one that has
\* the databases: a client never talks to a server without projects, however
\* often servers are killed, restarted, and started in vain.
ServerIsReachable ==
  \A p \in Procs : pc[p] = "serve" => path = p /\ locker = p

\* A process that is started does not end before it serves, except by a kill or
\* because a server listens: the socket that a killed server leaves behind does
\* not stop the next start.
StartSucceeds ==
  [][\A p \in Procs :
       Step(p) /\ pc'[p] = "off" =>
         \E q \in Procs \ {p} : pc[q] \in Listening]_vars
=============================================================================
