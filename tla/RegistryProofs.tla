--------------------------- MODULE RegistryProofs ---------------------------
(***************************************************************************)
(* For every set of projects, directories and configurations and with all  *)
(* faults: the state is well formed, a registered project works on the     *)
(* home that its database records and its configuration names, and a       *)
(* complete database is never lost.                                        *)
(***************************************************************************)
EXTENDS Registry, TLAPS

\* The projects that are left to load are entries of the configuration.
FromConfig ==
  \A i \in DOMAIN todo : \E j \in DOMAIN config : todo[i] = config[j]

\* While a project is being loaded it is not registered, its database is open, and
\* the home that the load works on is the one that the database records.
LoadingHome ==
  load # NoLoad =>
    LET e == Head(todo)
    IN /\ projects[e.name] = NoHome
       /\ db[e.name].dir = "open"
       /\ load.home = db[e.name].home
       /\ load.step = "sync_new" => load.home = e.home

\* A directory that cannot be opened has no records.
NoRecords == \A n \in Names : db[n].dir # "open" => ~Complete(db[n])

\* HomesAgree is about what is registered; the steps of a load that lead there
\* need FromConfig and LoadingHome, and RecordsKept needs NoRecords.
IInv == TypeOK /\ FromConfig /\ LoadingHome /\ NoRecords /\ HomesAgree

LEMMA InitTypeOK == Init => TypeOK
  BY RegistryAssumption DEF Init, TypeOK, Databases, Absent, Loads, NoLoad, Replies,
     NoReply, Ended

LEMMA InitIInv == Init => IInv
  <1> SUFFICES ASSUME Init PROVE IInv
    OBVIOUS
  <1>1. TypeOK
    BY InitTypeOK
  <1>2. FromConfig /\ LoadingHome /\ HomesAgree
    BY DEF Init, FromConfig, LoadingHome, HomesAgree
  <1>3. NoRecords
    BY DEF Init, NoRecords, Absent, Complete
  <1> QED
    BY <1>1, <1>2, <1>3 DEF IInv

-----------------------------------------------------------------------------
(* Well-formed parts of the state.                                         *)

LEMMA Constructed ==
  /\ Absent \in Databases /\ Broken \in Databases /\ Created \in Databases
  /\ ~Complete(Absent) /\ ~Complete(Broken) /\ ~Complete(Created)
  /\ Broken.dir = "broken" /\ Created.dir = "open" /\ Created.home = NoHome
  /\ NoLoad \in Loads /\ NoReply \in Replies
  BY DEF Absent, Broken, Created, Databases, NoLoad, Loads, NoReply, Replies, Complete

LEMMA ConfigIsSeq == ASSUME TypeOK PROVE config \in Seq(Entries)
  BY RegistryAssumption DEF TypeOK

LEMMA FirstEntry ==
  ASSUME TypeOK, todo # << >>
  PROVE  /\ Head(todo) \in Entries
         /\ Head(todo).name \in Names /\ Head(todo).home \in Homes
         /\ Tail(todo) \in Seq(Entries)
         /\ Head(todo) = todo[1] /\ 1 \in DOMAIN todo
         /\ \A i \in DOMAIN Tail(todo) : i + 1 \in DOMAIN todo /\ Tail(todo)[i] = todo[i + 1]
  <1>1. todo \in Seq(Entries) /\ Len(todo) \in Nat /\ Len(todo) # 0
    BY DEF TypeOK
  <1>2. /\ Head(todo) = todo[1] /\ 1 \in DOMAIN todo /\ todo[1] \in Entries
        /\ Tail(todo) \in Seq(Entries)
    BY <1>1
  <1>3. \A i \in DOMAIN Tail(todo) : i + 1 \in DOMAIN todo /\ Tail(todo)[i] = todo[i + 1]
    BY <1>1
  <1> QED
    BY <1>2, <1>3 DEF Entries

\* What a ForceSync may write.
LEMMA SyncWrites ==
  ASSUME db \in [Names -> Databases], NEW n \in Names,
         UNCHANGED db \/ db' = [db EXCEPT ![n].info = TRUE]
  PROVE  /\ db' \in [Names -> Databases]
         /\ \A m \in Names \ {n} : db'[m] = db[m]
         /\ \A m \in Names : db'[m].dir = db[m].dir /\ db'[m].home = db[m].home
  <1>1. CASE UNCHANGED db
    BY <1>1
  <1>2. CASE db' = [db EXCEPT ![n].info = TRUE]
    <2>1. db[n] \in Databases
      OBVIOUS
    <2>2. /\ [db[n] EXCEPT !.info = TRUE] \in Databases
          /\ [db[n] EXCEPT !.info = TRUE].dir = db[n].dir
          /\ [db[n] EXCEPT !.info = TRUE].home = db[n].home
      BY <2>1 DEF Databases
    <2>3. db'[n] = [db[n] EXCEPT !.info = TRUE] /\ \A m \in Names \ {n} : db'[m] = db[m]
      BY <1>2
    <2>4. db' \in [Names -> Databases]
      BY <1>2, <2>2
    <2> QED
      BY <2>2, <2>3, <2>4
  <1> QED
    BY <1>1, <1>2

\* What the end of a process leaves.
LEMMA Ends ==
  ASSUME IInv, NEW how \in Ended, End(how),
         homes' = homes, built' = built, config' = config,
         db' \in [Names -> Databases],
         \A n \in Names : db'[n].dir # "open" => ~Complete(db'[n])
  PROVE  IInv'
  <1>1. projects' = [n \in Names |-> NoHome] /\ load' = NoLoad /\ todo' = << >>
        /\ reply' = NoReply /\ server' = how
    BY DEF End
  <1>2. TypeOK'
    BY <1>1, Constructed DEF IInv, TypeOK, Ended
  <1>3. FromConfig' /\ LoadingHome' /\ HomesAgree' /\ NoRecords'
    BY <1>1 DEF FromConfig, LoadingHome, HomesAgree, NoRecords
  <1> QED
    BY <1>2, <1>3 DEF IInv

-----------------------------------------------------------------------------
(* One lemma for each action.                                              *)

LEMMA WorldStep ==
  ASSUME IInv, \/ \E h \in Homes : HomeRemoved(h) \/ HomeRestored(h)
               \/ Reconfigure
  PROVE  IInv'
  <1>1. CASE \E h \in Homes : HomeRemoved(h) \/ HomeRestored(h)
    <2>1. TypeOK'
      BY <1>1 DEF IInv, TypeOK, HomeRemoved, HomeRestored
    <2>2. FromConfig' /\ LoadingHome' /\ HomesAgree' /\ NoRecords'
      BY <1>1 DEF IInv, FromConfig, LoadingHome, HomesAgree, NoRecords, HomeRemoved,
         HomeRestored
    <2> QED
      BY <2>1, <2>2 DEF IInv
  <1>2. CASE Reconfigure
    <2>1. TypeOK'
      BY <1>2 DEF IInv, TypeOK, Reconfigure
    <2>2. todo = << >> /\ projects = [n \in Names |-> NoHome]
      BY <1>2 DEF IInv, TypeOK, Reconfigure, Ended
    <2>3. FromConfig' /\ HomesAgree'
      BY <1>2, <2>2 DEF FromConfig, HomesAgree, Reconfigure
    <2>4. LoadingHome' /\ NoRecords'
      BY <1>2 DEF IInv, LoadingHome, NoRecords, Reconfigure
    <2> QED
      BY <2>1, <2>3, <2>4 DEF IInv
  <1> QED
    BY <1>1, <1>2

LEMMA StopStep ==
  ASSUME IInv, Stop
  PROVE  IInv'
  BY Ends DEF Stop, disk, Ended, IInv, TypeOK, NoRecords

LEMMA StartStep ==
  ASSUME IInv, Start
  PROVE  IInv'
  <1>1. homes' = homes /\ config' = config /\ db' = db
        /\ built' \subseteq homes /\ projects' = [n \in Names |-> NoHome]
        /\ load' = NoLoad /\ reply' = NoReply
        /\ \/ server' = "init_failed" /\ todo' = << >>
           \/ server' = "loading" /\ todo' = config
    BY DEF Start, End, IInv, TypeOK
  <1>2. TypeOK'
    <2>1. config \in Seq(Entries)
      BY ConfigIsSeq DEF IInv
    <2>2. CASE server' = "init_failed" /\ todo' = << >>
      BY <1>1, <2>2, Constructed DEF IInv, TypeOK, Ended
    <2>3. CASE server' = "loading" /\ todo' = config
      BY <1>1, <2>1, <2>3, Constructed DEF IInv, TypeOK, Ended
    <2> QED
      BY <1>1, <2>2, <2>3
  <1>3. FromConfig' /\ LoadingHome' /\ HomesAgree' /\ NoRecords'
    BY <1>1 DEF IInv, FromConfig, LoadingHome, HomesAgree, NoRecords
  <1> QED
    BY <1>2, <1>3 DEF IInv

\* A load ends without a project: the database may only have changed for the
\* project of the load, which is not registered.
LEMMA GivesUp ==
  ASSUME IInv, todo # << >>, server = "loading", GiveUp, UNCHANGED <<disk, server, reply>>,
         \/ UNCHANGED db
         \/ /\ projects[Head(todo).name] = NoHome
            /\ db' = [db EXCEPT ![Head(todo).name] = Broken]
  PROVE  IInv'
  <1>1. load' = NoLoad /\ todo' = Tail(todo) /\ projects' = projects
    BY DEF GiveUp
  <1>2. db' \in [Names -> Databases]
    BY Constructed DEF IInv, TypeOK
  <1>3. TypeOK'
    BY <1>1, <1>2, FirstEntry, Constructed DEF IInv, TypeOK, disk, Ended
  <1>4. FromConfig'
    BY <1>1, FirstEntry DEF IInv, FromConfig, disk
  <1>5. LoadingHome'
    BY <1>1 DEF LoadingHome
  <1>6. NoRecords'
    BY Constructed DEF IInv, TypeOK, NoRecords
  <1>7. HomesAgree'
    BY <1>1 DEF IInv, TypeOK, HomesAgree, disk
  <1> QED
    BY <1>3, <1>4, <1>5, <1>6, <1>7 DEF IInv

\* A load ends with the project registered under the home of the load.
LEMMA Registers ==
  ASSUME IInv, load # NoLoad, AddProject(Head(todo).name, Head(todo).home),
         load.home = Head(todo).home, UNCHANGED <<disk, server, reply>>,
         \/ UNCHANGED db
         \/ db' = [db EXCEPT ![Head(todo).name].info = TRUE]
  PROVE  IInv'
  <1> DEFINE e == Head(todo)
  <1>1. /\ projects' = [projects EXCEPT ![e.name] = e.home]
        /\ load' = NoLoad /\ todo' = Tail(todo)
    BY DEF AddProject
  <1>2. todo # << >> /\ server = "loading"
    BY DEF IInv, TypeOK
  <1>3. /\ db' \in [Names -> Databases]
        /\ \A n \in Names : db'[n].dir = db[n].dir /\ db'[n].home = db[n].home
    BY <1>2, FirstEntry, SyncWrites DEF IInv, TypeOK
  <1>4. TypeOK'
    BY <1>1, <1>2, <1>3, FirstEntry, Constructed DEF IInv, TypeOK, disk, Ended
  <1>5. FromConfig'
    BY <1>1, <1>2, FirstEntry DEF IInv, FromConfig, disk
  <1>6. LoadingHome'
    BY <1>1 DEF LoadingHome
  <1>7. NoRecords'
    BY <1>2, <1>3, FirstEntry DEF IInv, TypeOK, NoRecords, LoadingHome, Complete, Databases
  <1>8. \E j \in DOMAIN config : config[j] = e
    BY <1>2, FirstEntry DEF IInv, FromConfig
  <1>9. HomesAgree'
    BY <1>1, <1>2, <1>3, <1>8, FirstEntry DEF IInv, TypeOK, HomesAgree, LoadingHome, disk
  <1> QED
    BY <1>4, <1>5, <1>6, <1>7, <1>9 DEF IInv

\* A load goes on: neither the registry nor the list of projects changes.
LEMMA GoesOn ==
  ASSUME IInv, todo # << >>, server = "loading",
         UNCHANGED <<disk, server, reply, projects, todo>>,
         projects[Head(todo).name] = NoHome,
         load' \in Loads, db' \in [Names -> Databases],
         \A n \in Names \ {Head(todo).name} : db'[n] = db[n],
         db'[Head(todo).name].dir = "open",
         load'.home = db'[Head(todo).name].home,
         load'.step = "sync_new" => load'.home = Head(todo).home
  PROVE  IInv'
  <1>1. TypeOK'
    BY DEF IInv, TypeOK, disk, Ended
  <1>2. FromConfig' /\ LoadingHome'
    BY DEF IInv, FromConfig, LoadingHome, disk
  <1>3. NoRecords'
    BY DEF IInv, NoRecords
  <1>4. HomesAgree'
    BY DEF IInv, HomesAgree, disk
  <1> QED
    BY <1>1, <1>2, <1>3, <1>4 DEF IInv

LEMMA LoadConfiguredProjectStep ==
  ASSUME IInv, LoadConfiguredProject
  PROVE  IInv'
  <1> DEFINE e == Head(todo)
             n == e.name
  <1>1. server = "loading" /\ todo # << >> /\ load = NoLoad /\ UNCHANGED disk
    BY DEF LoadConfiguredProject
  <1>2. e \in Entries /\ n \in Names /\ e.home \in Homes
    BY <1>1, FirstEntry DEF IInv
  <1>3. CASE End("run_failed") /\ UNCHANGED db
    BY <1>1, <1>3, Ends DEF IInv, TypeOK, NoRecords, disk, Ended
  <1>4. CASE GiveUp /\ UNCHANGED <<db, server, reply>>
    BY <1>1, <1>4, GivesUp
  <1>5. CASE projects[n] = NoHome /\ OpenDatabase(n, e) /\ UNCHANGED <<server, reply>>
    <2>1. CASE /\ db' = [db EXCEPT ![n] = Created]
               /\ load' = [step |-> "change", home |-> NoHome]
               /\ UNCHANGED <<projects, todo>>
      <3>1. load' \in Loads /\ load'.home = NoHome /\ load'.step = "change"
        BY <2>1 DEF Loads
      <3>2. /\ db' \in [Names -> Databases] /\ db'[n] = Created
            /\ \A m \in Names \ {n} : db'[m] = db[m]
        BY <1>2, <2>1, Constructed DEF IInv, TypeOK
      <3> QED
        BY <1>1, <1>5, <2>1, <3>1, <3>2, Constructed, GoesOn
    <2>2. CASE GiveUp /\ UNCHANGED db
      BY <1>1, <1>5, <2>2, GivesUp
    <2>3. CASE RecreateDatabase(n)
      BY <1>1, <1>5, <2>3, GivesUp DEF RecreateDatabase
    <2>4. CASE /\ db[n].dir = "open" /\ UNCHANGED db
               /\ load' = [step |-> "sync", home |-> db[n].home]
               /\ UNCHANGED <<projects, todo>>
      <3>1. load' \in Loads /\ load'.home = db'[n].home /\ load'.step = "sync"
        BY <1>2, <2>4 DEF Loads, IInv, TypeOK, Databases
      <3> QED
        BY <1>1, <1>5, <2>4, <3>1, GoesOn DEF IInv, TypeOK
    <2> QED
      BY <1>5, <2>1, <2>2, <2>3, <2>4 DEF OpenDatabase, LoadProjectInfo
  <1> QED
    BY <1>3, <1>4, <1>5 DEF LoadConfiguredProject

LEMMA LoadSyncStep ==
  ASSUME IInv, LoadSync
  PROVE  IInv'
  <1> DEFINE e == Head(todo)
             n == e.name
  <1>1. /\ load # NoLoad /\ todo # << >> /\ server = "loading"
        /\ UNCHANGED <<disk, server, reply>>
    BY DEF LoadSync, NoLoad, IInv, TypeOK
  <1>2. n \in Names /\ e.home \in Homes
    BY <1>1, FirstEntry DEF IInv
  <1>3. UNCHANGED db \/ db' = [db EXCEPT ![n].info = TRUE]
    BY DEF LoadSync, ForceSync
  <1>4. CASE load.step = "sync"
    <2>1. load' = [load EXCEPT !.step = "change"] /\ UNCHANGED <<projects, todo>>
      BY <1>4 DEF LoadSync
    <2>2. load' \in Loads /\ load'.home = load.home /\ load'.step = "change"
      BY <2>1 DEF IInv, TypeOK, Loads
    <2>3. /\ db' \in [Names -> Databases]
          /\ \A m \in Names \ {n} : db'[m] = db[m]
          /\ db'[n].dir = db[n].dir /\ db'[n].home = db[n].home
      BY <1>2, <1>3, SyncWrites DEF IInv, TypeOK
    <2>4. projects[n] = NoHome /\ db[n].dir = "open" /\ load.home = db[n].home
      BY <1>1 DEF IInv, LoadingHome
    <2> QED
      BY <1>1, <2>1, <2>2, <2>3, <2>4, GoesOn
  <1>5. CASE load.step = "sync_new"
    <2>1. AddProject(n, load.home)
      BY <1>5 DEF LoadSync
    <2>2. load.home = e.home
      BY <1>1, <1>5 DEF IInv, LoadingHome
    <2> QED
      BY <1>1, <1>3, <2>1, <2>2, Registers
  <1> QED
    BY <1>4, <1>5 DEF LoadSync

LEMMA ChangeHomeStep ==
  ASSUME IInv, ChangeHome
  PROVE  IInv'
  <1> DEFINE e == Head(todo)
             n == e.name
  <1>1. /\ load # NoLoad /\ todo # << >> /\ server = "loading"
        /\ UNCHANGED <<disk, server, reply>>
    BY DEF ChangeHome, NoLoad, IInv, TypeOK
  <1>2. n \in Names /\ e.home \in Homes
    BY <1>1, FirstEntry DEF IInv
  <1>3. CASE GiveUp /\ UNCHANGED db
    BY <1>1, <1>3, GivesUp
  <1>4. CASE load.home = e.home /\ AddProject(n, e.home) /\ UNCHANGED db
    BY <1>1, <1>4, Registers
  <1>5. CASE /\ db' = [db EXCEPT ![n].home = e.home]
             /\ load' = [step |-> "sync_new", home |-> e.home]
             /\ UNCHANGED <<projects, todo>>
    <2>1. load' \in Loads /\ load'.home = e.home
      BY <1>2, <1>5 DEF Loads
    <2>2. /\ db' \in [Names -> Databases]
          /\ \A m \in Names \ {n} : db'[m] = db[m]
          /\ db'[n].dir = db[n].dir /\ db'[n].home = e.home
      BY <1>2, <1>5 DEF IInv, TypeOK, Databases
    <2>3. projects[n] = NoHome /\ db[n].dir = "open"
      BY <1>1 DEF IInv, LoadingHome
    <2> QED
      BY <1>1, <1>5, <2>1, <2>2, <2>3, GoesOn
  <1> QED
    BY <1>3, <1>4, <1>5 DEF ChangeHome

LEMMA LoadingDoneStep ==
  ASSUME IInv, LoadingDone
  PROVE  IInv'
  BY DEF LoadingDone, IInv, TypeOK, FromConfig, LoadingHome, NoRecords, HomesAgree, disk,
     Ended

LEMMA TimerStep ==
  ASSUME IInv, NEW n \in Names, ForceSyncTimer(n)
  PROVE  IInv'
  <1>1. /\ server = "up" /\ projects[n] # NoHome
        /\ UNCHANGED <<disk, server, projects, load, todo, reply>>
        /\ UNCHANGED db \/ db' = [db EXCEPT ![n].info = TRUE]
    BY DEF ForceSyncTimer, ForceSync
  <1>2. /\ db' \in [Names -> Databases]
        /\ \A m \in Names : db'[m].dir = db[m].dir /\ db'[m].home = db[m].home
        /\ \A m \in Names \ {n} : db'[m] = db[m]
    BY <1>1, SyncWrites DEF IInv, TypeOK
  <1>3. TypeOK'
    BY <1>1, <1>2 DEF IInv, TypeOK, disk
  <1>4. load = NoLoad
    BY <1>1 DEF IInv, TypeOK
  <1>5. FromConfig' /\ LoadingHome' /\ HomesAgree'
    BY <1>1, <1>2, <1>4 DEF IInv, FromConfig, LoadingHome, HomesAgree, disk
  <1>6. NoRecords'
    BY <1>1, <1>2 DEF IInv, NoRecords, HomesAgree
  <1> QED
    BY <1>3, <1>5, <1>6 DEF IInv

LEMMA RequestStep ==
  ASSUME IInv, NEW n \in Names,
         GetProject(n) \/ \E h \in Homes : CreateProject(n, h)
  PROVE  IInv'
  <1>1. /\ server = "up" /\ homes' = homes /\ built' = built /\ config' = config
    BY DEF GetProject, CreateProject, disk
  <1>2. load = NoLoad
    BY <1>1 DEF IInv, TypeOK
  <1>3. \/ db' = db
        \/ projects[n] = NoHome /\ db' \in {[db EXCEPT ![n] = Created], [db EXCEPT ![n] = Broken]}
    BY DEF GetProject, CreateProject
  <1>4. /\ db' \in [Names -> Databases]
        /\ \A m \in Names : projects[m] # NoHome => db'[m] = db[m]
        /\ \A m \in Names : db'[m].dir # "open" => ~Complete(db'[m])
    BY <1>3, Constructed DEF IInv, TypeOK, NoRecords
  <1>5. CASE End("crashed")
    BY <1>1, <1>4, <1>5, Ends DEF Ended
  <1>6. CASE UNCHANGED <<server, projects, load, todo>> /\ reply' \in Replies
    <2>1. TypeOK'
      BY <1>1, <1>4, <1>6 DEF IInv, TypeOK
    <2>2. FromConfig' /\ LoadingHome' /\ HomesAgree' /\ NoRecords'
      BY <1>1, <1>2, <1>4, <1>6 DEF IInv, FromConfig, LoadingHome, HomesAgree, NoRecords
    <2> QED
      BY <2>1, <2>2 DEF IInv
  <1>7. reply' \in Replies \/ End("crashed")
    BY DEF GetProject, CreateProject, Answer, Replies, IInv, TypeOK
  <1> QED
    BY <1>5, <1>6, <1>7 DEF GetProject, CreateProject

LEMMA NextIInv ==
  ASSUME IInv, [Next]_vars
  PROVE  IInv'
  <1>1. CASE UNCHANGED vars
    BY <1>1 DEF vars, IInv, TypeOK, FromConfig, LoadingHome, NoRecords, HomesAgree
  <1>2. CASE Next
    BY <1>2, StartStep, LoadConfiguredProjectStep, LoadSyncStep, ChangeHomeStep,
       LoadingDoneStep, TimerStep, RequestStep, WorldStep, StopStep DEF Next, Load, Request
  <1> QED
    BY <1>1, <1>2

LEMMA IInvIsInvariant == Spec => []IInv
  <1>1. IInv /\ [Next]_vars => IInv'
    BY NextIInv
  <1> QED
    BY <1>1, InitIInv, PTL DEF Spec

-----------------------------------------------------------------------------
(* The results.                                                            *)

\* Types, and the bookkeeping of a load.
THEOREM RegistryTypeCorrect == Spec => []TypeOK
  <1>1. IInv => TypeOK
    BY DEF IInv
  <1> QED
    BY <1>1, IInvIsInvariant, PTL

\* CreateFromConfig, ChangeHome: a registered project works on the home that its
\* database records and that its configuration names.
THEOREM RegisteredHomesAgree == Spec => []HomesAgree
  <1>1. IInv => HomesAgree
    BY DEF IInv
  <1> QED
    BY <1>1, IInvIsInvariant, PTL

\* CreateFromConfig, Server::GetProject, Server::CreateProject: no step loses the
\* records of a project whose database is complete.
THEOREM CompleteIsKept == Spec => RecordsKept
  <1>1. ASSUME IInv, [Next]_vars, NEW n \in Names, Complete(db[n])
        PROVE  Complete(db[n]')
    <2>1. db[n].dir = "open" /\ db[n] \in Databases
      BY <1>1 DEF IInv, NoRecords, TypeOK
    <2>2. CASE db' = db
      BY <1>1, <2>2
    <2>3. ASSUME NEW m \in Names,
                 \/ /\ db[m].dir # "open" \/ ~Complete(db[m])
                    /\ db' \in {[db EXCEPT ![m] = Created], [db EXCEPT ![m] = Broken]}
                 \/ db' = [db EXCEPT ![m].info = TRUE]
          PROVE  Complete(db[n]')
      BY <1>1, <2>1, <2>3 DEF IInv, TypeOK, Databases, Complete
    <2>4. ASSUME NEW m \in Names, NEW h \in Homes, db' = [db EXCEPT ![m].home = h]
          PROVE  Complete(db[n]')
      BY <1>1, <2>1, <2>4, RegistryAssumption DEF IInv, TypeOK, Databases, Complete
    <2>5. CASE Load
      <3>1. CASE todo = << >>
        BY <1>1, <2>2, <2>5, <3>1 DEF Load, LoadConfiguredProject, LoadSync, ChangeHome,
           LoadingDone, NoLoad, IInv, TypeOK
      <3>2. CASE todo # << >>
        <4>1. Head(todo).name \in Names /\ Head(todo).home \in Homes
          BY <1>1, <3>2, FirstEntry DEF IInv
        <4>2. CASE LoadConfiguredProject
          BY <2>2, <2>3, <4>1, <4>2 DEF LoadConfiguredProject, OpenDatabase,
             RecreateDatabase, LoadProjectInfo
        <4>3. CASE LoadSync
          BY <2>2, <2>3, <4>1, <4>3 DEF LoadSync, ForceSync
        <4>4. CASE ChangeHome
          BY <2>2, <2>4, <4>1, <4>4 DEF ChangeHome
        <4> QED
          BY <2>2, <2>5, <4>2, <4>3, <4>4 DEF Load, LoadingDone
      <3> QED
        BY <3>1, <3>2
    <2>6. CASE \E m \in Names : ForceSyncTimer(m)
      BY <2>2, <2>3, <2>6 DEF ForceSyncTimer, ForceSync
    <2>7. CASE Request
      BY <2>2, <2>3, <2>7 DEF Request, GetProject, CreateProject
    <2> QED
      BY <1>1, <2>2, <2>5, <2>6, <2>7 DEF Next, vars, Start, Stop, HomeRemoved,
         HomeRestored, Reconfigure
  <1>2. IInv /\ [Next]_vars => \A n \in Names : Complete(db[n]) => Complete(db[n]')
    BY <1>1
  <1> QED
    BY <1>2, IInvIsInvariant, PTL DEF Spec, RecordsKept

-----------------------------------------------------------------------------
(* Without faults of the environment.                                      *)

\* Every home is there, cmake succeeds, no load is killed and no request names a
\* project that is not registered; a home need not have a build directory.
Undisturbed == Faults \subseteq {"fresh"}

\* There is no half-made database but that of the project that is being loaded, ...
WholeDatabases ==
  \A n \in Names : (load # NoLoad => n # Head(todo).name) =>
    db[n].dir = "absent" \/ (db[n].dir = "open" /\ Complete(db[n]))

\* ... which is complete when its home was read from it, ...
LoadIsWhole ==
  /\ load.step = "sync" => Complete(db[Head(todo).name])
  /\ load.step = "change" => load.home = NoHome \/ Complete(db[Head(todo).name])

\* ... and every configured project is still to be loaded or is registered.
NothingMissed ==
  server = "loading" =>
    \A i \in DOMAIN config :
      \/ \E j \in DOMAIN todo : todo[j] = config[i]
      \/ projects[config[i].name] = config[i].home

Orderly == /\ homes = Homes /\ WholeDatabases /\ LoadIsWhole /\ NothingMissed
           /\ ConfiguredIsRegistered

LEMMA InitOrderly == Init => Orderly
  BY DEF Init, Orderly, WholeDatabases, LoadIsWhole, NothingMissed, ConfiguredIsRegistered,
     Absent, NoLoad

\* A process that ends, or that is not there.
LEMMA EndedOrderly ==
  ASSUME IInv, Orderly, load = NoLoad, load' = NoLoad, server' \in Ended,
         db' = db, homes' = homes
  PROVE  Orderly'
  BY DEF Orderly, WholeDatabases, LoadIsWhole, NothingMissed, ConfiguredIsRegistered,
     Ended, NoLoad

\* The first of the projects that are left is dealt with: it is registered, and its
\* database is whole.
LEMMA LoadedOrderly ==
  ASSUME IInv, Orderly, todo # << >>, server = "loading",
         load' = NoLoad, todo' = Tail(todo), UNCHANGED <<disk, server>>,
         \A n \in Names : projects[n] # NoHome => projects'[n] = projects[n],
         projects'[Head(todo).name] = Head(todo).home,
         \A n \in Names \ {Head(todo).name} : db'[n] = db[n],
         db'[Head(todo).name].dir = "open", Complete(db'[Head(todo).name])
  PROVE  Orderly'
  <1> DEFINE e == Head(todo)
  <1>1. homes' = homes /\ config' = config /\ server' = "loading"
    BY DEF disk
  <1>2. WholeDatabases' /\ LoadIsWhole'
    BY DEF Orderly, WholeDatabases, LoadIsWhole, NoLoad
  <1>3. ASSUME NEW i \in DOMAIN config
        PROVE  \/ \E j \in DOMAIN todo' : todo'[j] = config[i]
               \/ projects'[config[i].name] = config[i].home
    <2>1. config[i] \in Entries
      <3>1. config \in Seq(Entries)
        BY ConfigIsSeq DEF IInv
      <3> QED
        BY <3>1
    <2>2. config[i].name \in Names /\ config[i].home \in Homes /\ config[i].home # NoHome
      BY <2>1, RegistryAssumption DEF Entries
    <2>3. CASE projects[config[i].name] = config[i].home
      BY <2>2, <2>3
    <2>4. CASE \E j \in DOMAIN todo : todo[j] = config[i]
      <3>1. PICK j \in DOMAIN todo : todo[j] = config[i]
        BY <2>4
      <3>2. todo \in Seq(Entries)
        BY DEF IInv, TypeOK
      <3>3. CASE j = 1
        <4>1. config[i] = e
          BY <3>1, <3>3, FirstEntry DEF IInv
        <4> QED
          BY <4>1
      <3>4. CASE j # 1
        <4>1. j - 1 \in DOMAIN Tail(todo) /\ Tail(todo)[j - 1] = todo[j]
          BY <3>1, <3>2, <3>4
        <4> QED
          BY <3>1, <4>1
      <3> QED
        BY <3>3, <3>4
    <2> QED
      BY <2>3, <2>4 DEF Orderly, NothingMissed
  <1>4. NothingMissed' /\ ConfiguredIsRegistered'
    BY <1>1, <1>3 DEF NothingMissed, ConfiguredIsRegistered
  <1> QED
    BY <1>1, <1>2, <1>4 DEF Orderly

\* The load of a project goes on.
LEMMA LoadingOrderly ==
  ASSUME IInv, Orderly, server = "loading", load' # NoLoad, LoadIsWhole',
         UNCHANGED <<disk, server, projects, todo>>,
         \A n \in Names \ {Head(todo).name} : db'[n] = db[n]
  PROVE  Orderly'
  <1>1. homes' = homes /\ config' = config /\ server' = "loading"
    BY DEF disk
  <1>2. WholeDatabases'
    BY DEF Orderly, WholeDatabases
  <1>3. NothingMissed' /\ ConfiguredIsRegistered'
    BY <1>1 DEF Orderly, NothingMissed, ConfiguredIsRegistered
  <1> QED
    BY <1>1, <1>2, <1>3 DEF Orderly

LEMMA LoadConfiguredProjectOrderly ==
  ASSUME IInv, Orderly, LoadConfiguredProject
  PROVE  Orderly'
  <1> DEFINE e == Head(todo)
             n == e.name
  <1>1. server = "loading" /\ todo # << >> /\ load = NoLoad /\ UNCHANGED disk
    BY DEF LoadConfiguredProject
  <1>2. e \in Entries /\ n \in Names /\ e.home \in Homes /\ e.home # NoHome /\ e.home \in homes
    BY <1>1, FirstEntry, RegistryAssumption DEF IInv, Orderly
  <1>3. db[n].dir = "absent" \/ (db[n].dir = "open" /\ Complete(db[n]))
    BY <1>1, <1>2 DEF Orderly, WholeDatabases
  <1>4. db[n] \in Databases
    BY <1>2 DEF IInv, TypeOK
  <1>5. CASE End("run_failed") /\ UNCHANGED db
    BY <1>1, <1>5, EndedOrderly DEF End, Ended, disk
  <1>6. CASE projects[n] = e.home /\ GiveUp /\ UNCHANGED <<db, server, reply>>
    <2>1. db[n].dir = "open" /\ Complete(db[n])
      BY <1>2, <1>3, <1>6 DEF IInv, HomesAgree
    <2> QED
      BY <1>1, <1>2, <1>6, <2>1, LoadedOrderly DEF GiveUp
  <1>7. CASE projects[n] = NoHome /\ OpenDatabase(n, e) /\ UNCHANGED <<server, reply>>
    <2>1. CASE /\ db' = [db EXCEPT ![n] = Created]
               /\ load' = [step |-> "change", home |-> NoHome]
               /\ UNCHANGED <<projects, todo>>
      <3>1. load' # NoLoad /\ LoadIsWhole'
        BY <2>1 DEF LoadIsWhole, NoLoad
      <3>2. \A m \in Names \ {n} : db'[m] = db[m]
        BY <2>1 DEF IInv, TypeOK
      <3> QED
        BY <1>1, <1>7, <2>1, <3>1, <3>2, LoadingOrderly
    <2>2. CASE Complete(db[n]) /\ LoadProjectInfo(n, e)
      <3>1. db[n].home \in homes
        BY <1>4, <2>2 DEF Complete, Databases, Orderly
      <3>2. /\ load' = [step |-> "sync", home |-> db[n].home]
            /\ UNCHANGED <<db, projects, todo>>
        BY <1>2, <2>2, <3>1 DEF LoadProjectInfo
      <3>3. load' # NoLoad /\ LoadIsWhole'
        BY <2>2, <3>2 DEF LoadIsWhole, NoLoad
      <3> QED
        BY <1>1, <1>7, <3>2, <3>3, LoadingOrderly
    <2> QED
      BY <1>3, <1>7, <2>1, <2>2 DEF OpenDatabase
  <1> QED
    BY <1>2, <1>5, <1>6, <1>7 DEF LoadConfiguredProject

LEMMA LoadSyncOrderly ==
  ASSUME Undisturbed, IInv, Orderly, LoadSync
  PROVE  Orderly'
  <1> DEFINE e == Head(todo)
             n == e.name
  <1>1. /\ load # NoLoad /\ todo # << >> /\ server = "loading"
        /\ UNCHANGED <<disk, server, reply>>
    BY DEF LoadSync, NoLoad, IInv, TypeOK
  <1>2. n \in Names /\ e.home \in Homes /\ e.home \in homes
    BY <1>1, FirstEntry DEF IInv, Orderly
  <1>3. UNCHANGED db \/ db' = [db EXCEPT ![n].info = TRUE]
    BY DEF LoadSync, ForceSync
  <1>4. /\ db[n] \in Databases /\ db[n].dir = "open" /\ load.home = db[n].home
        /\ projects[n] = NoHome
    BY <1>1, <1>2 DEF IInv, TypeOK, LoadingHome
  <1>5. /\ \A m \in Names \ {n} : db'[m] = db[m]
        /\ db'[n].dir = "open" /\ db'[n].home = db[n].home
    BY <1>2, <1>3, <1>4, SyncWrites DEF IInv, TypeOK
  <1>6. CASE load.step = "sync"
    <2>1. load' = [load EXCEPT !.step = "change"] /\ UNCHANGED <<projects, todo>>
      BY <1>6 DEF LoadSync
    <2>2. load'.step = "change" /\ load' # NoLoad
      BY <2>1 DEF NoLoad, IInv, TypeOK, Loads
    <2>3. Complete(db'[n])
      BY <1>2, <1>3, <1>4, <1>6 DEF Orderly, LoadIsWhole, Complete, IInv, TypeOK, Databases
    <2>4. LoadIsWhole'
      BY <2>1, <2>2, <2>3 DEF LoadIsWhole
    <2> QED
      BY <1>1, <1>5, <2>1, <2>2, <2>4, LoadingOrderly
  <1>7. CASE load.step = "sync_new"
    <2>1. load.home = e.home
      BY <1>1, <1>7 DEF IInv, LoadingHome
    <2>2. load' = NoLoad /\ todo' = Tail(todo) /\ projects' = [projects EXCEPT ![n] = e.home]
      BY <1>7, <2>1 DEF LoadSync, AddProject
    <2>3. db' = [db EXCEPT ![n].info = TRUE]
      BY <1>2, <2>1 DEF LoadSync, ForceSync, Undisturbed
    <2>4. Complete(db'[n])
      BY <1>2, <1>4, <2>1, <2>3, RegistryAssumption DEF Complete, IInv, TypeOK, Databases
    <2>5. /\ \A m \in Names : projects[m] # NoHome => projects'[m] = projects[m]
          /\ projects'[n] = e.home
      BY <1>2, <1>4, <2>2 DEF IInv, TypeOK
    <2> QED
      BY <1>1, <1>5, <2>2, <2>4, <2>5, LoadedOrderly
  <1> QED
    BY <1>6, <1>7 DEF LoadSync

LEMMA ChangeHomeOrderly ==
  ASSUME IInv, Orderly, ChangeHome
  PROVE  Orderly'
  <1> DEFINE e == Head(todo)
             n == e.name
  <1>1. /\ load # NoLoad /\ todo # << >> /\ server = "loading"
        /\ load.step = "change" /\ UNCHANGED <<disk, server, reply>>
    BY DEF ChangeHome, NoLoad, IInv, TypeOK
  <1>2. n \in Names /\ e.home \in Homes /\ e.home \in homes /\ e.home # NoHome
    BY <1>1, FirstEntry, RegistryAssumption DEF IInv, Orderly
  <1>3. /\ db[n].dir = "open" /\ projects[n] = NoHome
    BY <1>1, <1>2 DEF IInv, LoadingHome
  <1>4. CASE load.home = e.home /\ AddProject(n, e.home) /\ UNCHANGED db
    <2>1. Complete(db[n])
      BY <1>1, <1>2, <1>4 DEF Orderly, LoadIsWhole
    <2>2. /\ \A m \in Names : projects[m] # NoHome => projects'[m] = projects[m]
          /\ projects'[n] = e.home
      BY <1>2, <1>3, <1>4 DEF IInv, TypeOK, AddProject
    <2> QED
      BY <1>1, <1>3, <1>4, <2>1, <2>2, LoadedOrderly DEF AddProject
  <1>5. CASE /\ db' = [db EXCEPT ![n].home = e.home]
             /\ load' = [step |-> "sync_new", home |-> e.home]
             /\ UNCHANGED <<projects, todo>>
    <2>1. load' # NoLoad /\ LoadIsWhole'
      BY <1>5 DEF LoadIsWhole, NoLoad
    <2>2. \A m \in Names \ {n} : db'[m] = db[m]
      BY <1>5 DEF IInv, TypeOK
    <2> QED
      BY <1>1, <1>5, <2>1, <2>2, LoadingOrderly
  <1> QED
    BY <1>2, <1>4, <1>5 DEF ChangeHome

LEMMA UpOrderly ==
  ASSUME IInv, Orderly, server = "up", server' = "up", load' = load, todo' = todo,
         projects' = projects, UNCHANGED <<homes, config>>,
         \A n \in Names : db'[n] = db[n] \/ (db'[n].dir = "open" /\ Complete(db'[n]))
  PROVE  Orderly'
  <1>1. load = NoLoad
    BY DEF IInv, TypeOK
  <1> QED
    BY <1>1 DEF Orderly, WholeDatabases, LoadIsWhole, NothingMissed, ConfiguredIsRegistered,
       NoLoad

LEMMA NextOrderly ==
  ASSUME Undisturbed, IInv, Orderly, [Next]_vars
  PROVE  Orderly'
  <1>1. CASE UNCHANGED vars
    BY <1>1 DEF vars, Orderly, WholeDatabases, LoadIsWhole, NothingMissed,
       ConfiguredIsRegistered
  <1>2. CASE Start
    <2>1. /\ server \in Ended /\ homes' = homes /\ config' = config /\ db' = db
          /\ load' = NoLoad
          /\ \/ server' = "init_failed"
             \/ server' = "loading" /\ todo' = config
      BY <1>2 DEF Start, End
    <2>2. load = NoLoad
      BY <2>1 DEF IInv, TypeOK, Ended
    <2> QED
      BY <2>1, <2>2 DEF Orderly, WholeDatabases, LoadIsWhole, NothingMissed,
         ConfiguredIsRegistered, NoLoad
  <1>3. CASE Load
    <2>1. CASE LoadingDone
      <3>1. todo = << >> /\ load = NoLoad
        BY <2>1 DEF LoadingDone, IInv, TypeOK
      <3> QED
        BY <2>1, <3>1 DEF LoadingDone, disk, Orderly, WholeDatabases, LoadIsWhole,
           NothingMissed, ConfiguredIsRegistered, NoLoad
    <2> QED
      BY <1>3, <2>1, LoadConfiguredProjectOrderly, LoadSyncOrderly, ChangeHomeOrderly DEF Load
  <1>4. ASSUME NEW n \in Names, ForceSyncTimer(n)
        PROVE  Orderly'
    <2>1. /\ server = "up" /\ projects[n] # NoHome
          /\ UNCHANGED <<disk, server, projects, load, todo, reply>>
          /\ UNCHANGED db \/ db' = [db EXCEPT ![n].info = TRUE]
      BY <1>4 DEF ForceSyncTimer, ForceSync
    <2>2. db[n].dir = "open" /\ db[n].home # NoHome /\ db[n] \in Databases
      BY <2>1, RegistryAssumption DEF IInv, HomesAgree, TypeOK
    <2>3. \A m \in Names : db'[m] = db[m] \/ (db'[m].dir = "open" /\ Complete(db'[m]))
      BY <2>1, <2>2 DEF IInv, TypeOK, Databases, Complete
    <2> QED
      BY <2>1, <2>3, UpOrderly DEF disk
  <1>5. CASE Request
    <2>1. /\ server = "up"
          /\ UNCHANGED <<homes, config, db, server, projects, load, todo>>
      BY <1>5 DEF Request, GetProject, CreateProject, Requested, Undisturbed, disk
    <2> QED
      BY <2>1, UpOrderly
  <1>6. ~ \E h \in Homes : HomeRemoved(h) \/ HomeRestored(h)
    BY DEF HomeRemoved, HomeRestored, Orderly, Undisturbed
  <1>7. CASE Reconfigure
    <2>1. load = NoLoad
      BY <1>7 DEF Reconfigure, IInv, TypeOK, Ended
    <2> QED
      BY <1>7, <2>1, EndedOrderly DEF Reconfigure
  <1>8. CASE Stop
    <2>1. server = "up" /\ load = NoLoad
      BY <1>8 DEF Stop, Undisturbed, IInv, TypeOK
    <2> QED
      BY <1>8, <2>1, EndedOrderly DEF Stop, End, Ended, disk
  <1> QED
    BY <1>1, <1>2, <1>3, <1>4, <1>5, <1>6, <1>7, <1>8 DEF Next

\* LoadConfiguredProject: as long as homes stay, cmake succeeds, nobody kills the
\* server while it loads and no request names a project that is not registered, a
\* server that is up serves every configured project, whatever sequence of
\* configurations and restarts has led there.  Each of the six faults that the
\* assumption rules out can break this by itself.
THEOREM UndisturbedIsRegistered ==
  ASSUME Faults \subseteq {"fresh"}
  PROVE  Spec => []ConfiguredIsRegistered
  <1>1. Undisturbed
    BY DEF Undisturbed
  <1>2. IInv /\ Orderly /\ [Next]_vars => Orderly'
    BY <1>1, NextOrderly
  <1>3. Orderly => ConfiguredIsRegistered
    BY DEF Orderly
  <1> QED
    BY <1>2, <1>3, InitOrderly, IInvIsInvariant, PTL DEF Spec

=============================================================================
