----------------------------- MODULE Registry -----------------------------
(***************************************************************************)
(* The life cycle of projects: the configuration that a start reads        *)
(* (Config::Init), the map projects_ of the server, the database directory *)
(* of each project and its two records of the project itself ("home" and   *)
(* the one under the project's name), and the requests that name a         *)
(* project.  The server is started, loads the configured projects one by   *)
(* one on its main thread, serves requests, and stops or is killed.        *)
(*                                                                         *)
(* Loading a project is a sequence of steps (load), because it runs cmake, *)
(* which takes its time: the process may be killed and directories may     *)
(* come and go between them.  The CMakeLists.txt of a project comes and    *)
(* goes with its home.  LevelDB is external: opening makes the directory   *)
(* whether or not it then succeeds, a directory without a CURRENT file is  *)
(* "broken", and a directory is locked by the handle that has it open.     *)
(***************************************************************************)
EXTENDS Integers, Sequences, FiniteSets

CONSTANTS
  Names,    \* names of projects
  Homes,    \* directories
  NoHome,   \* no directory
  Configs,  \* the configurations: sequences of entries
  Faults    \* a subset of AllFaults

AllFaults ==
  {"kill",     \* the process is killed while it loads its projects
   "cmake",    \* a run of cmake fails
   "homes",    \* home directories come and go
   "moves",    \* they do so while the server is down
   "lookups",  \* lookups in projects that are not registered
   "creates",  \* requests to create projects that are not registered
   "fresh"}    \* a home need not have a build directory

Entries == [name : Names, home : Homes, BuildDir : {"relative", "absolute"}]

ASSUME RegistryAssumption ==
  /\ NoHome \notin Homes
  /\ Configs \subseteq Seq(Entries) /\ Configs # {}
  /\ Faults \subseteq AllFaults

VARIABLES
  homes,    \* the directories that exist
  built,    \* those with a _build directory
  config,   \* the configuration file
  db,       \* the database directory of each project
  server,   \* what the process is doing, or how it ended
  projects, \* projects_, as the home_path_ of each registered project
  load,     \* the project that CreateFromConfig works on
  todo,     \* the configured projects that are still to be loaded
  reply     \* the last answer to a create request

disk == <<homes, built, config>>
vars == <<homes, built, config, db, server, projects, load, todo, reply>>

Databases == [dir : {"absent", "broken", "open"}, home : Homes \cup {NoHome},
              info : BOOLEAN]

Absent == [dir |-> "absent", home |-> NoHome, info |-> FALSE]
Broken == [Absent EXCEPT !.dir = "broken"]
Created == [Absent EXCEPT !.dir = "open"]

\* Both records of the project are there.
Complete(d) == d.home # NoHome /\ d.info

NoLoad == [step |-> "none", home |-> NoHome]
Loads == [step : {"none", "sync", "change", "sync_new"}, home : Homes \cup {NoHome}]

NoReply == [answer |-> "none", name |-> NoHome, home |-> NoHome]
Replies == [answer : {"none", "ok", "error"}, name : Names \cup {NoHome},
            home : Homes \cup {NoHome}]

Ended == {"down", "init_failed", "run_failed", "crashed"}

Init ==
  /\ homes = Homes
  /\ built \in IF "fresh" \in Faults THEN SUBSET Homes ELSE {Homes}
  /\ config \in Configs
  /\ db = [n \in Names |-> Absent]
  /\ server = "down"
  /\ projects = [n \in Names |-> NoHome]
  /\ load = NoLoad /\ todo = << >> /\ reply = NoReply

-----------------------------------------------------------------------------
(* The world: directories, the configuration file and the process.         *)

HomeRemoved(h) ==
  /\ "homes" \in Faults \/ ("moves" \in Faults /\ server \in Ended)
  /\ h \in homes
  /\ homes' = homes \ {h} /\ built' = built \ {h}
  /\ UNCHANGED <<config, db, server, projects, load, todo, reply>>

HomeRestored(h) ==
  /\ "homes" \in Faults \/ server \in Ended
  /\ h \notin homes
  /\ homes' = homes \cup {h} /\ built' = built \cup {h}
  /\ UNCHANGED <<config, db, server, projects, load, todo, reply>>

Reconfigure ==
  /\ server \in Ended
  /\ config' \in Configs \ {config}
  /\ UNCHANGED <<homes, built, db, server, projects, load, todo, reply>>

\* The process ends; only the databases and the disk are left.
End(how) ==
  /\ server' = how
  /\ projects' = [n \in Names |-> NoHome]
  /\ load' = NoLoad /\ todo' = << >> /\ reply' = NoReply

Stop ==
  /\ server = "up" \/ (server = "loading" /\ "kill" \in Faults)
  /\ End("down")
  /\ UNCHANGED <<disk, db>>

-----------------------------------------------------------------------------
(* Start: Config::Init, outside of the try block of main.                  *)

\* ProjectConfig needs the home, SetBuildPath the build directory (which it
\* makes when the path is absolute; a relative one it makes under the working
\* directory of the server and then looks up under the home), SetCmakeFile
\* the CMakeLists.txt.
EntryThrows(e) ==
  \/ e.home \notin homes
  \/ e.BuildDir = "relative" /\ e.home \notin built

BuildDirsMade(es) ==
  {es[i].home : i \in {j \in DOMAIN es :
     /\ es[j].BuildDir = "absolute"
     /\ \A k \in 1 .. j - 1 : ~EntryThrows(es[k])}}

Start ==
  /\ server \in Ended
  /\ built' = built \cup (BuildDirsMade(config) \cap homes)
  /\ UNCHANGED <<homes, config, db>>
  /\ \/ /\ \E i \in DOMAIN config : EntryThrows(config[i])
        /\ End("init_failed")
     \/ /\ \A i \in DOMAIN config : ~EntryThrows(config[i])
        /\ server' = "loading" /\ todo' = config
        /\ projects' = [n \in Names |-> NoHome]
        /\ load' = NoLoad /\ reply' = NoReply

-----------------------------------------------------------------------------
(* LoadConfiguredProject and CreateFromConfig                              *)

\* The project is given up: the exception is logged.
GiveUp ==
  /\ load' = NoLoad /\ todo' = Tail(todo)
  /\ UNCHANGED projects

AddProject(n, h) ==
  /\ projects' = [projects EXCEPT ![n] = h]
  /\ load' = NoLoad /\ todo' = Tail(todo)

\* LoadProjectInfo returns false: the directory is removed and a new database
\* is opened, while the handle of the old one is still open and holds its lock.
RecreateDatabase(n) == /\ db' = [db EXCEPT ![n] = Broken]
                       /\ GiveUp

\* Mutant: a recorded home that is gone counts as a failed load.
LoadProjectInfo_Recreate(n, e) ==
  IF {db[n].home, e.home} \subseteq homes
    THEN /\ load' = [step |-> "sync", home |-> db[n].home]
         /\ UNCHANGED <<db, projects, todo>>
    ELSE RecreateDatabase(n)

\* LoadProjectInfo finds both records.  ChangeHomeNoCheck throws when the
\* recorded home or the configured CMakeLists.txt is gone, and otherwise puts
\* the home again and starts a ForceSync.
LoadProjectInfo(n, e) ==
  /\ UNCHANGED db
  /\ IF {db[n].home, e.home} \subseteq homes
       THEN /\ load' = [step |-> "sync", home |-> db[n].home]
            /\ UNCHANGED <<projects, todo>>
       ELSE GiveUp

OpenDatabase(n, e) ==
  \/ /\ db[n].dir = "absent"
     /\ db' = [db EXCEPT ![n] = Created]
     /\ load' = [step |-> "change", home |-> NoHome]
     /\ UNCHANGED <<projects, todo>>
  \/ /\ db[n].dir = "broken"
     /\ GiveUp /\ UNCHANGED db
  \/ /\ db[n].dir = "open" /\ ~Complete(db[n])
     /\ RecreateDatabase(n)
  \/ /\ db[n].dir = "open" /\ Complete(db[n])
     /\ LoadProjectInfo(n, e)

LoadConfiguredProject ==
  /\ server = "loading" /\ todo # << >> /\ load = NoLoad
  /\ LET e == Head(todo)
         n == e.name
     IN \/ /\ projects[n] # NoHome  \* a name for the second time: Run throws
           /\ projects[n] # e.home \/ e.home \notin homes
           /\ End("run_failed")
           /\ UNCHANGED db
        \/ /\ projects[n] = e.home /\ e.home \in homes  \* the database is locked
           /\ GiveUp
           /\ UNCHANGED <<db, server, reply>>
        \/ /\ projects[n] = NoHome
           /\ IF e.home \in homes
                THEN OpenDatabase(n, e)
                ELSE GiveUp /\ UNCHANGED db
           /\ UNCHANGED <<server, reply>>
  /\ UNCHANGED disk

\* A ForceSync of a project with home h whose configured home is c writes the
\* record under the project's name when cmake succeeds and every compile
\* command lies under h; a failure is only logged.
ForceSync(n, h, c) ==
  \/ /\ c \in homes /\ h = c
     /\ db' = [db EXCEPT ![n].info = TRUE]
  \/ /\ "cmake" \in Faults \/ c \notin homes \/ h # c
     /\ UNCHANGED db

LoadSync ==
  /\ load.step \in {"sync", "sync_new"}
  /\ LET e == Head(todo)
     IN /\ ForceSync(e.name, load.home, e.home)
        /\ IF load.step = "sync"
             THEN /\ load' = [load EXCEPT !.step = "change"]
                  /\ UNCHANGED <<projects, todo>>
             ELSE AddProject(e.name, load.home)
  /\ UNCHANGED <<disk, server, reply>>

\* Mutant: a project that was loaded from its database keeps its home.
ChangeHome_OnlyNew ==
  /\ load.step = "change"
  /\ LET e == Head(todo)
     IN IF load.home # NoHome
          THEN AddProject(e.name, load.home) /\ UNCHANGED db
          ELSE /\ db' = [db EXCEPT ![e.name].home = e.home]
               /\ load' = [step |-> "sync_new", home |-> e.home]
               /\ UNCHANGED <<projects, todo>>
  /\ UNCHANGED <<disk, server, reply>>

ChangeHome ==
  /\ load.step = "change"
  /\ LET e == Head(todo)
     IN \/ /\ e.home \notin homes
           /\ GiveUp /\ UNCHANGED db
        \/ /\ e.home \in homes /\ load.home = e.home
           /\ AddProject(e.name, e.home) /\ UNCHANGED db
        \/ /\ e.home \in homes /\ load.home # e.home
           /\ db' = [db EXCEPT ![e.name].home = e.home]
           /\ load' = [step |-> "sync_new", home |-> e.home]
           /\ UNCHANGED <<projects, todo>>
  /\ UNCHANGED <<disk, server, reply>>

\* Mutant: requests are served while projects are being loaded.
LoadingDone_Early ==
  /\ server = "loading"
  /\ server' = "up"
  /\ UNCHANGED <<disk, db, projects, load, todo, reply>>

LoadingDone ==
  /\ server = "loading" /\ todo = << >>
  /\ server' = "up"
  /\ UNCHANGED <<disk, db, projects, load, todo, reply>>

-----------------------------------------------------------------------------
(* While the server runs                                                   *)

\* The timer of a registered project.
ForceSyncTimer(n) ==
  /\ server = "up" /\ projects[n] # NoHome
  /\ ForceSync(n, projects[n], projects[n])
  /\ UNCHANGED <<disk, server, projects, load, todo, reply>>

Requested(n, kind) == projects[n] # NoHome \/ kind \in Faults

\* Session::create_project and Server::CreateProject.  The home of the request
\* exists, or the session answers with an error at once.
Answer(n, h, a) == reply' = [answer |-> a, name |-> n, home |-> h]

CreateProject(n, h) ==
  /\ server = "up" /\ Requested(n, "creates")
  /\ UNCHANGED <<homes, built, config>>
  /\ \/ /\ h \notin homes \/ projects[n] \notin {NoHome, h}
        /\ Answer(n, h, "error")
        /\ UNCHANGED <<db, server, projects, load, todo>>
     \/ /\ h \in homes /\ projects[n] = h
        /\ Answer(n, h, "ok")
        /\ UNCHANGED <<db, server, projects, load, todo>>
     \/ /\ h \in homes /\ projects[n] = NoHome /\ db[n].dir = "open"
        /\ Answer(n, h, "ok")  \* error_if_exists: thrown, logged, not answered
        /\ UNCHANGED <<db, server, projects, load, todo>>
     \/ /\ h \in homes /\ projects[n] = NoHome /\ db[n].dir # "open"
        /\ db' = [db EXCEPT ![n] = Created]
        /\ End("crashed")  \* ChangeHomeNoCheck uses config_, which is null

\* Any other request: Server::GetProject and CreateFromDatabase.
GetProject(n) ==
  /\ server = "up" /\ Requested(n, "lookups")
  /\ UNCHANGED disk
  /\ \/ /\ projects[n] # NoHome
        /\ UNCHANGED <<db, server, projects, load, todo, reply>>
     \/ /\ projects[n] = NoHome /\ db[n].dir # "open"
        /\ db' = [db EXCEPT ![n] = Broken]
        /\ UNCHANGED <<server, projects, load, todo, reply>>
     \/ /\ projects[n] = NoHome /\ db[n].dir = "open"
        /\ ~Complete(db[n]) \/ db[n].home \notin homes
        /\ UNCHANGED <<db, server, projects, load, todo, reply>>
     \/ /\ projects[n] = NoHome /\ db[n].dir = "open"
        /\ Complete(db[n]) /\ db[n].home \in homes
        /\ End("crashed") /\ UNCHANGED db

Request == \E n \in Names : GetProject(n) \/ \E h \in Homes : CreateProject(n, h)

Load == LoadConfiguredProject \/ LoadSync \/ ChangeHome \/ LoadingDone

Next ==
  \/ Start
  \/ Load
  \/ \E n \in Names : ForceSyncTimer(n)
  \/ Request
  \/ \E h \in Homes : HomeRemoved(h) \/ HomeRestored(h)
  \/ Reconfigure
  \/ Stop

Spec == Init /\ [][Next]_vars

-----------------------------------------------------------------------------
(* Properties                                                              *)

\* Types; what a process knows ends with it, a load works on the first of the
\* projects that are left, and requests are served only when none is left.
TypeOK ==
  /\ homes \subseteq Homes /\ built \subseteq homes
  /\ config \in Configs
  /\ db \in [Names -> Databases]
  /\ server \in Ended \cup {"loading", "up"}
  /\ projects \in [Names -> Homes \cup {NoHome}]
  /\ load \in Loads /\ todo \in Seq(Entries)
  /\ reply \in Replies
  /\ load # NoLoad => todo # << >>
  /\ todo # << >> => server = "loading"
  /\ server \in Ended => projects = [n \in Names |-> NoHome]

\* CreateFromConfig, ChangeHome: a registered project works on the home that its
\* database records and that the configuration names, also when the database
\* was written for another home, the process was killed between the record
\* and the sync, or the home of the configuration came back later.
HomesAgree ==
  \A n \in Names : projects[n] # NoHome =>
    /\ db[n].dir = "open" /\ db[n].home = projects[n]
    /\ \E i \in DOMAIN config :
         config[i].name = n /\ config[i].home = projects[n]

\* CreateFromConfig: only a database whose records are incomplete is removed.
\* A project that was synced once keeps its database through missing homes,
\* failures of cmake, kills, requests and changes of the configuration.
RecordsKept ==
  [][\A n \in Names : Complete(db[n]) => Complete(db[n]')]_vars

\* LoadConfiguredProject: once the server is up, every configured project whose
\* home exists is registered.
ConfiguredIsRegistered ==
  server = "up" =>
    \A i \in DOMAIN config :
      config[i].home \in homes => projects[config[i].name] = config[i].home

\* Session::create_project: an answer without an error means that the project
\* is registered with the home of the request.
CreateOk == reply.answer = "ok" => projects[reply.name] = reply.home

\* Server::GetProject and CreateProject log what goes wrong with one project; no
\* request ends the server.
ServerSurvives == server # "crashed"

\* LoadConfiguredProject handles the failure of one project and goes on to the
\* next: a start fails only when no configured project can be served.
BadEntryIsSkipped ==
  [][server' = "init_failed" => \A i \in DOMAIN config : EntryThrows(config[i])]_vars

\* Symdb.xml gives no BuildDir for its first project: the default directory is
\* made when it is missing, and only a missing home ends a start.
DefaultBuildDirWorks ==
  [][server' = "init_failed" => \E i \in DOMAIN config : config[i].home \notin homes]_vars
=============================================================================
