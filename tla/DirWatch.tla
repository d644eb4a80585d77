----------------------------- MODULE DirWatch -----------------------------
(***************************************************************************)
(* The directories of a project as the server sees them: the flag cache    *)
(* (CompilerFlagCache), which maps directories to modules and modules to   *)
(* compiler flags, and the inotify watches (watchers_), which ForceSync    *)
(* brings in line with the cache.  Directories come and go and are renamed *)
(* while their events wait in the queue of the kernel.                     *)
(*                                                                         *)
(* A path is a sequence of names.  A directory on the disk has a node      *)
(* number of its own, so that a path whose directory is deleted and made   *)
(* again, or renamed, leads to another node.  The kernel numbers watches   *)
(* in the order in which they are made, and answers a second request for   *)
(* a node with the watch that it has.  What happens to files is in         *)
(* ParsePipeline; a ForceSync whose cmake run fails changes nothing here.  *)
(***************************************************************************)
EXTENDS Integers, Sequences, FiniteSets, SequencesExt

CONSTANTS
  Names,      \* names of directories
  Dirs,       \* paths that directories may have
  Rank,       \* the place of a path in the order of FsPathSet
  NoPath,     \* no module, no watcher
  NoName,     \* the empty name of an event
  NamePrefix, \* pairs of names of which the first is a prefix of the second
  Projects,   \* numbered in the order of their names
  HomeOf,     \* home_path_ of each project
  Initial,    \* the directories that exist at the start, in some order
  Creatable,  \* directories that may be made later
  Sources,    \* directories with a source in the compilation database
  ModuleHome, \* for each of those, the nearest directory with a CMakeLists.txt
  MaxNode,    \* bound: directories ever made
  MaxWatch,   \* bound: watches ever made
  MaxQueue,   \* bound: events that wait
  OpenFds,    \* file descriptors that the server holds
  Faults      \* a subset of AllFaults

AllFaults ==
  {"rename",  \* a directory is renamed
   "outside"} \* a compile command lies outside of the project

Paths == Dirs \cup {<< >>}

ASSUME DirWatchAssumption ==
  /\ Dirs \subseteq Seq(Names) \ {<< >>}
  /\ \A d \in Dirs : Front(d) \in Paths
  /\ Rank \in [Dirs -> Nat]
  /\ \A d, e \in Dirs : Rank[d] = Rank[e] => d = e
  /\ NoPath \notin Paths
  /\ NamePrefix \subseteq Names \X Names
  /\ Projects \subseteq Nat
  /\ HomeOf \in [Projects -> Paths]
  /\ Initial \in Seq(Dirs) /\ Len(Initial) <= MaxNode
  /\ \A i, j \in DOMAIN Initial : Initial[i] = Initial[j] => i = j
  /\ Creatable \subseteq Dirs
  /\ Sources \subseteq Paths
  /\ ModuleHome \in [Sources -> Paths]
  /\ MaxNode \in Nat
  /\ MaxWatch \in Nat /\ MaxQueue \in Nat
  /\ OpenFds \subseteq Nat
  /\ Faults \subseteq AllFaults

Nodes   == 1 .. MaxNode
Missing == 0
Watches == 1 .. MaxWatch

VARIABLES
  node,     \* the node at each path, or Missing
  lastNode, \* nodes made so far
  events,   \* the inotify queue
  kernel,   \* the node that each watch of the kernel is on, or Missing
  lastWd,   \* watches made so far
  cache,    \* rel_dir_module_map_ of each project (NoPath: no module)
  flagged,  \* the modules in module_flags_ of each project
  watchers, \* watchers_ of each project: the path of each watch, or NoPath
  failed,   \* the assertion that has ended the server, or "none"
  closed    \* history: numbers that ~ProjectFileWatcher has passed to close

diskVars   == << node, lastNode >>
kernelVars == << kernel, lastWd >>
vars == << diskVars, events, kernelVars, cache, flagged, watchers, failed,
           closed >>

Parent(d) == Front(d)

BelowHome(p) == {d \in Dirs : IsPrefix(HomeOf[p], d) /\ d # HomeOf[p]}

Event == [wd : Watches, kind : {"create", "delete"}, name : Names] \cup
         [wd : Watches, kind : {"delete_self"}, name : {NoName}]

TypeOK ==
  /\ node \in [Dirs -> Nodes \cup {Missing}]
  /\ lastNode \in 0 .. MaxNode
  /\ events \in Seq(Event)
  /\ kernel \in [Watches -> Nodes \cup {Missing}]
  /\ lastWd \in 0 .. MaxWatch
  /\ cache \in [Projects -> [Paths -> Paths \cup {NoPath}]]
  /\ flagged \in [Projects -> SUBSET Paths]
  /\ watchers \in [Projects -> [Watches -> Dirs \cup {NoPath}]]
  /\ \A p \in Projects, w \in Watches :
       watchers[p][w] # NoPath => watchers[p][w] \in BelowHome(p)
  /\ failed \in {"none", "module", "directory"}
  /\ closed \subseteq Watches

Init ==
  /\ node = [d \in Dirs |-> IF \E i \in DOMAIN Initial : Initial[i] = d
                              THEN CHOOSE i \in DOMAIN Initial : Initial[i] = d
                              ELSE Missing]
  /\ lastNode = Len(Initial)
  /\ events = << >>
  /\ kernel = [w \in Watches |-> Missing]
  /\ lastWd = 0
  /\ cache = [p \in Projects |-> [d \in Paths |-> NoPath]]
  /\ flagged = [p \in Projects |-> {}]
  /\ watchers = [p \in Projects |-> [w \in Watches |-> NoPath]]
  /\ failed = "none"
  /\ closed = {}

is_directory(d) == d = << >> \/ (d \in Dirs /\ node[d] # Missing)

Children(d) == {e \in Dirs : Parent(e) = d /\ is_directory(e)}

---------------------------------------------------------------------------
(* The disk.  The watch of the parent, if there is one, gets an event with *)
(* the name of the entry; a watch ends with its directory, and its own     *)
(* event has no name.  IN_MOVED_FROM is not in the mask.                   *)

WatchesOf(n) == {w \in Watches : n # Missing /\ kernel[w] = n}

EventFor(n, kind, name) ==
  IF WatchesOf(n) = {} THEN << >>
  ELSE << [wd |-> CHOOSE w \in WatchesOf(n) : TRUE, kind |-> kind,
           name |-> name] >>

Notify(d, kind) ==
  IF Parent(d) = << >> THEN << >>
  ELSE EventFor(node[Parent(d)], kind, Last(d))

Queue(new) ==
  /\ Len(events) + Len(new) <= MaxQueue
  /\ events' = events \o new

Mkdir(d) ==
  /\ d \in Creatable /\ ~is_directory(d) /\ is_directory(Parent(d))
  /\ lastNode < MaxNode
  /\ node' = [node EXCEPT ![d] = lastNode + 1]
  /\ lastNode' = lastNode + 1
  /\ Queue(Notify(d, "create"))
  /\ UNCHANGED << kernelVars, cache, flagged, watchers, failed, closed >>

Rmdir(d) ==
  /\ is_directory(d) /\ Children(d) = {}
  /\ node' = [node EXCEPT ![d] = Missing]
  /\ Queue(EventFor(node[d], "delete_self", NoName) \o Notify(d, "delete"))
  /\ kernel' = [w \in Watches |-> IF w \in WatchesOf(node[d]) THEN Missing
                                                              ELSE kernel[w]]
  /\ UNCHANGED << lastNode, lastWd, cache, flagged, watchers, failed, closed >>

Rename(d, e) ==
  /\ "rename" \in Faults
  /\ is_directory(d) /\ Children(d) = {}
  /\ e \in Creatable /\ ~is_directory(e) /\ is_directory(Parent(e))
  /\ Parent(e) # d
  /\ node' = [node EXCEPT ![d] = Missing, ![e] = node[d]]
  /\ Queue(Notify(e, "create"))
  /\ UNCHANGED << lastNode, kernelVars, cache, flagged, watchers, failed,
                  closed >>

---------------------------------------------------------------------------
(* The flag cache.                                                         *)

Entry(p, d) == IF d \in Paths THEN cache[p][d] ELSE NoPath

(* A path that is not a directory (any more) is looked up as a file.      *)
GetModuleName(p, d) == Entry(p, IF is_directory(d) THEN d ELSE Parent(d))

\* Mutant: the compilation database is not made again.
Listed_Old(p) == {d \in Sources : IsPrefix(HomeOf[p], d)}

(* The directories that the compile commands name.                        *)
Listed(p) == {d \in Sources : is_directory(d) /\ IsPrefix(HomeOf[p], d)}

(* ParseFileCommand for the sources in the directories S, into an empty    *)
(* cache: the module of the directory, and, with the first source of a     *)
(* module, the module of its own home.                                     *)
LoadCommands(S) ==
  [d \in Paths |->
     IF d \in S THEN ModuleHome[d]
     ELSE IF \E s \in S : ModuleHome[s] = d THEN d ELSE NoPath]

\* Mutant: the directories of a module outlive its flags.
WithoutDir_OnlyHome(c, d) == [c EXCEPT ![d] = NoPath]

(* TryRemoveDir: with the home of a module all its directories go.        *)
WithoutDir(c, d) ==
  [e \in Paths |->
     IF e = d \/ (c[d] = d /\ c[e] = d) THEN NoPath ELSE c[e]]

---------------------------------------------------------------------------
(* The watchers.  The destructor of a watcher removes the watch from the   *)
(* kernel, whoever else uses it, and closes the number of the watch as if  *)
(* it were a file descriptor.                                              *)

(* path_has_prefix compares strings, not components.                      *)
path_has_prefix(d, prefix) ==
  LET n == Len(prefix)
  IN  /\ 1 <= n /\ n <= Len(d)
      /\ SubSeq(d, 1, n - 1) = Front(prefix)
      /\ d[n] = prefix[n] \/ << prefix[n], d[n] >> \in NamePrefix

\* Mutant: the walk starts at the home directory.
GetWatchDirs_Home(p, c) ==
  {d \in Dirs : IsPrefix(HomeOf[p], d) /\ is_directory(d) /\ c[d] # NoPath}

(* GetWatchDirs with cache c: the walk starts below the home directory.   *)
GetWatchDirs(p, c) ==
  {d \in BelowHome(p) : is_directory(d) /\ c[d] # NoPath}

WatchedPaths(p) == {watchers[p][w] : w \in Watches} \ {NoPath}

\* Mutants: a directory is watched again although it is watched; a directory
\* that has a module already is taken to be watched.
DirsToAdd_All(p, c) == GetWatchDirs(p, c)
DirsToAdd_Known(p, c) == {d \in GetWatchDirs(p, c) : cache[p][d] = NoPath}

DirsToAdd(p, c) == GetWatchDirs(p, c) \ WatchedPaths(p)

(* What inotify_add_watch may return for the directories of S: the watch   *)
(* that a node has already, or else the next number, in the order of the   *)
(* paths.                                                                  *)
Numberings(S) ==
  LET fresh == {d \in S : WatchesOf(node[d]) = {}}
      next  == lastWd + 1 .. lastWd + Cardinality(fresh)
  IN  {f \in [S -> Watches] :
         /\ \A d \in S : IF d \in fresh THEN f[d] \in next
                                        ELSE f[d] \in WatchesOf(node[d])
         /\ \A d, e \in S : f[d] = f[e] => d = e
         /\ \A d, e \in fresh : Rank[d] < Rank[e] => f[d] < f[e]}

(* UpdateWatchDirs with cache c: directories without a watcher are added,  *)
(* then watchers without a directory are removed.  When the node of a new  *)
(* directory is watched already, under the path that it had before,        *)
(* inotify_add_watch returns the same watch, and the assignment to         *)
(* watchers_[wd] destroys the old watcher, and with it the new watch.      *)
UpdateWatchDirs(p, c) ==
  \E wd \in Numberings(DirsToAdd(p, c)) :
    LET add      == DOMAIN wd
        added    == {wd[d] : d \in add}
        replaced == {w \in added : watchers[p][w] # NoPath}
        removed  == {w \in Watches \ added :
                       /\ watchers[p][w] # NoPath
                       /\ watchers[p][w] \notin GetWatchDirs(p, c)}
    IN  /\ lastWd' = lastWd + Cardinality({d \in add : wd[d] > lastWd})
        /\ watchers' = [watchers EXCEPT ![p] =
                          [w \in Watches |->
                             IF w \in added THEN CHOOSE d \in add : wd[d] = w
                             ELSE IF w \in removed THEN NoPath
                             ELSE watchers[p][w]]]
        /\ kernel' = [w \in Watches |->
                        IF w \in replaced \cup removed THEN Missing
                        ELSE IF w \in added
                          THEN node[CHOOSE d \in add : wd[d] = w]
                        ELSE kernel[w]]
        /\ closed' = closed \cup replaced \cup removed

(* ForceSync when cmake succeeds.                                         *)
ForceSync(p) ==
  /\ failed = "none"
  /\ LET c == LoadCommands(Listed(p))
     IN  /\ cache' = [cache EXCEPT ![p] = c]
         /\ flagged' = [flagged EXCEPT ![p] = {ModuleHome[d] : d \in Listed(p)}]
         /\ UpdateWatchDirs(p, c)
  /\ UNCHANGED << diskVars, events, failed >>

(* A command outside of the project makes ParseFileCommand throw after the *)
(* commands before it have been entered into the cleared cache; ForceSync  *)
(* catches the exception and does not reach UpdateWatchDirs.               *)
ForceSyncThrows(p) ==
  /\ failed = "none" /\ "outside" \in Faults
  /\ \E S \in SUBSET Listed(p) :
       /\ cache' = [cache EXCEPT ![p] = LoadCommands(S)]
       /\ flagged' = [flagged EXCEPT ![p] = {ModuleHome[d] : d \in S}]
  /\ UNCHANGED << diskVars, events, kernelVars, watchers, failed, closed >>

---------------------------------------------------------------------------
(* Events.                                                                 *)

(* HandleEntryCreate for a directory, with its two assertions; a directory *)
(* gets the module of its parent, and no watch.                            *)
HandleEntryCreate(p, d) ==
  LET module == GetModuleName(p, Parent(d))
  IN  /\ failed' = CASE module = NoPath -> "module"
                     [] module # NoPath /\ ~is_directory(d) -> "directory"
                     [] OTHER -> "none"
      /\ cache' = IF failed' = "none" THEN [cache EXCEPT ![p][d] = module]
                                      ELSE cache
      /\ UNCHANGED << kernelVars, flagged, watchers, closed >>

\* Mutant: the watches below a deleted directory are not removed from the
\* kernel.
RemoveWatches_NoRm(gone) == UNCHANGED << kernel, closed >>

RemoveWatches(gone) ==
  /\ kernel' = [w \in Watches |-> IF w \in gone THEN Missing ELSE kernel[w]]
  /\ closed' = closed \cup gone

(* HandleEntryDeleted for a directory.                                    *)
HandleEntryDeleted(p, d) ==
  LET gone == {w \in Watches : watchers[p][w] # NoPath
                                 /\ path_has_prefix(watchers[p][w], d)}
  IN  /\ IF is_directory(d) \/ Entry(p, d) = NoPath
           THEN UNCHANGED << cache, flagged, watchers, kernel, closed >>
           ELSE /\ cache' = [cache EXCEPT ![p] = WithoutDir(@, d)]
                /\ flagged' = IF cache[p][d] = d
                                THEN [flagged EXCEPT ![p] = @ \ {d}]
                                ELSE flagged
                /\ watchers' = [watchers EXCEPT ![p] =
                                  [w \in Watches |-> IF w \in gone THEN NoPath
                                                     ELSE @[w]]]
                /\ RemoveWatches(gone)
      /\ UNCHANGED << lastWd, failed >>

(* GetProjectByWatcher: the first project, by name, that has the watch.   *)
Owners(w) == {p \in Projects : watchers[p][w] # NoPath}
GetProjectByWatcher(w) ==
  CHOOSE p \in Owners(w) : \A q \in Owners(w) : p <= q

(* An event without a name (IN_DELETE_SELF) is skipped, and one whose      *)
(* watch has no watcher any more too.                                      *)
Skipped(ev) == ev.kind = "delete_self" \/ Owners(ev.wd) = {}

HandleInotifyEvent ==
  /\ failed = "none" /\ events # << >>
  /\ events' = Tail(events)
  /\ LET ev == Head(events)
         p  == GetProjectByWatcher(ev.wd)
         d  == Append(watchers[p][ev.wd], ev.name)
     IN  \/ /\ Skipped(ev)
            /\ UNCHANGED << kernelVars, cache, flagged, watchers, failed, closed >>
         \/ /\ ~Skipped(ev) /\ ev.kind = "create"
            /\ HandleEntryCreate(p, d)
         \/ /\ ~Skipped(ev) /\ ev.kind = "delete"
            /\ HandleEntryDeleted(p, d)
  /\ UNCHANGED diskVars

---------------------------------------------------------------------------
Next ==
  \/ \E d \in Dirs : Mkdir(d) \/ Rmdir(d)
  \/ \E d, e \in Dirs : Rename(d, e)
  \/ \E p \in Projects : ForceSync(p) \/ ForceSyncThrows(p)
  \/ HandleInotifyEvent

(* The timers of the projects fire again and again, and the main thread    *)
(* reads every event.                                                      *)
Fairness ==
  /\ \A p \in Projects : WF_vars(ForceSync(p))
  /\ WF_vars(HandleInotifyEvent)

Spec == Init /\ [][Next]_vars /\ Fairness

---------------------------------------------------------------------------
(* Properties.                                                             *)

(* A directory that has a module has compiler flags: BuildFile never parses *)
(* a file of a module without flags, whatever part of the compile commands  *)
(* was read and whichever directories were deleted.                         *)
FlagsForModules ==
  \A p \in Projects, d \in Paths :
    cache[p][d] # NoPath => cache[p][d] \in flagged[p]

(* No watch of the kernel is left behind without a watcher that could      *)
(* remove it, and no watcher holds a number that was never given out.      *)
NoOrphanWatches ==
  \A w \in Watches :
    /\ kernel[w] # Missing => Owners(w) # {}
    /\ Owners(w) # {} => w <= lastWd

(* A project has at most one watcher for a path, which RemoveFileWatch     *)
(* relies on: it erases the first that it finds.                           *)
OneWatcherPerPath ==
  \A p \in Projects, v, w \in Watches :
    watchers[p][v] = watchers[p][w] /\ watchers[p][v] # NoPath => v = w

(* The watch of a path of a project is on the directory that is there.    *)
Watched(p, d) ==
  \E w \in Watches :
    watchers[p][w] = d /\ kernel[w] = node[d] /\ node[d] # Missing

(* A watcher whose directory was replaced or whose watch another project   *)
(* removed, and a directory that is watched under its former path.         *)
Stale(p, d) ==
  \/ d \in WatchedPaths(p) /\ ~Watched(p, d)
  \/ \E w \in Watches : /\ watchers[p][w] \notin {NoPath, d}
                         /\ kernel[w] = node[d]

(* After a ForceSync of a project, every directory below its home that has *)
(* a module is watched, and nothing else is, except what was stale before. *)
SyncWatches ==
  [][\A p \in Projects : ForceSync(p) =>
       \A d \in Dirs :
         IF d \in GetWatchDirs(p, cache'[p])
           THEN Watched(p, d)' \/ Stale(p, d)
           ELSE d \notin WatchedPaths(p)']_vars

(* The same without the exception.                                        *)
SyncWatchesAll ==
  [][\A p \in Projects : ForceSync(p) =>
       \A d \in GetWatchDirs(p, cache'[p]) : Watched(p, d)']_vars

(* A directory that stays deleted is forgotten by the cache and by the     *)
(* watchers, although its own event is skipped.                            *)
DeletedDirsForgotten ==
  \A p \in Projects, d \in Dirs :
    [](failed = "none") /\ <>[](node[d] = Missing) =>
      <>[](cache[p][d] = NoPath /\ d \notin WatchedPaths(p))

(* The assertions of HandleEntryCreate and AddDirToModule hold.           *)
ParentHasModule   == failed # "module"
CreatedDirIsThere == failed # "directory"

(* A directory below a module keeps the module that it has inherited as    *)
(* long as its parent keeps its own.                                       *)
ModuleIsInherited ==
  [][\A p \in Projects, d \in Dirs :
       /\ cache[p][d] # NoPath /\ is_directory(d)'
       /\ Parent(d) \in Dirs /\ is_directory(Parent(d))'
       /\ cache'[p][Parent(d)] # NoPath
       => cache'[p][d] # NoPath]_vars

(* Removing a watch closes no descriptor that the server uses.            *)
DescriptorsStayOpen == closed \cap OpenFds = {}
=============================================================================
