# symdb in TLA+

symdb is a server that indexes the C++ sources of CMake projects with libclang
and answers "where is this symbol defined?" for an editor.  This directory
holds TLA+ modules of its server, the TLC configurations that check them on
small instances, and theorems about them that TLAPS checks for every instance.
Paths below are those of the repository; `Project.cpp` and its neighbours are in
`src/server/`.

- [1. The system](#1-the-system)
- [2. Modules and how they correspond to the code](#2-modules-and-how-they-correspond-to-the-code)
- [3. Runs](#3-runs)
- [4. What the checks found](#4-what-the-checks-found)
- [5. Theorems](#5-theorems)
- [6. What is left out](#6-what-is-left-out)
- [7. Plan](#7-plan)

Run things from this directory: `tlc -config MCSymbolIndexDefs.cfg MCSymbolIndex`
checks a run, `tlapm SymbolIndexProofs.tla` the proofs.

## 1. The system

### Threads

One main thread runs `main_io_service_`: client sessions, inotify, two timers
per project, and the handlers that workers post to it.  Worker threads, one per
core, run `worker_io_service_`, whose only work is `Project::ClangParseFile`.
All state of a project belongs to the main thread; a worker reads the disk and
LevelDB, and posts its result back (`Server::PostToMain`).  So a handler of the
main thread is atomic with respect to every other, and the only interleavings
are those of the workers' reads with everything else, and of the order in which
handlers are served.

An exception that leaves a handler of the main thread leaves
`main_io_service_.run()` and ends the process.  The inotify handler, `ForceSync`,
and the calls of `BuildFile` are the only places that catch; posted handlers and
sessions do not.

### Components

| component | state | operations | what makes it correct |
|---|---|---|---|
| Symbol database of a project (`Project.cpp`, `DBInfo.proto`) | LevelDB: `file:info`, `file:symdef`, `symdef`, `file:symref`, `symref`, the list of sources | `WriteCompiledFile`, `DeleteUnexistFile`, `RebuildFile`, lookups | locations are current, one per module, found again by the records of their files; references likewise; an answer leads to the file |
| Parse pipeline of a project (`Project.cpp`, `Server.cpp`) | `abs_src_paths_`, `in_parsing_files_`, `modified_files_`, jobs in the two io_services | `Build`, `BuildFile`, `ClangParseFile`, `RemoveParsingFile`, `SmartSync`, `ForceSync`, inotify handlers | one job per file; no stale file is skipped; every edit is indexed in the end |
| Compiler flag cache (`CompilerFlagCache.cpp`) | directory to module, module to compiler flags | `Rebuild` (runs cmake), `AddDirToModule`, `TryRemoveDir`, `GetModuleName` | a module has flags; agrees with the directories that exist |
| Directory watchers (`ProjectFileWatcher`, `UpdateWatchDirs`) | inotify watches by number | add, remove, event of a directory | each directory of a module is watched, once, and by its project; no watch is left behind |
| Project life cycle | home path, configuration, open LevelDB, the records of the project | `CreateFromDatabase`, `CreateFromConfigFile`, `CreateFromConfig`, `ChangeHome` | a registered project works on the home that its database and the configuration name; records survive failures |
| Server registry and threads (`Server.cpp`, `Main.cpp`) | `projects_`, the listener, the threads | start of the daemon, `LoadConfiguredProject`, `GetProject`, `CreateProject` | one server at a time; the server that listens has the databases; one project per name |
| Server session and protocol (`server/Session.cpp`, `NetDefine.h`) | outstanding operations, message buffer, `total_size` | `read_header`, `read_body`, `handle_message`, `do_write` | frames stay aligned; an answer is that of its own request; sessions end |
| Client session and shell (`client/`) | the connection of a command | `Session::send_and_recv`, shell commands | a command ends whatever the server does |
| Symbol collection with libclang (`TranslationUnit.cpp`, `ClangUtils.cpp`) | a parse result | `CollectSymbols` | reports each definition and reference of the file |
| Configuration, digest, utilities and logging | constants, files | `Config::Init`, `SetBuildPath`, `absolute_path`, `path_has_prefix` | an entry that cannot be served does not stop the others |

### What is hard in this code

*Three reads of one file.*  A job takes the mtime, then the digest, then lets
libclang read the file, with an editor on the other side; what it records is a
mixture (`Project.cpp:402-443`).

*Markers.*  `in_parsing_files_` keeps two jobs of a file apart.  It is set when
the job is posted, erased when its end is handled, erased too by a delete event
while the job runs, and forgotten when the job's first stat throws.  A
`SmartSync` that meets a marker skips the file and forgets the edit.

*Lost news.*  inotify drops events when its queue is full, is not told of files
moved away, and is silent while the server is down.  Only `ForceSync`, five
times a day, sees what was missed.

*Partial batches.*  The destructor of `BatchWriter` writes what was collected,
also when an exception unwinds through it; in the default build
(`std::filesystem::canonical`) every relative path of a deleted file throws.

*Reads that miss the batch.*  Records are read from LevelDB and rewritten whole;
a batch that touches one record twice loses the first update.

*Module, not file.*  A symbol keeps one location per module.  Replacing and
removing compare modules, and before the flag cache is loaded all modules are "".

*Half-made caches and watches.*  `CompilerFlagCache::Rebuild` clears the maps
before it reads the compile commands, and a command outside of the project makes
it throw half-way (`CompilerFlagCache.cpp:171`).  Watches have numbers of the
kernel, watchers have paths, and a directory that is made again, renamed, or
watched by two projects makes the two disagree (`Project.cpp:88`, `:234`).  Its
events may come when it is gone.

*Half-made projects.*  A project has a directory, a record of its home and a
record under its own name, written at three points, with a run of cmake in
between and a process that may be killed at any of them.

*Starts that overlap.*  The start of the daemon tests for a server, unlinks the
socket, binds, listens and opens databases; nothing makes that one step.

*Frames without a boundary.*  Two reads are outstanding on a connection once an
answer has been written, the length of a message has 16 bits, and a handler that
throws answers while it ends the process.

*Two forms of one path.*  A location is stored relative to the home or absolute,
depending on how it came to be written, and the home can change.

The list, line by line, with the properties that watch each point, is under
"hazards" in `PROJECT.json`.

## 2. Modules and how they correspond to the code

```
SymbolStore          the database and its batches, as operators
   |-- SymbolIndex       the state machine of the database alone
   |      `-- SymbolIndexProofs (with SymbolStoreProofs)
   `-- ParsePipeline     disk, inotify, timers, markers, jobs
          |-- Index == INSTANCE SymbolIndex     (refinement)
          `-- ParsePipelineProofs (with SymbolStoreProofs, and with
                Proved == INSTANCE SymbolIndexProofs)
StoredPaths          one symbol, with the form of its locations
   `-- StoredPathsProofs
DirWatch             directories, flag caches, inotify watches
   `-- DirWatchProofs
Registry             configuration, projects, their databases
   `-- RegistryProofs
Startup              processes that start, serve and are killed
   `-- StartupProofs
Session              client, connection, Session of the server
   `-- SessionProofs
MCSymbolIndex, MCParsePipeline, MCStoredPaths, MCDirWatch, MCRegistry
                     instances for TLC; Startup and Session need none
```

The modules meet where the code does.  What a request does to the database or to
the jobs is in `SymbolIndex` and `ParsePipeline`; `Session` knows of a handler only
that it fills a response, throws or crashes, which is what the others say of it.
`Exit` in `Session`, `Crash` in `ParsePipeline`, `Stop` in `Registry` and `Killed`
in `Startup` are one event seen from four places.  The Boolean flag cache of
`ParsePipeline` is a cache of `DirWatch` that a `ForceSync` has filled.

### SymbolStore

No state: a database is a record, and each function of `Project.cpp` that
contributes to a batch is an operator from a database to a database, or to an
`Outcome` when an exception may cut it short.  Names are those of the functions.

* An absent key and an empty message are one value: nothing in the code tells
  them apart, but for the paths that are resolved on the way, which the actions
  account for.
* Symbols and modules are numbers in the order of `std::map`, since the loops
  over them stop at the first exception and, in `WriteFileReferences`, the last
  put of a record wins (`Max`).
* `WriteFileDefinitions` computes three sets (gone, moved, fresh) as the code
  does, the first symbol of each loop whose scan throws, and what the batch
  contains at that point.  `WriteFileReferences` cannot throw.
* `absolute_path_throws` is the difference between the two builds.  The module
  of a stored location is asked for in the order in which the code scans, up to
  the first match, so `ScanThrows` looks only at that prefix.
* A location is stored with the relative path when the symbol is new to its file
  and with the absolute path when it moved within the file (`abs`); only the
  former can throw.

### SymbolIndex

The database as the main thread uses it, in any order, with files that come and
go and a process that stops and restarts: one action per handler.  It says
nothing of when a handler is called, and is the abstract specification that the
pipeline implements.  `written` and `torn` are history variables: the last parse
result written in full for each file, and whether an exception has ever
committed part of one.

### ParsePipeline

| action | code |
|---|---|
| `EditFile`, `MoveInto`, `RemoveFile`, `MoveAway` | the environment: the disk and what inotify queues for it |
| `HandleInotifyEvent` | `Server::HandleInotifyReadable`, `HandleInotifyEvent`, `Project::HandleEntryCreate`, `HandleFileModified`, `HandleEntryDeleted`, `DeleteUnexistFile` |
| `SmartSync`, `ForceSync`, `ForceSyncFails` | the two timers; a change of `CMakeLists.txt` is a `ForceSync` too |
| `UpdateProject`, `RebuildFile`, `RebuildMissingFile`, `LookupFails` | client requests that change something |
| `StatFile`, `LoadFileInfo`, `DigestFile`, `ParseFile` | `ClangParseFile`, one step per read |
| `WriteParsed`, `RemoveParsingFile` | the two handlers that a job posts |
| `Start`, `Crash` | `LoadConfiguredProject`, the end of the process |

`jobs[f]` is a sequence because nothing but the marker forbids a second job.
The queues of the io_services are not modelled as queues: a worker can be
delayed arbitrarily, so every order of the posts of different jobs is possible
anyhow, and the two posts of one job are ordered by its stage.  `disowned` is a
history variable: the files whose marker a delete event took while a job was in
flight.

The clock has the resolution of the recorded mtimes, a second, and moves with
every write to the disk, unless the fault `"same_second"` is on.

`RefinesIndex` states that the pipeline implements `SymbolIndex`, with `written`
computed from the history of what was compiled; every step of the pipeline that
touches the database is one of its handlers, with its preconditions.

### DirWatch

The kernel gives a directory a node, and a watch a number; the program has paths
and `watchers_`, a map from the number to the path.  Nodes are what makes a
directory that was deleted and made again differ from what it was.

| action | code |
|---|---|
| `Mkdir`, `Rmdir`, `Rename` | the environment, with the events that the kernel queues: `IN_CREATE` and `IN_DELETE` with a name for the watch of the parent, `IN_DELETE_SELF` without one for its own; `IN_MOVED_FROM` is not in the mask |
| `ForceSync` | `Project::ForceSync`, `CompilerFlagCache::Rebuild`, `UpdateWatchDirs`, `GetWatchDirs`, the assignment to `watchers_[wd]` with the destructor it runs |
| `ForceSyncThrows` | the same when `ParseFileCommand` throws: the cache holds the commands before that, and the watches stay as they were |
| `HandleInotifyEvent` | `Server::HandleInotifyEvent`, `GetProjectByWatcher`, `HandleEntryCreate` with `AddDirToModule` and their two assertions, `HandleEntryDeleted` with `TryRemoveDir` and the removal of the watches below |

`path_has_prefix` is modelled as the comparison of strings that it is, with
`NamePrefix` saying which names extend which.  `closed` is a history variable: the
numbers that `~ProjectFileWatcher` passes to `close` as if they were descriptors.

### Registry

| action | code |
|---|---|
| `Start` | `Config::Init` with `ProjectConfig`, `SetBuildPath`, `SetCmakeFile` |
| `LoadConfiguredProject`, `LoadSync`, `ChangeHome`, `LoadingDone` | `Server::LoadConfiguredProject`, `Project::CreateFromConfig`, `LoadProjectInfo`, `ChangeHome`, `ChangeHomeNoCheck`, with cmake running between the steps |
| `ForceSyncTimer` | the timer of a registered project, as far as it writes the project's record |
| `CreateProject`, `GetProject` | `Session::create_project`, `Server::CreateProject`, `CreateFromConfigFile`; `Server::GetProject`, `CreateFromDatabase` |
| `Stop`, `HomeRemoved`, `HomeRestored`, `Reconfigure` | the end of the process; the disk; the administrator |

A database is absent, broken (the directory that LevelDB makes before it finds
nothing to open) or open, with the home it records and whether the record under
the project's name was written.

### Startup

Processes, the path of the socket and the lock of the databases.  Each process
goes through `main`: `IsServerRunning`, `unlink`, the constructor of `Listener`
(`Bind`, `Listen`), `LoadConfiguredProject`, the loop.  `Killed` leaves the socket
behind and releases the lock.  `Overlapping` says whether a process may start
while another one is between the test and the listening socket.

### StoredPaths

One symbol, with the list of its locations as it is stored: each relative or
under one of the homes.  `Parse` and `ParseWithout` are `WriteFileDefinitions`,
`QueryAll` and `QueryFrom` the two lookups, `ChangeHome` the move of the tree.
`SymbolIndex` has the same list without the form of the path, and adds batches,
exceptions and deletions, which are left out here.

### Session

One connection per command, as in the client.  A stream is a sequence of units, a
header (whose size wraps modulo `LengthModulus`, 2^16 in the code), a
`MessageHead` and a body.  A `Session` has its outstanding reads in the order in
which they were started, the header and the response, and lives as long as an
operation is outstanding on it, as `shared_from_this` makes it.  The client's
calls block.

| action | code |
|---|---|
| `Connect`, `ConnectFails`, `Send`, `Receive`, `Finish`, `Kill` | `client/Session.cpp`, `CommandDelegator` |
| `Accept`, `HandleReadHeader`, `HandleReadBody`, `HandleMessage` | `Listener::do_accept`, `server/Session.cpp` with `ResponseGuard` |
| `WriteSome`, `WriteDone` | `do_write`: `async_write` in pieces, its completion |
| `Start`, `Exit` | the server process |

## 3. Runs

Passing runs:

| run | instance | properties |
|---|---|---|
| `index_defs` | files a1, a2 (module 1), b (module 2), one symbol, two lines; boost build | `TypeOK`, `OneLocationPerModule`, `LocationsSound`, `WriteThrough`, `DeletionClears` |
| `index_std` | files a1 and b, two symbols that refer to each other through a header; std build, where handlers throw | `BackLinks`, `LocationsSound`, `ReferencesSound` |
| `pipeline_boost` | one file, three contents (one does not parse) that come back, two seconds, all of delete, move away, cmake failure, crash, bad request | `TypeOK`, `SingleFlight`, `NoFalseFresh`, `FreshAnswers`, `RefinesIndex` |
| `pipeline_std` | two files of two modules that are removed and moved while their jobs run, crashes; std build | `SingleFlight`, `RefinesIndex` |
| `pipeline_live` | two files, three contents, three seconds, one file is created while the server runs; a queue of one event | `NoFalseFresh`, `EventuallyUpToDate` |
| `dirs` | two projects, one in a module of the other; four directories that are deleted, made again and renamed; reloads that throw; a queue of one event | `TypeOK`, `NoOrphanWatches`, `OneWatcherPerPath`, `SyncWatches` |
| `dirs_live` | one project; the home of a module is made again with a subdirectory; four events queued | `FlagsForModules`, `SyncWatches`, `DeletedDirsForgotten` |
| `registry` | two names, two homes, five configurations that swap homes, name a project twice or leave it out; every fault of the server's life time | `TypeOK`, `HomesAgree`, `RecordsKept` |
| `startup` | six processes | `TypeOK`, `OneServer`, `ServerIsReachable`, `StartSucceeds` |
| `paths` | three files in two modules, two homes, three moves | `TypeOK`, `AnswerFollowsParse`, `UnmovedAnswers` |
| `session` | one client, two commands, two starts of the server, handlers that finish, throw and crash, bodies below and above the wrap of the length | `TypeOK`, `FramesAligned`, `AnswersMatch`, `CommandsEnd`, `SessionsEnd` |

What they show:

* `OneLocationPerModule`: the scan of `AddSymbolLocation` finds the entry of its
  module whoever wrote it, although modules are unknown before a `ForceSync`.
* `LocationsSound`: no lookup answers with a line that the last parse of that
  file did not report.  `WriteFileDefinitions` replaces only what differs from
  *one* stored location of *this* caller's module, so this needs all three
  branches to agree.
* `BackLinks`: each location is listed by its file, or no later deletion would
  find it.  It is what makes `LocationsSound` and `DeletionClears` inductive.
* `ReferencesSound`: a reference under a symbol is one that its file records.
* `WriteThrough`, `DeletionClears`: what one write or one deletion achieves,
  whatever was stored before.
* `SingleFlight`: at most one job per file, with its marker, except where a
  delete event took the marker away (`disowned`).
* `NoFalseFresh`: when the mtime check would skip a file, its present content is
  indexed.  This is not obvious: the mtime is taken first, the content last, and
  results may be written late.  It holds because the mtime recorded is never
  newer than the content that was parsed.
* `FreshAnswers`: when the mtime check would skip a file, a lookup that leads into
  it leads to a line on which its present content defines the symbol.  It joins
  the two halves: what was parsed (`NoFalseFresh`) and what a batch leaves in the
  database (`LocationsSound`), where a symbol is only rewritten when it seems to
  have moved and another file may have taken its entry.
* `EventuallyUpToDate`: after the last change of the disk every listed file is
  indexed with its content and stays so, although events are lost and
  `SmartSync` forgets files that have a marker.

* `NoOrphanWatches`: a watch of the kernel always has a watcher that can remove
  it, although a watcher may have lost its watch.  The assignment in
  `UpdateWatchDirs` and the destructor could break this in either direction.
* `OneWatcherPerPath`: `RemoveFileWatch` may stop at the first match.
* `SyncWatches`: after a `ForceSync` the directories of modules are watched and
  no other, but for what was `Stale` before: a directory that was replaced, or is
  watched under its former path, or lost its watch to another project.  The
  exception is exact: `SyncWatchesAll` without it fails (section 4).
* `FlagsForModules`: no file is parsed with the flags of a module that has none,
  whatever part of the commands was read.
* `DeletedDirsForgotten`: although the event of a directory itself is skipped, the
  event of its parent or the next `ForceSync` removes it.
* `HomesAgree`, `RecordsKept`: a project that is registered is what its database
  and the configuration say, and no failure of a start costs a synced project its
  records; these are what `CreateFromConfig`, which removes directories, could
  get wrong.
* `OneServer`, `ServerIsReachable`, `StartSucceeds`: starts that do not overlap
  give one server, that owns the socket and the databases, and a socket that a
  killed server left does not stop the next one.
* `AnswerFollowsParse`: a lookup from a file that was just parsed leads to it,
  whatever forms the other locations have.  `UnmovedAnswers`: before the first
  move every listed answer is under the home.
* `FramesAligned`: a read of a body meets the body that its header announced,
  although the completion of a write starts a second read.
* `AnswersMatch`: an answer whose length fits in 16 bits is whole and that of its
  own command, also when the handler threw and the write was cut by the end of
  the process.
* `CommandsEnd`, `SessionsEnd`: neither end hangs when the other one is killed.

Every property has a mutant in `PROJECT.json` (operators with a suffix in the
modules, under the comment "Mutant"): the code with a plausible bug, with which
TLC finds the property violated.

### Bounds

* Two modules plus "" and three files are enough for: two files of one module
  that compete for the entry of a symbol, and a file of another module that has
  its own.  Lists of locations reach every length that the invariant allows.
* Two lines tell a moved symbol from one that stayed.  `index_std` uses one line
  and two symbols instead: its question is what an exception between two symbols
  of a batch leaves behind.
* `MaxClock` bounds the number of writes to the disk.  The critical windows of a
  job are three.  Three seconds (`pipeline_live`) allow a write in two of them;
  with crashes, deletions, requests and contents that return, two seconds
  (`pipeline_boost`) are what TLC explores exhaustively.  `FreshIsIndexed`
  (section 5) is for any number.
* `QueueLimit` is 1 or 2: an overflow, and two different events in either order.
  The kernel merges an event with an identical last one, as here.
* `"same_second"` is used by no run.  With it `NoFalseFresh` and
  `EventuallyUpToDate` fail at once: a second write within the second of the
  recorded mtime is never seen.  That is a limitation that comes with mtimes in
  seconds, and both properties are stated for writes that do not coincide so.
* `"revert"` is not part of `pipeline_live`: if a file changes between digest and
  parse and then changes back, the recorded digest matches for ever while the
  symbols are those of the other content, and the file is not parsed again.
  `NoFalseFresh` holds all the same (`pipeline_boost`), because the mtime differs.
* There is no symmetry in these: symbols and modules are ordered, and files differ
  by module.
* `dirs`: a home, a module, a directory inside it and a sibling whose name extends
  that of the module; five watches allow each directory one and a second for one
  that is made again or shared by both projects; four nodes.  `dirs_live` has one
  project, and room for five nodes, eight watches and four events: the events of
  a whole subtree that is deleted and made again.  Only the module `s/m` and the
  directories in it are made again.
* `registry`: two projects that compete for two homes, and configurations in which
  the homes are swapped or named twice; nothing else bounds it.  The fault
  `"moves"` (homes that go while the server is down) is included in `"homes"`.
* `startup`: a process starts once, so six processes are up to six starts, with
  kills at every step.
* `paths`: two files that share an entry, and one of another module; two lines, so
  that a symbol can move or stay; three moves lead to the other home, back, and
  away again.
* `session`: the length wraps at 5, bodies have 0, 2, 4 and 6 units: below the
  wrap, exactly at it (with the `MessageHead` a length of 0) and above it.  The
  socket holds 3 units, so writes are cut into pieces and the process can end
  between them.  Connections share nothing but the process; `SessionTwo.cfg` is an
  instance with two clients, and finds nothing else.

`CHECK_DEADLOCK` is on, except in `session` and `dirs`, `dirs_live`.  In the first
the commands and starts are bounded, in the others directories and watches, and an
assertion ends the server: at the bounds the instances stop, and should.  In the
others some action is always enabled (a stopped server can be started, a running
one can serve a timer or a request).

### Fairness

`FairSpec` assumes weak fairness of `Start` (somebody keeps the server running),
`HandleInotifyEvent`, `SmartSync` and `ForceSync` (the io_service loop runs for
ever, each timer is armed again by its own handler, and a `ForceSync` that
succeeds is eventually possible), and of the steps of the jobs of each file (the
worker threads run for ever).  Nothing is assumed of the disk, of crashes, of
failures or of clients.

`DirWatch` assumes weak fairness of `ForceSync` of each project, for the same
reason, and of `HandleInotifyEvent`; `DeletedDirsForgotten` is about runs in which
no assertion ends the server.  `Session` assumes that the main thread serves each
operation that is ready (`ServerStep` of each connection) and that a blocking call
of the client returns when there is data or an error.  It assumes nothing of
`Connect`, `Kill`, `Start` or `Exit`, nor that the client times out:
`SO_RCVTIMEO` does not end a blocking read of asio, which polls and tries again
when the system call returns `EAGAIN`, and the shell blocks `SIGINT`.  The safety-only modules state no fairness.

## 4. What the checks found

Each of these configurations ends with a counterexample, which
`tlc -config X.cfg M` replays.  `MCParsePipelineDeleted` (the run
`pipeline_deleted`) is kept among the runs of the project; it is the one in which
the code says in so many words what it relies on.  The property states what the
quoted doc, comment, assertion or test of the code says, or what the function is
for.

| configuration | property | what the code does |
|---|---|---|
| `MCSymbolIndexMoved` | `DefinitionsComplete` | A file that no longer defines a symbol deletes the whole `symdef` record, with locations of other files (`Project.cpp:499`).  A function that moves from one file to another, the new one being parsed first, is lost. |
| `MCSymbolIndexRebuild` | `ReferencesComplete` | `DeleteFileReferredSymbolInfo` computes `file_symbol_key` and does not delete it (`Project.cpp:1165`).  The parse after a rebuild compares with the old record, finds no change and does not write the references again. |
| `MCSymbolIndexTwoOrigins` | `ReferencesSound` | A symbol whose declarations are in two modules has its `symref` record put twice in a batch, each time from the record on disk (`Project.cpp:625`); the last put wins and a reference that is gone remains. |
| `MCParsePipelineLeak` | `EventuallyUpToDate` | The early return of `ClangParseFile` (`Project.cpp:406`) comes before the guard that erases the marker.  A file that is missing just at the stat (an editor that removes and writes) is never built again until a restart or a delete event. |
| `MCParsePipelineDeleted` | `DeletedFileIsRemoved` | A parse result handled after the delete event puts the records of the file back (`Project.cpp:464`); the comment at `Project.cpp:1016` relies on the opposite. |
| `MCParsePipelineExit` | `DeletionIsTolerated` | In the default build `RemoveParsingFile` resolves the path first (`Project.cpp:651`), which throws for a deleted file and ends the server; the branch for "path already deleted" (`:663`) is not reached. |
| `MCDirWatchStale` | `SyncWatchesAll` | `UpdateWatchDirs` compares paths only (`Project.cpp:234`).  A directory made again keeps its dead watcher; for one that was renamed `inotify_add_watch` returns the watch it has, and the assignment to `watchers_[wd]` destroys the old watcher and with it the new watch. |
| `MCDirWatchModule` | `ParentHasModule` | When `ParseFileCommand` throws, directories that are watched have no module; a mkdir in one of them fails the assertion at `Project.cpp:936`. |
| `MCDirWatchGone` | `CreatedDirIsThere` | The event of a new directory is handled when it is gone again, and the assertion at `CompilerFlagCache.cpp:338` fails. |
| `MCDirWatchInherit` | `ModuleIsInherited` | `Rebuild` enters only directories that a command names (`CompilerFlagCache.cpp:172`), so an inherited module (`CompilerFlagCache.h:29`) is lost with the next `ForceSync`. |
| `MCDirWatchFds` | `DescriptorsStayOpen` | `~ProjectFileWatcher` (`Project.cpp:97`) closes its watch number as if it were a descriptor: the log, the listening socket or a connection goes with the watcher of the same number. |
| `MCRegistryQuery` | `ConfiguredIsRegistered` | `GetProject` opens the database of any name a client sends (`Server.cpp:71`).  LevelDB leaves a directory, which `CreateFromConfig` later takes for a database, at every start. |
| `MCRegistryCmake` | `ConfiguredIsRegistered` | A project whose first cmake run failed has a home record and no project record.  The next start removes its directory and opens it again while `symbol_db_` still holds the lock (`Project.cpp:156`). |
| `MCRegistryMoved` | `ConfiguredIsRegistered` | `LoadProjectInfo` throws when the recorded home is gone (`Project.cpp:694`), before the configured one is looked at. |
| `MCRegistryCreate` | `CreateOk` | `CreateProject` logs the exception and returns a null project (`Server.cpp:96`), at which the session does not look: the client prints "ok". |
| `MCRegistryCrash` | `ServerSurvives` | `CreateFromConfigFile` calls `ChangeHome` before `config_` is set (`Project.cpp:136`), and `ChangeHomeNoCheck` dereferences it. |
| `MCRegistryBadEntry` | `BadEntryIsSkipped` | `Config::Init` is called outside of the try block (`Main.cpp:55`); one entry with a missing home ends the process. |
| `MCRegistryBuildDir` | `DefaultBuildDirWorks` | A relative build path is created under the working directory and then resolved under the home (`Config.cpp:53`), where it need not exist. |
| `StartupRace` (module `Startup`) | `OneServer` | Two starts pass the same test for a running server (`Main.cpp:65`); the unlink of the second takes the path from the first, which goes on with the databases. |
| `SessionLong` (module `Session`) | `AnswersComplete` | The length of a response wraps at 64 KiB (`server/Session.cpp:81`), and what is cut off may parse as a shorter list. |
| `SessionOk` (module `Session`) | `OkMeansDone` | `~ResponseGuard` answers also while an exception ends the server (`server/Session.cpp:20`); the client prints "ok". |
| `MCStoredPathsMoved` | `AnswersUnderHome` | A symbol whose line changed is stored with an absolute path (`Project.cpp:504`), which a change of the home does not carry along. |
| `MCStoredPathsRelative` | `AnswersAbsolute` | The answer for a file without a location in its module is built from the record as it is (`Project.cpp:814`), mostly relative; `Location.h:77` says "The full, absolute path". |

The two assertions of `DirWatch` are those of a debug build; with `NDEBUG` the
directory is entered without a module, or as if it existed.

`ReferencesSound` is checked twice: it holds when each symbol has one origin
(`index_std`) and not when it has two.

## 5. Theorems

`SymbolIndexProofs` proves, for every set of files, symbols, modules and lines,
for both builds, and for batches cut short anywhere:

| theorem | states |
|---|---|
| `TypeCorrect` | `Spec => []TypeOK` |
| `OneLocation` | `Spec => []OneLocationPerModule` |
| `LocationsAreListed` | `Spec => []BackLinks` |
| `LocationsAreSound` | `Spec => []LocationsSound` |
| `ReferencesAreSound` | `OneOrigin => (Spec => []ReferencesSound)` |
| `WritesThrough` | `Spec => WriteThrough` |
| `DeletionIsClean` | `Spec => DeletionClears` |

The assumptions are `StoreAssumption` and `IndexAssumption` (symbols, modules and
lines are numbers, every source file has a module, parse results are well
typed), which TLC evaluates in the runs.

*The argument.*  The invariants are not inductive one by one.
`IndexInvariant == TypeOK /\ OneLocationPerModule /\ BackLinks /\ LocationsSound`
is:

* `LocationsSound` needs `BackLinks`: a file that drops a symbol looks for it in
  its own `file:symdef` record, so a location that was not listed there would
  survive with an old line.
* it also needs `OneLocationPerModule`: a symbol that stayed in its file is
  compared with the first location of the module; if there were a second, the
  comparison would say nothing of it.
* `BackLinks` needs nothing of the others but types, but needs `torn`: the batch
  that an exception cuts between the loops has the locations and not the record.
* `OneLocationPerModule` holds through torn batches, and this is the reason why
  it is not weakened by `torn`.  While the flag cache is not loaded nothing is
  written, and deletions only remove.

*References.*  `OneOrigin` says that the declarations of a symbol to which parse
results refer lie in one module.  It is a condition on the constants, true where a
symbol is declared in one header, and needed: `MCSymbolIndexTwoOrigins` is the
counterexample without it.  `ReferencesAgree` strengthens `ReferencesSound` by what
`OneOrigin` gives: a file records references to a symbol only under the module of
its declaration, so that the two loops of `WriteFileReferences` never put one
`symref` record twice in a batch.  It does not depend on `torn`, because
`WriteFileReferences` writes all of its records or none.

`SymbolStoreProofs` has the lemmas on which this rests, as facts about one
batch: what `AddSymbolLocation` and `RemoveSymbolLocation` do to a list
(`Min` of the matching indices is a member and the first), that each half of
`WriteCompiledFile` and `DeleteFileRecords` keeps the shape of a database, which
cases a symbol's new list can come from (`CompiledWritten`, `RecordsDeleted`).
The step lemmas of `SymbolIndexProofs` have one step per action of `Next`.

`ParsePipelineProofs` proves, for every set of files, contents, listed files and
faults, every number of seconds and every queue length:

| theorem | states |
|---|---|
| `PipelineTypeCorrect` | `Spec => []TypeOK` |
| `OneJobPerFile` | `Spec => []SingleFlight` |
| `FreshIsIndexed` | `"same_second" \notin Faults` implies `Spec => []NoFalseFresh` |
| `PipelineImplementsIndex` | `Spec => RefinesIndex` |
| `PipelineIndexIsSound` | `Spec => [](Index!OneLocationPerModule /\ Index!BackLinks /\ Index!LocationsSound)` |
| `PipelineWritesThrough` | `Spec => Index!WriteThrough /\ Index!DeletionClears` |
| `FreshFilesAnswer` | `"same_second" \notin Faults` implies `Spec => []FreshAnswers` |

The assumptions are `StoreAssumption` and `PipelineAssumption`; `FreshIsIndexed` and
`FreshFilesAnswer` have the one above in addition, and the former is false without
it.

* `TypeOK` carries what a stage says of a job: past the stat it has an mtime,
  past the digest a digest, past libclang a content.  Without it the record that
  `WriteParsed` stores would not be a `FileInfos`.
* `SingleFlight` is not inductive: a start sets the markers from nothing, so it
  must be known that no job outlived the process (`NoJobsWhenDown`); together
  they are `FlightInvariant`.
* `NoFalseFresh` follows from `FreshInvariant`: nothing recorded, in the
  database or in a job, is newer than the clock, and a parsed job whose mtime is
  still that of its file has read what is there now.  So the next write to the
  file gives it an mtime that no record and no job has, and a late result can
  only record an mtime that is already past.
* For the refinement each handler must meet the preconditions of its counterpart
  in `SymbolIndex`.  `ReadyInvariant` adds to `FlightInvariant` that without a
  flag cache there are neither events nor jobs, and that a file that was parsed
  is still there unless files may vanish.  The proof then has one case per
  action: edits, timers and the reads of a job are stutters, a rename onto a new
  name is `CreateFile`, every unexpected exit is `Stop`, and the two batches are
  the two batches.

* `PipelineIndexIsSound` and `PipelineWritesThrough` carry the theorems of `SymbolIndexProofs` over: `Proved`
  instantiates that module under the substitution of `Index`, `IndexConstants` shows
  that `PipelineAssumption` implies what is assumed there, and `SameOperators` and
  `SameNext` that the two instances are one specification.
* `FreshFilesAnswer` combines `NoFalseFresh` with `Index!LocationsSound`.

`DirWatchProofs` proves, for every set of names and tree of directories, any
number of projects, whatever way their homes are nested, and every bound on nodes,
watches and events, from `DirWatchAssumption`:

| theorem | states |
|---|---|
| `DirWatchTypeCorrect` | `Spec => []TypeOK` |
| `ModulesHaveFlags` | `Spec => []FlagsForModules` |
| `NoWatchIsOrphaned` | `Spec => []NoOrphanWatches` |
| `PathsWatchedOnce` | `Spec => []OneWatcherPerPath` |
| `SyncsWatches` | `Spec => SyncWatches` |

* `FlagsForModules` is inductive with the types of the cache: `LoadCommands` enters
  a module and its flags together, for any subset of the commands, and
  `TryRemoveDir` drops all directories of a module with its flags.
* The watches need `WatchInv`: types, `NoOrphanWatches` and `OneWatcherPerPath`
  together.  `UpdateWatches` is the lemma for `UpdateWatchDirs`, the hard step: a
  watch number that the kernel returns is a new one or has a watcher already, in
  which case assignment and destructor leave neither the watch nor the old path.
* `SyncsWatches` needs `NodesDistinct` in addition: two paths that exist lead to two
  nodes, and a node is not given out twice.  Otherwise the watch that the kernel
  returns for a new directory could be the good watch of another one.  The lemma
  `UpdateSyncs` goes through the directories: one that is added has its watch, or
  that watch was under another path before, which is `Stale`; one that had a good
  watch keeps it, because no directory that is added is on its node.

`RegistryProofs`, for every set of names, homes and configurations and every set of
faults, from `RegistryAssumption`:

| theorem | states |
|---|---|
| `RegistryTypeCorrect` | `Spec => []TypeOK` |
| `RegisteredHomesAgree` | `Spec => []HomesAgree` |
| `CompleteIsKept` | `Spec => RecordsKept` |
| `UndisturbedIsRegistered` | `Faults \subseteq {"fresh"}` implies `Spec => []ConfiguredIsRegistered` |

* `IInv` adds to `HomesAgree` what is true while a project is loaded: what is left
  to load is in the configuration (`FromConfig`), the project in hand is not
  registered, its database is open and the home of the load is the recorded one
  (`LoadingHome`).  For `RecordsKept`: a database that is not open has no records
  (`NoRecords`), so what is created anew never had any.
* `UndisturbedIsRegistered` says when every configured project is served: no load is
  killed, cmake succeeds, homes stay and no request names a project that is not
  registered, with any configurations and restarts.  Its assumption is as weak as it
  can be in terms of faults: with any one of the other six TLC finds a
  counterexample (section 4 has three; `"kill"`, `"homes"` and `"creates"`
  behave alike).  `Orderly` adds to `IInv` that no database but that of the project
  in hand is half-made (`WholeDatabases`), that this one is complete when its home
  was read from it (`LoadIsWhole`), and that a configured project is either still
  to be loaded or registered (`NothingMissed`).

`StartupProofs`, for every set of processes, from `StartupAssumption`:

| theorem | states |
|---|---|
| `StartupTypeCorrect` | `Spec => []TypeOK` |
| `StartsAreExclusive` | `~Overlapping => (Spec => []OneServer)` |
| `ServersAreReachable` | `~Overlapping => (Spec => []ServerIsReachable)` |
| `StartsSucceed` | `~Overlapping => (Spec => StartSucceeds)` |

* The hypothesis is needed: `StartupRace.cfg` is the counterexample without it.
  `IInv` says that one process at a time is between test and listening socket
  (`OneStart`), that past the test no server listens (`Alone`), that whoever has
  bound owns the path (`Owned`), which is free before (`Free`), and that a server
  has the lock (`Locked`).

`StoredPathsProofs`, for every set of homes, files and modules, any number of lines
and moves, from `StoredPathsAssumption`:

| theorem | states |
|---|---|
| `StoredPathsTypeCorrect` | `Spec => []TypeOK` |
| `LookupFollowsParse` | `Spec => AnswerFollowsParse` |
| `HomeAnswers` | `Spec => []UnmovedAnswers` |

* The lemmas are about the first location of a module (a least index exists, and
  after an add it is the one that was added); `AtHome`, that before a move all
  locations are relative or under the present home, carries `UnmovedAnswers`.

`SessionProofs`, for every set of clients and bodies, every number of commands and
starts, every length of the socket and every modulus of the length, from
`SessionAssumption`:

| theorem | states |
|---|---|
| `TypeCorrect` | `Spec => []TypeOK` |
| `FramesStayAligned` | `Spec => []FramesAligned` |
| `AnswersAreMatched` | `Spec => []AnswersMatch` |

* Both properties are about the two ends of a connection, and neither is inductive:
  the invariant has to say where every unit of a request and of a response is.
  `IInv` is `TypeOK`, `ClientOwns` (a client is at a connection of its own that no
  command has used before), `ReplyRead` (what a client has read of an answer fits
  what it does next) and `Sound(k)` of each connection `k`.
* `Sound(k)` has four parts.  `Requested(k)`: what the `Session` has not read of the
  request is the whole of it, its body, or nothing, which decides the reads that are
  outstanding; what is under way begins it, and is all of it that the client has
  sent.  So a request is handled at most once, and the header that a second read
  waits for never comes.  An unanswered `k` is `Silent(k)`: nothing is written to it.
  `Delivered(k)`: what the client has read, what is under way and what the `Session`
  has still to write make up the frame of the response.  `Matched(k)`: a command that
  ended well printed this response.
* `FramesAligned` follows from `Requested`, `AnswersMatch` from `Matched`.  The case
  in which the length of the answer wraps is in the invariant too, where `Matched`
  promises nothing of it.

*Only model-checked*: liveness (`EventuallyUpToDate`, `DeletedDirsForgotten`,
`CommandsEnd`, `SessionsEnd`), which is out of TLAPS's reach: it rests on fairness and
so on `ENABLED`.  Every other property of the passing runs is a theorem.

## 6. What is left out

Parts of the system:

* `src/boost_parts` and the other vendored libraries, by far the most of the
  repository's lines: third-party code.  What the program uses of it (asio,
  filesystem) is in the models as the program uses it.  LevelDB, inotify and the
  file system are external in the same way.
* libclang: a parse result is a function of the content of the file.  Which cursors
  `CollectSymbols` keeps is decided by what libclang says of them.
* Which words of a compile command are kept (`PruneCompilerFlags`), the search for
  system include directories, the exclude patterns: they choose constants of the
  models (flags, sources), not states.
* The times of day at which the timers fire: a timer may fire at any time.
* Completion, history and the command tree of the shell: terminal input and output.
* The rounds of MD5: a digest has no collisions.  The digest of a file that cannot
  be opened is arbitrary, as the code leaves it.
* Logging: no effect on the state.

Simplifications:

* In `ParsePipeline` the flag cache is loaded or it is not, modules are constant
  once it is, and directories do not come and go; `"cmake_fails"` stands for the
  failures before the cache is cleared.  The rest is in `DirWatch`, which has no
  files.
* In `SymbolIndex` and `ParsePipeline` the home is constant; the change of the home
  is in `Registry` (records) and `StoredPaths` (locations).
* Headers are not parsed on their own and do not change.  (An edit of a header is
  not followed to its sources, `Project.cpp:969`.)
* A batch of LevelDB is atomic and durable.  (`write_options.sync` is false: a crash
  of the *machine* could lose the last batches; one of the process cannot.)
* In `Registry` the homes of projects are different directories, the server is not
  started inside one of them, and comparing the home of a new project, which is
  empty, with another (`equivalent("", x)`) gives false.
* In `DirWatch` a directory whose home is `<< >>` always exists, and the home
  directory itself has no watch: the walk of `GetWatchDirs` starts below it
  (`Project.cpp:193`), so files directly in the home are seen by `ForceSync` only.
* The build is started with `system("cmake ... &> ...")`.  Where `/bin/sh` is not
  bash, `&>` starts cmake in the background and its result is not waited for; the
  models take the shell to be one that knows `&>`.
* The clock of mtimes moves with every write (`"same_second"` is off in all runs).

## 7. Plan

1. *Done*: `SymbolStore`, `SymbolIndex`, `ParsePipeline`, their proofs and the proof
   that the last implements the second.
2. *Done*: the flag cache and the watchers (`DirWatch`), the life cycle of projects
   and the registry (`Registry`), the start of the daemon (`Startup`), stored paths
   (`StoredPaths`), with proofs; the protocol (`Session`).
3. *Done*: the proofs of `Session`, of `SyncWatches`, of the references, of what the
   pipeline inherits from the index, and of `ConfiguredIsRegistered` without faults.
4. Compositions that are left: `Startup` with `Registry` (two servers on one set of
   databases), and the modules of `DirWatch` as those of `SymbolIndex`, changing
   with a reload.
5. Headers, with the sources that include them; the words of compile commands.
