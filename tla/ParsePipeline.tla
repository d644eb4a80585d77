--------------------------- MODULE ParsePipeline ---------------------------
(***************************************************************************)
(* How a change on the disk reaches the symbol database: the kernel queues *)
(* inotify events, the main thread turns them into modified files, timers  *)
(* and requests turn files into parse jobs, worker threads run the jobs in *)
(* several reads of the file and post their results back, and the main     *)
(* thread writes them.  The in-parsing markers (in_parsing_files_) are     *)
(* meant to keep one job per file in flight.                               *)
(*                                                                         *)
(* Every handler of the main thread is one step; a job takes one step per  *)
(* read of the disk or of the database.  The workers are not named and the *)
(* queues of the two io_services are not ordered here: a worker can be     *)
(* delayed before each read and each post, so every order of the jobs of   *)
(* different files is possible; the order of the two posts of one job      *)
(* (the result, then the end of the job) is kept by the stage of the job.  *)
(***************************************************************************)
EXTENDS SymbolStore, SequencesExt

CONSTANTS
  ModuleOf,    \* the module of each path once the flag cache is loaded
  Listed,      \* files that the compilation database names when they exist
  Initial,     \* files that exist before the server starts
  Contents,    \* what a file may contain; a digest identifies its content
  TuOf,        \* the parse result of each content of each file
  Unparsable,  \* contents for which libclang reports a failure
  MaxClock,    \* bound: the last second at which a file may be written
  QueueLimit,  \* max_queued_events of inotify; 0 when file watch is disabled
  Faults,      \* what the environment may do, a subset of AllFaults
  NoTU         \* file never written (for the refinement)

Missing == 0

AllFaults ==
  {"delete",      \* remove a file
   "move_away",   \* move a file out of its directory (IN_MOVED_FROM)
   "revert",      \* give a file a content it has had before
   "same_second", \* write a file twice within a tick of its mtime
   "cmake_fails", \* the cmake run of a ForceSync fails
   "crash",       \* the server process is killed
   "bad_request"} \* a client asks to rebuild a file that is not there

ASSUME PipelineAssumption ==
  /\ ModuleOf \in [Paths -> Modules]
  /\ \A f \in Files : ModuleOf[f] # NoModule
  /\ Listed \subseteq Files
  /\ Initial \subseteq Files
  /\ MaxClock \in Nat \ {0}
  /\ 1 .. MaxClock \subseteq Contents
  /\ Contents \subseteq Nat \ {Missing}
  /\ TuOf \in [Files -> [Contents -> TranslationUnit]]
  /\ Unparsable \subseteq Contents
  /\ QueueLimit \in Nat
  /\ Faults \subseteq AllFaults
  /\ NoInfo \notin [mtime : 1 .. MaxClock, md5 : Contents]
  /\ NoTU \notin TranslationUnit

VARIABLES
  disk,      \* content of each file, or Missing
  mtime,     \* modification time of each file, in seconds
  clock,     \* the second of the last change on the disk
  events,    \* the inotify queue of the kernel
  up,        \* the server process is running
  flags,     \* the flag cache is loaded, the directories are watched
  absSrc,    \* abs_src_paths_
  inParsing, \* in_parsing_files_
  modified,  \* modified_files_
  jobs,      \* the ClangParseFile calls in flight, for each file
  db,        \* the symbol database
  srcPaths,  \* the "<project name>" record, DB_ProjectInfo
  compiled,  \* history: the content last written in full, or Missing
  torn,      \* history: an exception has committed part of a parse result
  disowned   \* history: files that lost their marker with a job in flight

diskVars   == << disk, mtime, clock >>
memoryVars == << flags, absSrc, inParsing, modified >>
storeVars  == << db, srcPaths, compiled, torn >>
vars == << diskVars, events, up, memoryVars, jobs, storeVars, disowned >>

FileInfos == [mtime : 1 .. MaxClock, md5 : Contents]

Stages == {"queued", "statted", "loaded", "digested", "parsed", "finished"}

(* mtime: last_mtime; md5: first the saved digest, then the one computed;  *)
(* content: what libclang read.                                            *)
Job ==
  {j \in [stage : Stages, mtime : 0 .. MaxClock,
          md5 : Contents \cup {Missing}, content : Contents \cup {Missing}] :
     /\ j.stage \notin {"queued", "finished"} => j.mtime # 0
     /\ j.stage \in {"digested", "parsed"} => j.md5 # Missing
     /\ j.stage = "parsed" => j.content # Missing}

QueuedJob   == [stage |-> "queued", mtime |-> 0, md5 |-> Missing,
                content |-> Missing]
FinishedJob == [QueuedJob EXCEPT !.stage = "finished"]

Event == [kind : {"create", "modify", "delete"}, file : Files]

TypeOK ==
  /\ disk \in [Files -> Contents \cup {Missing}]
  /\ mtime \in [Files -> 0 .. MaxClock]
  /\ \A f \in Files : disk[f] # Missing => mtime[f] # 0
  /\ clock \in 1 .. MaxClock
  /\ events \in Seq(Event)
  /\ up \in BOOLEAN
  /\ flags \in BOOLEAN
  /\ absSrc \subseteq Files
  /\ inParsing \subseteq Files
  /\ modified \subseteq Files
  /\ jobs \in [Files -> Seq(Job)]
  /\ db \in Database(FileInfos)
  /\ srcPaths \subseteq Files
  /\ compiled \in [Files -> Contents \cup {Missing}]
  /\ torn \in BOOLEAN
  /\ disowned \subseteq Files

exists == {f \in Files : disk[f] # Missing}

Mod == IF flags THEN ModuleOf ELSE [p \in Paths |-> NoModule]

Init ==
  /\ disk = [f \in Files |-> IF f \in Initial THEN 1 ELSE Missing]
  /\ mtime = [f \in Files |-> IF f \in Initial THEN 1 ELSE 0]
  /\ clock = 1
  /\ events = << >>
  /\ up = FALSE
  /\ flags = FALSE
  /\ absSrc = {}
  /\ inParsing = {}
  /\ modified = {}
  /\ jobs = [f \in Files |-> << >>]
  /\ db = EmptyDatabase
  /\ srcPaths = {}
  /\ compiled = [f \in Files |-> Missing]
  /\ torn = FALSE
  /\ disowned = {}

-----------------------------------------------------------------------------
(* The disk and inotify.                                                   *)

(* The kernel reports to a watched directory, merges an event with an      *)
(* identical last one, and drops it when the queue is full: the overflow   *)
(* event it adds then has no name and HandleInotifyReadable skips it.      *)
Notify(kind, f) ==
  LET e == [kind |-> kind, file |-> f]
  IN  events' = IF \/ ~up
                   \/ ~flags
                   \/ Len(events) >= QueueLimit
                   \/ events # << >> /\ Last(events) = e
                  THEN events
                  ELSE Append(events, e)

(* A new content for f, stamped with the current second.                   *)
Store(f) ==
  \E t \in IF "same_second" \in Faults THEN {clock, clock + 1} ELSE {clock + 1},
     c \in IF "revert" \in Faults THEN Contents \ {disk[f]} ELSE {clock + 1} :
       /\ t <= MaxClock
       /\ c \in Contents
       /\ clock' = t
       /\ mtime' = [mtime EXCEPT ![f] = t]
       /\ disk' = [disk EXCEPT ![f] = c]

Vanish(f) ==
  /\ disk[f] # Missing
  /\ disk' = [disk EXCEPT ![f] = Missing]
  /\ mtime' = [mtime EXCEPT ![f] = 0]
  /\ UNCHANGED clock

(* Written in place: IN_MODIFY, IN_CLOSE_WRITE.                            *)
EditFile(f) ==
  /\ disk[f] # Missing
  /\ Store(f)
  /\ Notify("modify", f)
  /\ UNCHANGED << up, memoryVars, jobs, storeVars, disowned >>

(* Created, or renamed into place over a file that may exist: IN_CREATE,   *)
(* IN_MOVED_TO.                                                            *)
MoveInto(f) ==
  /\ Store(f)
  /\ Notify("create", f)
  /\ UNCHANGED << up, memoryVars, jobs, storeVars, disowned >>

RemoveFile(f) ==
  /\ "delete" \in Faults
  /\ Vanish(f)
  /\ Notify("delete", f)
  /\ UNCHANGED << up, memoryVars, jobs, storeVars, disowned >>

(* IN_MOVED_FROM is not in the mask of the watchers.                       *)
MoveAway(f) ==
  /\ "move_away" \in Faults
  /\ Vanish(f)
  /\ UNCHANGED << events, up, memoryVars, jobs, storeVars, disowned >>

-----------------------------------------------------------------------------
(* The life of the process.                                                *)

(* What a crash, or an exception that leaves a handler of the main thread, *)
(* does to everything that is not on the disk.                             *)
LoseMemory ==
  /\ up' = FALSE
  /\ events' = << >>
  /\ flags' = FALSE
  /\ absSrc' = {}
  /\ inParsing' = {}
  /\ modified' = {}
  /\ jobs' = [f \in Files |-> << >>]
  /\ disowned' = {}

Crash ==
  /\ up
  /\ "crash" \in Faults
  /\ LoseMemory
  /\ UNCHANGED << diskVars, storeVars >>

-----------------------------------------------------------------------------
(* Jobs are created.                                                       *)

\* Mutants: the marker is not looked at; the marker is not set.
BuildFiles_NoCheck(S, marked, haveFlags) ==
  /\ inParsing' = marked \cup S
  /\ jobs' = [f \in Files |-> IF haveFlags /\ f \in S
                                THEN Append(jobs[f], QueuedJob) ELSE jobs[f]]
BuildFiles_NoMarker(S, marked, haveFlags) ==
  /\ inParsing' = marked
  /\ jobs' = [f \in Files |-> IF haveFlags /\ f \in S \ marked
                                THEN Append(jobs[f], QueuedJob) ELSE jobs[f]]

(* BuildFile for each file of S: skipped when the marker is there, or when *)
(* there are no compiler flags.                                            *)
BuildFiles(S, marked, haveFlags) ==
  LET built == IF haveFlags THEN S \ marked ELSE {}
  IN  /\ inParsing' = marked \cup built
      /\ jobs' = [f \in Files |-> IF f \in built THEN Append(jobs[f], QueuedJob)
                                                 ELSE jobs[f]]

(* The 30 s timer.  The list is cleared whether or not a file was built.   *)
SmartSync ==
  /\ up
  /\ modified # {}
  /\ BuildFiles(modified, inParsing, flags)
  /\ modified' = {}
  /\ UNCHANGED << diskVars, events, up, flags, absSrc, storeVars, disowned >>

(* The five times a day timer, and a change of the CMakeLists.txt.  The    *)
(* loop over the paths that are gone does nothing, because                 *)
(* DeleteUnexistFile returns for a path that is not in abs_src_paths_.     *)
ForceSync ==
  LET src == exists \cap Listed
  IN  /\ up
      /\ flags' = TRUE
      /\ absSrc' = src
      /\ srcPaths' = src
      /\ BuildFiles(src, inParsing, TRUE)
      /\ modified' = {}
      /\ UNCHANGED << diskVars, events, up, db, compiled, torn, disowned >>

(* abs_src_paths_ has been moved away when the exception is caught.        *)
ForceSyncFails ==
  /\ up
  /\ "cmake_fails" \in Faults
  /\ absSrc' = {}
  /\ UNCHANGED << diskVars, events, up, flags, inParsing, modified, jobs,
                  storeVars, disowned >>

(* The server starts and loads a project of its configuration, which ends  *)
(* with a ForceSync.                                                       *)
Start ==
  /\ ~up
  /\ up' = TRUE
  /\ \/ /\ flags' = TRUE
        /\ absSrc' = exists \cap Listed
        /\ srcPaths' = absSrc'
        /\ BuildFiles(absSrc', {}, TRUE)
     \/ /\ "cmake_fails" \in Faults
        /\ UNCHANGED << flags, absSrc, srcPaths, inParsing, jobs >>
  /\ UNCHANGED << diskVars, events, modified, db, compiled, torn, disowned >>

(* UPDATE_PROJECT_REQ: Project::Build.                                     *)
UpdateProject ==
  /\ up
  /\ srcPaths' = absSrc
  /\ BuildFiles(absSrc, inParsing, flags)
  /\ UNCHANGED << diskVars, events, up, flags, absSrc, modified, db, compiled,
                  torn, disowned >>

\* Mutant: only the "file:info" record is deleted.
ForgetFile_InfoOnly(f) == Outcome([db EXCEPT !.info[f] = NoInfo], FALSE)

(* The batch that takes file f out of the database.                        *)
ForgetFile(f) == DeleteFileRecords(db, f, Mod, exists)

(* REBUILD_FILE_REQ for a file that is there and has no marker.            *)
RebuildFile(f) ==
  LET w == ForgetFile(f)
  IN  /\ up
      /\ f \in exists
      /\ f \notin inParsing
      /\ db' = w.db
      /\ IF w.threw
           THEN LoseMemory
           ELSE /\ BuildFiles({f}, inParsing, flags)
                /\ UNCHANGED << events, up, flags, absSrc, modified, disowned >>
      /\ UNCHANGED << diskVars, srcPaths, compiled, torn >>

(* REBUILD_FILE_REQ for a file that is not there: the session resolves its *)
(* path before it tests for the file.                                      *)
RebuildMissingFile(f) ==
  /\ up
  /\ "bad_request" \in Faults
  /\ absolute_path_throws(f, FALSE, exists)
  /\ LoseMemory
  /\ UNCHANGED << diskVars, storeVars >>

(* GET_SYMBOL_DEFINITION_REQ for a symbol one of whose locations cannot be *)
(* resolved.  Other lookups change nothing.                                *)
LookupFails(s) ==
  /\ up
  /\ \E k \in DOMAIN db.symDefs[s] :
        absolute_path_throws(db.symDefs[s][k].file, db.symDefs[s][k].abs, exists)
  /\ LoseMemory
  /\ UNCHANGED << diskVars, storeVars >>

-----------------------------------------------------------------------------
(* Events are handled.                                                     *)

HandleEntryCreate(f) ==
  /\ absSrc' = absSrc \cup {f}
  /\ modified' = modified \cup {f}
  /\ UNCHANGED << inParsing, db, srcPaths, disowned >>

(* filesystem::equivalent may throw for a file that is gone, depending on  *)
(* the library; HandleInotifyReadable catches it.                          *)
HandleFileModified(f) ==
  /\ \/ modified' = modified \cup {f}
     \/ f \notin exists /\ UNCHANGED modified
  /\ UNCHANGED << absSrc, inParsing, db, srcPaths, disowned >>

(* The marker goes even when a job is in flight.                           *)
DeleteUnexistFile(f) ==
  LET w == ForgetFile(f)
  IN  /\ f \in absSrc
      /\ absSrc' = absSrc \ {f}
      /\ inParsing' = inParsing \ {f}
      /\ db' = w.db
      /\ srcPaths' = IF w.threw THEN srcPaths ELSE absSrc'
      /\ disowned' = IF jobs[f] # << >> THEN disowned \cup {f} ELSE disowned
      /\ UNCHANGED modified

HandleEntryDeleted(f) ==
  IF f \notin exists /\ f \in absSrc
    THEN DeleteUnexistFile(f)
    ELSE UNCHANGED << absSrc, inParsing, modified, db, srcPaths, disowned >>

HandleInotifyEvent ==
  /\ up
  /\ events # << >>
  /\ events' = Tail(events)
  /\ LET e == Head(events)
     IN  \/ e.kind = "create" /\ HandleEntryCreate(e.file)
         \/ e.kind = "modify" /\ HandleFileModified(e.file)
         \/ e.kind = "delete" /\ HandleEntryDeleted(e.file)
  /\ UNCHANGED << diskVars, up, flags, jobs, compiled, torn >>

-----------------------------------------------------------------------------
(* ClangParseFile, on a worker thread: job i of file f.                    *)

Advance(f, i, j) == jobs' = [jobs EXCEPT ![f][i] = j]

\* Mutant: the handler of the exception does not return.
StatFile_FallThrough(f, i) ==
  /\ jobs[f][i].stage = "queued"
  /\ Advance(f, i, [jobs[f][i] EXCEPT !.stage = "statted", !.mtime = mtime[f]])
  /\ UNCHANGED << diskVars, events, up, memoryVars, storeVars, disowned >>

(* last_wtime.  When it throws the function returns before it has set up   *)
(* the guard that posts RemoveParsingFile: the marker stays.               *)
StatFile(f, i) ==
  /\ jobs[f][i].stage = "queued"
  /\ IF f \in exists
       THEN /\ Advance(f, i, [jobs[f][i] EXCEPT !.stage = "statted",
                                                !.mtime = mtime[f]])
            /\ UNCHANGED disowned
       ELSE /\ jobs' = [jobs EXCEPT ![f] = RemoveAt(@, i)]
            /\ disowned' = IF Len(jobs[f]) = 1 THEN disowned \ {f} ELSE disowned
  /\ UNCHANGED << diskVars, events, up, memoryVars, storeVars >>

\* Mutant: any saved record ends the job.
SameMtime_Any(info, job) == info # NoInfo

SameMtime(info, job) == info # NoInfo /\ info.mtime = job.mtime

(* The saved record is read; the same mtime ends the job.                  *)
LoadFileInfo(f, i) ==
  LET job  == jobs[f][i]
      info == db.info[f]
  IN  /\ job.stage = "statted"
      /\ IF SameMtime(info, job)
           THEN Advance(f, i, FinishedJob)
           ELSE Advance(f, i, [job EXCEPT
                  !.stage = "loaded",
                  !.md5 = IF info = NoInfo THEN Missing ELSE info.md5])
      /\ UNCHANGED << diskVars, events, up, memoryVars, storeVars, disowned >>

(* md5_file_str; the digest of a file that cannot be opened is whatever    *)
(* was in the buffer.  The same digest ends the job.                       *)
DigestFile(f, i) ==
  LET job == jobs[f][i]
  IN  /\ job.stage = "loaded"
      /\ \E d \in IF f \in exists THEN {disk[f]} ELSE Contents :
            Advance(f, i, IF d = job.md5 THEN FinishedJob
                          ELSE [job EXCEPT !.stage = "digested", !.md5 = d])
      /\ UNCHANGED << diskVars, events, up, memoryVars, storeVars, disowned >>

(* libclang reads the file; the result is posted to the main thread.       *)
ParseFile(f, i) ==
  LET job == jobs[f][i]
  IN  /\ job.stage = "digested"
      /\ Advance(f, i, IF f \notin exists \/ disk[f] \in Unparsable
                         THEN FinishedJob
                         ELSE [job EXCEPT !.stage = "parsed",
                                          !.content = disk[f]])
      /\ UNCHANGED << diskVars, events, up, memoryVars, storeVars, disowned >>

ClangParseFile(f, i) ==
  \/ StatFile(f, i)
  \/ LoadFileInfo(f, i)
  \/ DigestFile(f, i)
  \/ ParseFile(f, i)

-----------------------------------------------------------------------------
(* What a job posts to the main thread.                                    *)

\* Mutant: the mtime is taken when the result is written.
CompiledFileInfo_Late(f, job) ==
  [mtime |-> IF f \in exists THEN mtime[f] ELSE job.mtime, md5 |-> job.md5]

CompiledFileInfo(f, job) == [mtime |-> job.mtime, md5 |-> job.md5]

WriteParsed(f, i) ==
  LET job == jobs[f][i]
      w   == WriteCompiledFile(db, f, TuOf[f][job.content],
                               CompiledFileInfo(f, job), Mod, exists)
  IN  /\ job.stage = "parsed"
      /\ db' = w.db
      /\ torn' = (torn \/ w.threw)
      /\ IF w.threw
           THEN /\ LoseMemory
                /\ UNCHANGED compiled
           ELSE /\ compiled' = [compiled EXCEPT ![f] = job.content]
                /\ Advance(f, i, FinishedJob)
                /\ UNCHANGED << events, up, memoryVars, disowned >>
      /\ UNCHANGED << diskVars, srcPaths >>

(* The path is made absolute before the marker is erased.                  *)
RemoveParsingFile(f, i) ==
  /\ jobs[f][i].stage = "finished"
  /\ IF absolute_path_throws(f, FALSE, exists)
       THEN LoseMemory
       ELSE /\ inParsing' = inParsing \ {f}
            /\ jobs' = [jobs EXCEPT ![f] = RemoveAt(@, i)]
            /\ disowned' = IF Len(jobs[f]) = 1 THEN disowned \ {f} ELSE disowned
            /\ UNCHANGED << events, up, flags, absSrc, modified >>
  /\ UNCHANGED << diskVars, storeVars >>

JobStep(f) ==
  \E i \in DOMAIN jobs[f] : \/ ClangParseFile(f, i)
                            \/ WriteParsed(f, i)
                            \/ RemoveParsingFile(f, i)

-----------------------------------------------------------------------------
Next ==
  \/ \E f \in Files : \/ EditFile(f)
                      \/ MoveInto(f)
                      \/ RemoveFile(f)
                      \/ MoveAway(f)
                      \/ RebuildFile(f)
                      \/ RebuildMissingFile(f)
                      \/ JobStep(f)
  \/ \E s \in Symbols : LookupFails(s)
  \/ HandleInotifyEvent
  \/ SmartSync
  \/ ForceSync
  \/ ForceSyncFails
  \/ UpdateProject
  \/ Crash
  \/ Start

Spec == Init /\ [][Next]_vars

(* Posted handlers, events and timers are served, jobs make progress and   *)
(* somebody starts the server: the io_service loops and the worker threads *)
(* run for ever, and both timers are armed again when they fire.           *)
Fairness ==
  /\ WF_vars(Start)
  /\ WF_vars(HandleInotifyEvent)
  /\ WF_vars(SmartSync)
  /\ WF_vars(ForceSync)
  /\ \A f \in Files : WF_vars(JobStep(f))

FairSpec == Spec /\ Fairness

-----------------------------------------------------------------------------
(* Properties.                                                             *)

(* in_parsing_files_ keeps two jobs for one file from running at once, and *)
(* every job has its marker, except after a delete event has taken the     *)
(* marker of a running job away.                                           *)
SingleFlight ==
  \A f \in Files \ disowned :
     jobs[f] # << >> => Len(jobs[f]) = 1 /\ f \in inParsing

(* The check that skips a file (the saved mtime equals the one on disk)    *)
(* never skips a file whose present content has not been indexed, although *)
(* the stat, the digest and the parse are three reads of a file that may   *)
(* change between them and results may arrive late.                        *)
NoFalseFresh ==
  \A f \in exists :
     /\ ~torn
     /\ db.info[f] # NoInfo
     /\ db.info[f].mtime = mtime[f]
     => compiled[f] = disk[f]

(* A lookup never sends a client to a line of a former content of a file   *)
(* that will not be parsed again: when the mtime check skips a file, each  *)
(* location in it is what its present content defines, although locations  *)
(* are only rewritten for symbols that seem to have moved.                 *)
FreshAnswers ==
  \A s \in Symbols : \A k \in DOMAIN db.symDefs[s] :
     LET loc == db.symDefs[s][k]
         f   == loc.file
     IN  f \in exists /\ ~torn /\ db.info[f] # NoInfo /\ db.info[f].mtime = mtime[f]
           => loc.line = TuOf[f][disk[f]].defs[s]

(* The symbols in the database are what the updates of SymbolIndex can     *)
(* produce: every step of the pipeline is one of its steps, or leaves the  *)
(* database alone.                                                         *)
Index ==
  INSTANCE SymbolIndex WITH
    TranslationUnits <- UNION {{TuOf[g][c] : c \in Contents} : g \in Files},
    AllowDelete <- Faults \cap {"delete", "move_away"} # {},
    written <- [f \in Files |-> IF compiled[f] = Missing THEN NoTU
                                ELSE TuOf[f][compiled[f]]]

RefinesIndex == Index!Spec

(* Once nobody changes the disk any more, every file that is listed and    *)
(* can be parsed is eventually indexed with its present content and stays  *)
(* so, whatever events were lost and however they met running jobs.        *)
UpToDate(f) ==
  disk[f] \in Contents \ Unparsable => compiled[f] = disk[f]

EventuallyUpToDate == \A f \in Listed : <>[]UpToDate(f)

(* "the files under this directory is already removed from both            *)
(* abs_src_paths_ and the database" (HandleWatchedDirDeleted): when every  *)
(* event has been handled, a file that was deleted is in neither.          *)
DeletedFileIsRemoved ==
  \A f \in Files \ exists :
     up /\ events = << >> => f \notin absSrc /\ db.info[f] = NoInfo

(* RemoveParsingFile has a branch for a path that is "already deleted":    *)
(* a deletion that races with a job does not end the server.               *)
DeletionIsTolerated == [][up => up']_vars

=============================================================================
