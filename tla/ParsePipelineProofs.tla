------------------------ MODULE ParsePipelineProofs ------------------------
(* Proofs about ParsePipeline, for every set of files, contents and        *)
(* faults, every bound and both builds.                                    *)
EXTENDS ParsePipeline, SymbolStoreProofs, SequenceTheorems

-----------------------------------------------------------------------------
(* Lists of jobs.                                                          *)

(* Taking out one element leaves a list, and none when it was the only one.*)
LEMMA RemoveAtType ==
  ASSUME NEW S, NEW s \in Seq(S), NEW i \in DOMAIN s
  PROVE  /\ RemoveAt(s, i) \in Seq(S)
         /\ Len(s) = 1 => RemoveAt(s, i) = << >>
<1>1. i \in 1 .. Len(s)
  OBVIOUS
<1>2. SubSeq(s, 1, i - 1) \in Seq(S) /\ SubSeq(s, i + 1, Len(s)) \in Seq(S)
  BY <1>1
<1>3. Len(s) = 1 => SubSeq(s, 1, i - 1) = << >> /\ SubSeq(s, i + 1, Len(s)) = << >>
  BY <1>1
<1>4. QED
  BY <1>2, <1>3 DEF RemoveAt

(* What is left was there before.                                          *)
LEMMA RemoveAtElements ==
  ASSUME NEW S, NEW s \in Seq(S), NEW i \in DOMAIN s
  PROVE  \A k \in DOMAIN RemoveAt(s, i) :
            \E n \in DOMAIN s : RemoveAt(s, i)[k] = s[n]
<1> DEFINE front == SubSeq(s, 1, i - 1)
           back  == SubSeq(s, i + 1, Len(s))
<1>1. i \in 1 .. Len(s)
  OBVIOUS
<1>2. /\ front \in Seq(S) /\ Len(front) = i - 1
      /\ \A k \in 1 .. i - 1 : front[k] = s[k]
  BY <1>1
<1>3. /\ back \in Seq(S) /\ Len(back) = Len(s) - i
      /\ \A k \in 1 .. Len(s) - i : back[k] = s[k + i]
  BY <1>1
<1> HIDE DEF front, back
<1>4. /\ DOMAIN (front \o back) = 1 .. Len(s) - 1
      /\ \A k \in 1 .. Len(s) - 1 :
            (front \o back)[k] = IF k <= i - 1 THEN s[k] ELSE s[k + 1]
  <2>1. /\ front \o back \in Seq(S)
        /\ Len(front \o back) = Len(s) - 1
    BY <1>1, <1>2, <1>3, ConcatProperties
  <2>2. \A k \in 1 .. Len(s) - 1 :
           (front \o back)[k] = IF k <= i - 1 THEN front[k] ELSE back[k - (i - 1)]
    BY <1>1, <1>2, <1>3, ConcatProperties
  <2>3. \A k \in 1 .. Len(s) - 1 :
           k <= i - 1 \/ /\ k - (i - 1) \in 1 .. Len(s) - i
                         /\ (k - (i - 1)) + i = k + 1
    BY <1>1
  <2>4. \A k \in 1 .. Len(s) - 1 : k <= i - 1 => k \in 1 .. i - 1
    BY <1>1
  <2>5. DOMAIN (front \o back) = 1 .. Len(s) - 1
    BY <2>1
  <2>6. ASSUME NEW k \in 1 .. Len(s) - 1
        PROVE  (front \o back)[k] = IF k <= i - 1 THEN s[k] ELSE s[k + 1]
    <3>1. CASE k <= i - 1
      BY <1>2, <2>2, <2>4, <3>1
    <3>2. CASE ~(k <= i - 1)
      <4>1. back[k - (i - 1)] = s[(k - (i - 1)) + i]
        BY <1>3, <2>3, <3>2
      <4>2. QED
        BY <2>2, <2>3, <3>2, <4>1
    <3>3. QED
      BY <3>1, <3>2
  <2>7. QED
    BY <2>5, <2>6
<1>5. \A k \in 1 .. Len(s) - 1 : k \in DOMAIN s /\ k + 1 \in DOMAIN s
  BY <1>1
<1>6. QED
  BY <1>4, <1>5 DEF RemoveAt, front, back

(* The jobs with which BuildFiles and the worker threads start and end are *)
(* jobs.                                                                   *)
LEMMA JobTypes == QueuedJob \in Job /\ FinishedJob \in Job
<1>1. MaxClock \in Nat
  BY PipelineAssumption
<1>2. QED
  BY <1>1 DEF QueuedJob, FinishedJob, Job, Stages

(* BuildFiles keeps the types of the markers and of the jobs.              *)
LEMMA BuildFilesType ==
  ASSUME jobs \in [Files -> Seq(Job)], NEW S \in SUBSET Files,
         NEW marked \in SUBSET Files, NEW haveFlags \in BOOLEAN,
         BuildFiles(S, marked, haveFlags)
  PROVE  inParsing' \subseteq Files /\ jobs' \in [Files -> Seq(Job)]
<1>1. \A f \in Files : /\ jobs[f] \in Seq(Job)
                       /\ Append(jobs[f], QueuedJob) \in Seq(Job)
  BY JobTypes
<1>2. QED
  BY <1>1 DEF BuildFiles

(* A server that has lost its memory has well-typed, empty memory.         *)
LEMMA LoseMemoryType ==
  ASSUME LoseMemory
  PROVE  /\ up' \in BOOLEAN
         /\ events' \in Seq(Event)
         /\ flags' \in BOOLEAN
         /\ absSrc' \subseteq Files
         /\ inParsing' \subseteq Files
         /\ modified' \subseteq Files
         /\ jobs' \in [Files -> Seq(Job)]
         /\ disowned' \subseteq Files
<1>1. << >> \in Seq(Event) /\ << >> \in Seq(Job)
  OBVIOUS
<1>2. [f \in Files |-> << >>] \in [Files -> Seq(Job)]
  BY <1>1
<1>3. QED
  BY <1>1, <1>2 DEF LoseMemory

-----------------------------------------------------------------------------
(* Type correctness.                                                       *)

(* A change on the disk keeps the types.                                   *)
LEMMA DiskStepType ==
  ASSUME TypeOK, NEW f \in Files,
         EditFile(f) \/ MoveInto(f) \/ RemoveFile(f) \/ MoveAway(f)
  PROVE  TypeOK'
<1>1. ASSUME NEW kind \in {"create", "modify", "delete"}, Notify(kind, f)
      PROVE  events' \in Seq(Event)
  <2>1. [kind |-> kind, file |-> f] \in Event
    BY DEF Event
  <2>2. Append(events, [kind |-> kind, file |-> f]) \in Seq(Event)
    BY <2>1 DEF TypeOK
  <2>3. QED
    BY <1>1, <2>2 DEF Notify, TypeOK
<1>2. ASSUME Store(f)
      PROVE  /\ disk' \in [Files -> Contents \cup {Missing}]
             /\ mtime' \in [Files -> 0 .. MaxClock]
             /\ \A g \in Files : disk'[g] # Missing => mtime'[g] # 0
             /\ clock' \in 1 .. MaxClock
  BY <1>2, PipelineAssumption DEF Store, TypeOK
<1>3. ASSUME Vanish(f)
      PROVE  /\ disk' \in [Files -> Contents \cup {Missing}]
             /\ mtime' \in [Files -> 0 .. MaxClock]
             /\ \A g \in Files : disk'[g] # Missing => mtime'[g] # 0
             /\ clock' \in 1 .. MaxClock
  BY <1>3, PipelineAssumption DEF Vanish, TypeOK
<1>4. CASE EditFile(f)
  BY <1>1, <1>2, <1>4 DEF EditFile, TypeOK, memoryVars, storeVars
<1>5. CASE MoveInto(f)
  BY <1>1, <1>2, <1>5 DEF MoveInto, TypeOK, memoryVars, storeVars
<1>6. CASE RemoveFile(f)
  BY <1>1, <1>3, <1>6 DEF RemoveFile, TypeOK, memoryVars, storeVars
<1>7. CASE MoveAway(f)
  BY <1>3, <1>7 DEF MoveAway, TypeOK, memoryVars, storeVars
<1>8. QED
  BY <1>4, <1>5, <1>6, <1>7

(* The timers, the requests and the life of the process keep the types.    *)
LEMMA ServerStepType ==
  ASSUME TypeOK,
         \/ SmartSync \/ ForceSync \/ ForceSyncFails \/ UpdateProject
         \/ Crash \/ Start
         \/ \E f \in Files : RebuildFile(f) \/ RebuildMissingFile(f)
         \/ \E s \in Symbols : LookupFails(s)
  PROVE  TypeOK'
<1> USE DEF diskVars, memoryVars, storeVars
<1>1. exists \cap Listed \subseteq Files
  BY DEF exists
<1>2. CASE SmartSync
  <2>1. BuildFiles(modified, inParsing, flags)
    BY <1>2 DEF SmartSync
  <2>2. inParsing' \subseteq Files /\ jobs' \in [Files -> Seq(Job)]
    BY <2>1, BuildFilesType DEF TypeOK
  <2>3. QED
    BY <1>2, <2>2 DEF SmartSync, TypeOK
<1>3. CASE ForceSync
  BY <1>1, <1>3, BuildFilesType DEF ForceSync, TypeOK
<1>4. CASE ForceSyncFails
  BY <1>4 DEF ForceSyncFails, TypeOK
<1>5. CASE UpdateProject
  <2>1. BuildFiles(absSrc, inParsing, flags)
    BY <1>5 DEF UpdateProject
  <2>2. inParsing' \subseteq Files /\ jobs' \in [Files -> Seq(Job)]
    BY <2>1, BuildFilesType DEF TypeOK
  <2>3. QED
    BY <1>5, <2>2 DEF UpdateProject, TypeOK
<1>6. CASE Crash
  BY <1>6, LoseMemoryType DEF Crash, TypeOK
<1>7. CASE Start
  <2>1. CASE /\ flags' = TRUE
             /\ absSrc' = exists \cap Listed
             /\ srcPaths' = absSrc'
             /\ BuildFiles(absSrc', {}, TRUE)
    <3>1. inParsing' \subseteq Files /\ jobs' \in [Files -> Seq(Job)]
      BY <1>1, <2>1, BuildFilesType DEF TypeOK
    <3>2. QED
      BY <1>1, <1>7, <2>1, <3>1 DEF Start, TypeOK
  <2>2. CASE UNCHANGED << flags, absSrc, srcPaths, inParsing, jobs >>
    BY <1>7, <2>2 DEF Start, TypeOK
  <2>3. QED
    BY <1>7, <2>1, <2>2 DEF Start
<1>8. ASSUME NEW f \in Files, RebuildFile(f) PROVE TypeOK'
  <2>1. ForgetFile(f).db \in Database(FileInfos)
    BY DeleteFileRecordsShape DEF RecordsDeleted, ForgetFile, TypeOK
  <2>2. CASE ForgetFile(f).threw
    BY <1>8, <2>1, <2>2, LoseMemoryType DEF RebuildFile, TypeOK
  <2>3. CASE ~ForgetFile(f).threw
    <3>1. BuildFiles({f}, inParsing, flags)
      BY <1>8, <2>3 DEF RebuildFile
    <3>2. inParsing' \subseteq Files /\ jobs' \in [Files -> Seq(Job)]
      BY <3>1, BuildFilesType DEF TypeOK
    <3>3. QED
      BY <1>8, <2>1, <2>3, <3>2 DEF RebuildFile, TypeOK
  <2>4. QED
    BY <2>2, <2>3
<1>9. ASSUME NEW f \in Files, RebuildMissingFile(f) PROVE TypeOK'
  BY <1>9, LoseMemoryType DEF RebuildMissingFile, TypeOK
<1>10. ASSUME NEW s \in Symbols, LookupFails(s) PROVE TypeOK'
  BY <1>10, LoseMemoryType DEF LookupFails, TypeOK
<1>11. QED
  BY <1>2, <1>3, <1>4, <1>5, <1>6, <1>7, <1>8, <1>9, <1>10

(* Handling an event keeps the types.                                      *)
LEMMA EventStepType ==
  ASSUME TypeOK, HandleInotifyEvent
  PROVE  TypeOK'
<1> USE DEF diskVars, memoryVars, storeVars
<1> DEFINE e == Head(events)
<1>1. events' \in Seq(Event) /\ e.file \in Files
  <2>1. events \in Seq(Event) /\ events # << >> /\ events' = Tail(events)
    BY DEF HandleInotifyEvent, TypeOK
  <2>2. e \in Event /\ Tail(events) \in Seq(Event)
    BY <2>1
  <2>3. QED
    BY <2>1, <2>2 DEF Event
<1>2. PICK f \in Files :
         HandleEntryCreate(f) \/ HandleFileModified(f) \/ HandleEntryDeleted(f)
  BY <1>1 DEF HandleInotifyEvent
<1>3. UNCHANGED << diskVars, up, flags, jobs, compiled, torn >>
  BY DEF HandleInotifyEvent
<1>4. CASE HandleEntryCreate(f)
  BY <1>1, <1>3, <1>4 DEF HandleEntryCreate, TypeOK
<1>5. CASE HandleFileModified(f)
  BY <1>1, <1>3, <1>5 DEF HandleFileModified, TypeOK
<1>6. CASE HandleEntryDeleted(f)
  <2>1. CASE DeleteUnexistFile(f)
    <3>1. ForgetFile(f).db \in Database(FileInfos)
      BY DeleteFileRecordsShape DEF RecordsDeleted, ForgetFile, TypeOK
    <3>2. QED
      BY <1>1, <1>3, <2>1, <3>1 DEF DeleteUnexistFile, TypeOK
  <2>2. CASE UNCHANGED << absSrc, inParsing, modified, db, srcPaths, disowned >>
    BY <1>1, <1>3, <2>2 DEF TypeOK
  <2>3. QED
    BY <1>6, <2>1, <2>2 DEF HandleEntryDeleted
<1>7. QED
  BY <1>2, <1>4, <1>5, <1>6

(* A step of a job keeps the types.                                        *)
LEMMA JobStepType ==
  ASSUME TypeOK, NEW f \in Files, JobStep(f)
  PROVE  TypeOK'
<1> USE DEF diskVars, memoryVars, storeVars
<1>1. PICK i \in DOMAIN jobs[f] :
         ClangParseFile(f, i) \/ WriteParsed(f, i) \/ RemoveParsingFile(f, i)
  BY DEF JobStep
<1>2. jobs \in [Files -> Seq(Job)] /\ jobs[f] \in Seq(Job) /\ jobs[f][i] \in Job
  BY DEF TypeOK
<1>3. ASSUME NEW j \in Job, Advance(f, i, j)
      PROVE  jobs' \in [Files -> Seq(Job)]
  <2>1. [jobs[f] EXCEPT ![i] = j] \in Seq(Job)
    BY <1>2, ExceptSeq
  <2>2. QED
    BY <1>2, <1>3, <2>1 DEF Advance
<1>4. [jobs EXCEPT ![f] = RemoveAt(@, i)] \in [Files -> Seq(Job)]
  BY <1>2, RemoveAtType
<1>5. CASE StatFile(f, i)
  <2>1. CASE f \in exists
    <3>1. [jobs[f][i] EXCEPT !.stage = "statted", !.mtime = mtime[f]] \in Job
      BY <1>2, <1>5, <2>1 DEF StatFile, Job, Stages, TypeOK, exists
    <3>2. jobs' \in [Files -> Seq(Job)] /\ disowned' \subseteq Files
      BY <1>3, <1>5, <2>1, <3>1 DEF StatFile, TypeOK
    <3>3. QED
      BY <1>5, <3>2 DEF StatFile, TypeOK
  <2>2. CASE f \notin exists
    <3>1. jobs' \in [Files -> Seq(Job)] /\ disowned' \subseteq Files
      BY <1>4, <1>5, <2>2 DEF StatFile, TypeOK
    <3>2. QED
      BY <1>5, <3>1 DEF StatFile, TypeOK
  <2>3. QED
    BY <2>1, <2>2
<1>6. CASE LoadFileInfo(f, i)
  <2>1. db.info[f] = NoInfo \/ db.info[f].md5 \in Contents
    BY DEF TypeOK, Database, FileInfos
  <2>2. [jobs[f][i] EXCEPT
           !.stage = "loaded",
           !.md5 = IF db.info[f] = NoInfo THEN Missing ELSE db.info[f].md5] \in Job
    BY <1>2, <1>6, <2>1 DEF LoadFileInfo, Job, Stages
  <2>3. jobs' \in [Files -> Seq(Job)]
    BY <1>3, <1>6, <2>2, JobTypes DEF LoadFileInfo
  <2>4. QED
    BY <1>6, <2>3 DEF LoadFileInfo, TypeOK
<1>7. CASE DigestFile(f, i)
  <2>1. PICK d \in IF f \in exists THEN {disk[f]} ELSE Contents :
           Advance(f, i, IF d = jobs[f][i].md5 THEN FinishedJob
                         ELSE [jobs[f][i] EXCEPT !.stage = "digested", !.md5 = d])
    BY <1>7 DEF DigestFile
  <2>2. d \in Contents /\ d # Missing
    BY PipelineAssumption DEF TypeOK, exists
  <2>3. [jobs[f][i] EXCEPT !.stage = "digested", !.md5 = d] \in Job
    BY <1>2, <1>7, <2>2 DEF DigestFile, Job, Stages
  <2>4. jobs' \in [Files -> Seq(Job)]
    BY <1>3, <2>1, <2>3, JobTypes
  <2>5. QED
    BY <1>7, <2>4 DEF DigestFile, TypeOK
<1>8. CASE ParseFile(f, i)
  <2>1. f \in exists
        => [jobs[f][i] EXCEPT !.stage = "parsed", !.content = disk[f]] \in Job
    BY <1>2, <1>8 DEF ParseFile, Job, Stages, TypeOK, exists
  <2>2. jobs' \in [Files -> Seq(Job)]
    BY <1>3, <1>8, <2>1, JobTypes DEF ParseFile
  <2>3. QED
    BY <1>8, <2>2 DEF ParseFile, TypeOK
<1>9. CASE WriteParsed(f, i)
  <2> DEFINE job == jobs[f][i]
             tu  == TuOf[f][job.content]
             fi  == CompiledFileInfo(f, job)
             w   == WriteCompiledFile(db, f, tu, fi, Mod, exists)
  <2>1. job.stage = "parsed" /\ job.content \in Contents
    BY <1>2, <1>9 DEF WriteParsed, Job
  <2>2. tu \in TranslationUnit
    BY <2>1, PipelineAssumption
  <2>3. fi \in FileInfos
    BY <1>2, <2>1, PipelineAssumption DEF CompiledFileInfo, FileInfos, Job
  <2>4. w.db \in Database(FileInfos) /\ w.threw \in BOOLEAN
    BY <2>2, <2>3, WriteCompiledFileShape DEF CompiledWritten, TypeOK
  <2>5. /\ db' = w.db
        /\ torn' = (torn \/ w.threw)
        /\ IF w.threw
             THEN LoseMemory /\ UNCHANGED compiled
             ELSE /\ compiled' = [compiled EXCEPT ![f] = job.content]
                  /\ Advance(f, i, FinishedJob)
                  /\ UNCHANGED << events, up, memoryVars, disowned >>
        /\ UNCHANGED << diskVars, srcPaths >>
    BY <1>9 DEF WriteParsed
  <2> HIDE DEF w
  <2>6. CASE w.threw
    BY <2>4, <2>5, <2>6, LoseMemoryType DEF TypeOK
  <2>7. CASE ~w.threw
    <3>1. jobs' \in [Files -> Seq(Job)]
      BY <1>3, <2>5, <2>7, JobTypes
    <3>2. compiled' \in [Files -> Contents \cup {Missing}]
      BY <2>1, <2>5, <2>7 DEF TypeOK
    <3>3. QED
      BY <2>4, <2>5, <2>7, <3>1, <3>2 DEF TypeOK
  <2>8. QED
    BY <2>6, <2>7
<1>10. CASE RemoveParsingFile(f, i)
  <2>1. CASE absolute_path_throws(f, FALSE, exists)
    <3>1. LoseMemory
      BY <1>10, <2>1 DEF RemoveParsingFile
    <3>2. QED
      BY <1>10, <3>1, LoseMemoryType DEF RemoveParsingFile, TypeOK
  <2>2. CASE ~absolute_path_throws(f, FALSE, exists)
    BY <1>4, <1>10, <2>2 DEF RemoveParsingFile, TypeOK
  <2>3. QED
    BY <2>1, <2>2
<1>11. QED
  BY <1>1, <1>5, <1>6, <1>7, <1>8, <1>9, <1>10 DEF ClangParseFile

(* Every step of the pipeline keeps the types.                             *)
LEMMA PipelineTypeStep == TypeOK /\ [Next]_vars => TypeOK'
<1>1. ASSUME TypeOK, UNCHANGED vars PROVE TypeOK'
  BY <1>1 DEF vars, diskVars, memoryVars, storeVars, TypeOK
<1>2. QED
  BY <1>1, DiskStepType, ServerStepType, EventStepType, JobStepType DEF Next

(* The initial states are well typed.                                      *)
LEMMA InitType == Init => TypeOK
<1>1. EmptyDatabase \in Database(FileInfos)
  <2>1. << >> \in Seq(Location)
    OBVIOUS
  <2>2. [s \in Symbols |-> << >>] \in [Symbols -> Seq(Location)]
    BY <2>1
  <2>3. QED
    BY <2>2 DEF EmptyDatabase, Database
<1>2. << >> \in Seq(Event) /\ << >> \in Seq(Job)
  OBVIOUS
<1>3. [f \in Files |-> << >>] \in [Files -> Seq(Job)]
  BY <1>2
<1>4. 1 \in 1 .. MaxClock /\ 1 \in Contents /\ MaxClock \in Nat
  BY PipelineAssumption
<1>5. ASSUME Init PROVE TypeOK
  <2>1. /\ disk \in [Files -> Contents \cup {Missing}]
        /\ mtime \in [Files -> 0 .. MaxClock]
        /\ \A f \in Files : disk[f] # Missing => mtime[f] # 0
    BY <1>4, <1>5 DEF Init
  <2>2. QED
    BY <1>1, <1>2, <1>3, <1>4, <1>5, <2>1 DEF Init, TypeOK
<1>6. QED
  BY <1>5

(* The pipeline keeps its types: a job that is to be written has read a    *)
(* content, a digest and a modification time, whatever became of its file  *)
(* since, and the database is well formed.                                 *)
THEOREM PipelineTypeCorrect == Spec => []TypeOK
BY InitType, PipelineTypeStep, PTL DEF Spec

-----------------------------------------------------------------------------
(* One job per file.                                                       *)

(* What makes SingleFlight inductive: the markers are forgotten when the   *)
(* process ends, so no job may survive it.                                 *)
NoJobsWhenDown == up \/ \A f \in Files : jobs[f] = << >>

FlightInvariant == TypeOK /\ SingleFlight /\ NoJobsWhenDown

(* Nothing is in flight once the memory is lost.                           *)
LEMMA LoseMemoryFlight ==
  ASSUME LoseMemory
  PROVE  SingleFlight' /\ NoJobsWhenDown'
BY DEF LoseMemory, SingleFlight, NoJobsWhenDown

(* BuildFiles starts no second job, provided that every file with a job    *)
(* and a marker is among the markers it looks at.                          *)
LEMMA BuildFilesFlight ==
  ASSUME TypeOK, SingleFlight, NEW S \in SUBSET Files,
         NEW marked \in SUBSET Files, NEW haveFlags \in BOOLEAN,
         \A f \in inParsing \ marked : jobs[f] = << >>,
         BuildFiles(S, marked, haveFlags),
         disowned' = disowned
  PROVE  SingleFlight'
<1> SUFFICES ASSUME NEW f \in Files \ disowned, jobs'[f] # << >>
             PROVE  Len(jobs'[f]) = 1 /\ f \in inParsing'
  BY DEF SingleFlight
<1> DEFINE built == IF haveFlags THEN S \ marked ELSE {}
<1>1. /\ inParsing' = marked \cup built
      /\ jobs'[f] = IF f \in built THEN Append(jobs[f], QueuedJob) ELSE jobs[f]
  BY DEF BuildFiles
<1>2. jobs[f] \in Seq(Job)
  BY DEF TypeOK
<1>3. jobs[f] # << >> => Len(jobs[f]) = 1 /\ f \in marked
  BY DEF SingleFlight
<1>4. CASE f \in built
  <2>1. jobs[f] = << >>
    BY <1>3, <1>4
  <2>2. Len(Append(<< >>, QueuedJob)) = 1
    OBVIOUS
  <2>3. QED
    BY <1>1, <1>4, <2>1, <2>2
<1>5. CASE f \notin built
  BY <1>1, <1>3, <1>5
<1>6. QED
  BY <1>4, <1>5

(* A step that leaves jobs, markers, disowned files and process alone.     *)
LEMMA QuietFlight ==
  ASSUME SingleFlight, NoJobsWhenDown,
         UNCHANGED << up, jobs, inParsing, disowned >>
  PROVE  SingleFlight' /\ NoJobsWhenDown'
BY DEF SingleFlight, NoJobsWhenDown

(* The timers, the requests and the life of the process.                   *)
LEMMA ServerStepFlight ==
  ASSUME FlightInvariant,
         \/ SmartSync \/ ForceSync \/ ForceSyncFails \/ UpdateProject
         \/ Crash \/ Start
         \/ \E f \in Files : RebuildFile(f) \/ RebuildMissingFile(f)
         \/ \E s \in Symbols : LookupFails(s)
  PROVE  SingleFlight' /\ NoJobsWhenDown'
<1> USE DEF FlightInvariant
<1>1. exists \cap Listed \in SUBSET Files
  BY DEF exists
<1>2. /\ inParsing \in SUBSET Files /\ modified \in SUBSET Files
      /\ absSrc \in SUBSET Files /\ flags \in BOOLEAN
  BY DEF TypeOK
<1>3. ASSUME up', NEW S \in SUBSET Files, NEW haveFlags \in BOOLEAN,
             BuildFiles(S, inParsing, haveFlags), disowned' = disowned
      PROVE  SingleFlight' /\ NoJobsWhenDown'
  <2>1. SingleFlight'
    BY <1>2, <1>3, BuildFilesFlight
  <2>2. QED
    BY <1>3, <2>1 DEF NoJobsWhenDown
<1>4. CASE SmartSync
  BY <1>2, <1>3, <1>4 DEF SmartSync
<1>5. CASE ForceSync
  <2>1. /\ BuildFiles(exists \cap Listed, inParsing, TRUE)
        /\ up' /\ disowned' = disowned
    BY <1>5 DEF ForceSync
  <2>2. QED
    BY <1>1, <1>3, <2>1
<1>6. CASE ForceSyncFails
  BY <1>6, QuietFlight DEF ForceSyncFails
<1>7. CASE UpdateProject
  BY <1>2, <1>3, <1>7 DEF UpdateProject
<1>8. CASE Crash
  BY <1>8, LoseMemoryFlight DEF Crash
<1>9. CASE Start
  <2>1. up' /\ disowned' = disowned /\ \A f \in Files : jobs[f] = << >>
    BY <1>9 DEF Start, NoJobsWhenDown
  <2>2. CASE BuildFiles(exists \cap Listed, {}, TRUE)
    <3>1. SingleFlight'
      BY <1>1, <1>2, <2>1, <2>2, BuildFilesFlight
    <3>2. QED
      BY <2>1, <3>1 DEF NoJobsWhenDown
  <2>3. CASE UNCHANGED << inParsing, jobs >>
    BY <2>1, <2>3 DEF SingleFlight, NoJobsWhenDown
  <2>4. QED
    BY <1>9, <2>2, <2>3 DEF Start
<1>10. ASSUME NEW f \in Files, RebuildFile(f)
       PROVE  SingleFlight' /\ NoJobsWhenDown'
  <2>1. CASE ForgetFile(f).threw
    BY <1>10, <2>1, LoseMemoryFlight DEF RebuildFile
  <2>2. CASE ~ForgetFile(f).threw
    <3>1. BuildFiles({f}, inParsing, flags) /\ up' /\ disowned' = disowned
      BY <1>10, <2>2 DEF RebuildFile
    <3>2. QED
      BY <1>2, <1>3, <3>1
  <2>3. QED
    BY <2>1, <2>2
<1>11. ASSUME NEW f \in Files, RebuildMissingFile(f)
       PROVE  SingleFlight' /\ NoJobsWhenDown'
  BY <1>11, LoseMemoryFlight DEF RebuildMissingFile
<1>12. ASSUME NEW s \in Symbols, LookupFails(s)
       PROVE  SingleFlight' /\ NoJobsWhenDown'
  BY <1>12, LoseMemoryFlight DEF LookupFails
<1>13. QED
  BY <1>4, <1>5, <1>6, <1>7, <1>8, <1>9, <1>10, <1>11, <1>12

(* Events: a delete event may take a marker from a running job, and then   *)
(* disowns it.                                                             *)
LEMMA EventStepFlight ==
  ASSUME FlightInvariant, HandleInotifyEvent
  PROVE  SingleFlight' /\ NoJobsWhenDown'
<1> USE DEF FlightInvariant
<1>1. UNCHANGED << up, jobs >>
  BY DEF HandleInotifyEvent
<1>2. NoJobsWhenDown'
  BY <1>1 DEF NoJobsWhenDown
<1>3. CASE UNCHANGED << inParsing, disowned >>
  BY <1>1, <1>3, QuietFlight
<1>4. ASSUME NEW f, DeleteUnexistFile(f) PROVE SingleFlight'
  <2>1. /\ inParsing' = inParsing \ {f}
        /\ disowned' = IF jobs[f] # << >> THEN disowned \cup {f} ELSE disowned
    BY <1>4 DEF DeleteUnexistFile
  <2>2. QED
    BY <1>1, <2>1 DEF SingleFlight
<1>5. UNCHANGED << inParsing, disowned >> \/ \E f : DeleteUnexistFile(f)
  BY DEF HandleInotifyEvent, HandleEntryCreate, HandleFileModified,
         HandleEntryDeleted
<1>6. QED
  BY <1>2, <1>3, <1>4, <1>5

(* Jobs: a step keeps their number, or ends one job with its marker.       *)
LEMMA JobStepFlight ==
  ASSUME FlightInvariant, NEW f \in Files, JobStep(f)
  PROVE  SingleFlight' /\ NoJobsWhenDown'
<1> USE DEF FlightInvariant
<1>1. PICK i \in DOMAIN jobs[f] :
         ClangParseFile(f, i) \/ WriteParsed(f, i) \/ RemoveParsingFile(f, i)
  BY DEF JobStep
<1>2. jobs \in [Files -> Seq(Job)] /\ jobs[f] \in Seq(Job)
  BY DEF TypeOK
<1>3. up /\ jobs[f] # << >>
  BY <1>1, <1>2 DEF NoJobsWhenDown
<1>4. ASSUME NEW j, Advance(f, i, j), UNCHANGED << up, inParsing, disowned >>
      PROVE  SingleFlight' /\ NoJobsWhenDown'
  <2>1. Len([jobs[f] EXCEPT ![i] = j]) = Len(jobs[f])
    BY <1>2
  <2>2. jobs' = [jobs EXCEPT ![f] = [jobs[f] EXCEPT ![i] = j]]
    BY <1>4 DEF Advance
  <2>3. \A g \in Files \ {f} : jobs'[g] = jobs[g]
    BY <1>2, <2>2
  <2>4. Len(jobs'[f]) = Len(jobs[f])
    BY <1>2, <2>1, <2>2
  <2>5. SingleFlight'
    BY <1>3, <1>4, <2>3, <2>4 DEF SingleFlight
  <2>6. QED
    BY <1>3, <1>4, <2>5 DEF NoJobsWhenDown
<1>5. ASSUME jobs' = [jobs EXCEPT ![f] = RemoveAt(@, i)],
             disowned' = IF Len(jobs[f]) = 1 THEN disowned \ {f} ELSE disowned,
             inParsing \ {f} \subseteq inParsing',
             up' = up
      PROVE  SingleFlight' /\ NoJobsWhenDown'
  <2>1. Len(jobs[f]) = 1 => jobs'[f] = << >>
    BY <1>2, <1>5, RemoveAtType
  <2>2. \A g \in Files \ {f} : jobs'[g] = jobs[g]
    BY <1>2, <1>5
  <2>3. f \notin disowned => Len(jobs[f]) = 1
    BY <1>3 DEF SingleFlight
  <2>4. SingleFlight'
    BY <1>5, <2>1, <2>2, <2>3 DEF SingleFlight
  <2>5. QED
    BY <1>3, <1>5, <2>4 DEF NoJobsWhenDown
<1>6. CASE StatFile(f, i)
  <2>1. UNCHANGED << up, inParsing >>
    BY <1>6 DEF StatFile, memoryVars
  <2>2. QED
    BY <1>4, <1>5, <1>6, <2>1 DEF StatFile
<1>7. CASE LoadFileInfo(f, i)
  BY <1>4, <1>7 DEF LoadFileInfo, memoryVars
<1>8. CASE DigestFile(f, i)
  BY <1>4, <1>8 DEF DigestFile, memoryVars
<1>9. CASE ParseFile(f, i)
  BY <1>4, <1>9 DEF ParseFile, memoryVars
<1>10. CASE WriteParsed(f, i)
  <2>1. \/ LoseMemory
        \/ /\ Advance(f, i, FinishedJob)
           /\ UNCHANGED << up, inParsing, disowned >>
    BY <1>10 DEF WriteParsed, memoryVars
  <2>2. QED
    BY <1>4, <2>1, LoseMemoryFlight
<1>11. CASE RemoveParsingFile(f, i)
  <2>1. \/ LoseMemory
        \/ /\ jobs' = [jobs EXCEPT ![f] = RemoveAt(@, i)]
           /\ disowned' = IF Len(jobs[f]) = 1 THEN disowned \ {f} ELSE disowned
           /\ inParsing' = inParsing \ {f}
           /\ up' = up
    BY <1>11 DEF RemoveParsingFile
  <2>2. QED
    BY <1>5, <2>1, LoseMemoryFlight
<1>12. QED
  BY <1>1, <1>6, <1>7, <1>8, <1>9, <1>10, <1>11 DEF ClangParseFile

(* Every step keeps one job per file.                                      *)
LEMMA FlightStep == FlightInvariant /\ [Next]_vars => FlightInvariant'
<1> SUFFICES ASSUME FlightInvariant, [Next]_vars
             PROVE  SingleFlight' /\ NoJobsWhenDown'
  BY PipelineTypeStep DEF FlightInvariant
<1>1. ASSUME NEW f \in Files,
             EditFile(f) \/ MoveInto(f) \/ RemoveFile(f) \/ MoveAway(f)
      PROVE  SingleFlight' /\ NoJobsWhenDown'
  <2>1. UNCHANGED << up, jobs, inParsing, disowned >>
    BY <1>1 DEF EditFile, MoveInto, RemoveFile, MoveAway, memoryVars
  <2>2. QED
    BY <2>1, QuietFlight DEF FlightInvariant
<1>2. CASE UNCHANGED vars
  BY <1>2, QuietFlight DEF FlightInvariant, vars, memoryVars
<1>3. QED
  BY <1>1, <1>2, ServerStepFlight, EventStepFlight, JobStepFlight DEF Next

(* The server starts down and without jobs.                                *)
LEMMA InitFlight == Init => FlightInvariant
<1>1. Init => SingleFlight /\ NoJobsWhenDown
  BY DEF Init, SingleFlight, NoJobsWhenDown
<1>2. QED
  BY <1>1, InitType DEF FlightInvariant

(* At most one job of a file is in flight, under its marker, whatever      *)
(* timers, events, requests and exits do to the markers: the one exception *)
(* are the files that a delete event has disowned.                         *)
THEOREM OneJobPerFile == Spec => []SingleFlight
<1>1. FlightInvariant => SingleFlight
  BY DEF FlightInvariant
<1>2. QED
  BY <1>1, InitFlight, FlightStep, PTL DEF Spec

-----------------------------------------------------------------------------
(* No stale file is taken for a fresh one, when no file is written twice   *)
(* within the resolution of its modification time.                         *)

(* A job whose mtime is still that of the file has read what is there now. *)
JobSound(f, j) ==
  /\ j.mtime <= clock
  /\ j.stage = "parsed" /\ f \in exists /\ j.mtime = mtime[f]
       => j.content = disk[f]

(* Nothing recorded is newer than the clock, so the next write to a file   *)
(* gives it an mtime that no record and no job has.                        *)
Fresh ==
  /\ \A f \in Files : mtime[f] <= clock
  /\ \A f \in Files : db.info[f] # NoInfo => db.info[f].mtime <= clock
  /\ \A f \in Files : \A i \in DOMAIN jobs[f] : JobSound(f, jobs[f][i])
  /\ NoFalseFresh

FreshInvariant == TypeOK /\ Fresh

(* Every job was there before, or starts or ends with this step.           *)
JobsKept ==
  \A f \in Files : \A i \in DOMAIN jobs'[f] :
     \/ jobs'[f][i] \in {QueuedJob, FinishedJob}
     \/ \E k \in DOMAIN jobs[f] : jobs'[f][i] = jobs[f][k]

(* A job that starts or ends claims nothing.                               *)
LEMMA IdleJobSound ==
  ASSUME TypeOK, NEW f, NEW j \in {QueuedJob, FinishedJob}
  PROVE  JobSound(f, j)
<1>1. clock \in Nat
  BY PipelineAssumption DEF TypeOK
<1>2. j.mtime = 0 /\ j.stage # "parsed"
  BY DEF QueuedJob, FinishedJob
<1>3. QED
  BY <1>1, <1>2 DEF JobSound

(* A step that leaves the disk alone and at most forgets records and jobs. *)
LEMMA QuietFresh ==
  ASSUME FreshInvariant, JobsKept,
         UNCHANGED << disk, mtime, clock, compiled, torn >>,
         \A f \in Files : db'.info[f] \in {db.info[f], NoInfo}
  PROVE  Fresh'
<1> USE DEF FreshInvariant, Fresh
<1>1. exists' = exists
  BY DEF exists
<1>2. \A f \in Files : \A i \in DOMAIN jobs'[f] : JobSound(f, jobs'[f][i])
  BY IdleJobSound DEF JobsKept
<1>3. \A f \in Files : \A i \in DOMAIN jobs'[f] : JobSound(f, jobs[f][i])'
  BY <1>1, <1>2 DEF JobSound
<1>4. \A f \in exists : f \in Files
  BY DEF exists
<1>5. NoFalseFresh'
  BY <1>1, <1>4 DEF NoFalseFresh
<1>6. QED
  BY <1>3, <1>5

(* BuildFiles only adds jobs that start.                                   *)
LEMMA BuildFilesKept ==
  ASSUME TypeOK, NEW S, NEW marked, NEW haveFlags,
         BuildFiles(S, marked, haveFlags)
  PROVE  JobsKept
<1> SUFFICES ASSUME NEW f \in Files, NEW i \in DOMAIN jobs'[f]
             PROVE  \/ jobs'[f][i] = QueuedJob
                    \/ \E k \in DOMAIN jobs[f] : jobs'[f][i] = jobs[f][k]
  BY DEF JobsKept
<1>1. jobs'[f] = Append(jobs[f], QueuedJob) \/ jobs'[f] = jobs[f]
  BY DEF BuildFiles
<1>2. jobs[f] \in Seq(Job)
  BY DEF TypeOK
<1>3. CASE jobs'[f] = Append(jobs[f], QueuedJob)
  <2>1. i \in 1 .. Len(jobs[f]) + 1
    BY <1>2, <1>3
  <2>2. CASE i = Len(jobs[f]) + 1
    BY <1>2, <1>3, <2>2
  <2>3. CASE i \in 1 .. Len(jobs[f])
    BY <1>2, <1>3, <2>3
  <2>4. QED
    BY <1>2, <2>1, <2>2, <2>3
<1>4. QED
  BY <1>1, <1>3

(* Taking a file out of the database forgets at most its record.           *)
LEMMA ForgetFileInfo ==
  ASSUME TypeOK, NEW f \in Files
  PROVE  \A g \in Files : ForgetFile(f).db.info[g] \in {db.info[g], NoInfo}
<1>1. ForgetFile(f).db.info = [db.info EXCEPT ![f] = NoInfo]
  <2>1. RecordsDeleted(FileInfos, db, ForgetFile(f), f, Mod)
    BY DeleteFileRecordsShape DEF ForgetFile, TypeOK
  <2>2. QED
    BY <2>1, Zenon DEF RecordsDeleted
<1>2. DOMAIN db.info = Files
  BY DEF TypeOK, Database
<1>3. QED
  BY <1>1, <1>2

(* A change on the disk: the new mtime is ahead of all records and jobs.   *)
LEMMA DiskStepFresh ==
  ASSUME FreshInvariant, "same_second" \notin Faults, NEW f \in Files,
         EditFile(f) \/ MoveInto(f) \/ RemoveFile(f) \/ MoveAway(f)
  PROVE  Fresh'
<1> USE DEF FreshInvariant
<1>1. UNCHANGED << jobs, db, compiled, torn >>
  BY DEF EditFile, MoveInto, RemoveFile, MoveAway, storeVars
<1>2. /\ clock \in Nat
      /\ disk \in [Files -> Contents \cup {Missing}]
      /\ mtime \in [Files -> 0 .. MaxClock]
      /\ MaxClock \in Nat
  BY PipelineAssumption DEF TypeOK
<1>3. \A g \in Files : \A i \in DOMAIN jobs[g] : jobs[g][i].mtime \in Nat
  <2>1. \A g \in Files : \A i \in DOMAIN jobs[g] : jobs[g][i] \in Job
    BY DEF TypeOK
  <2>2. \A j \in Job : j.mtime \in Nat
    BY <1>2 DEF Job
  <2>3. QED
    BY <2>1, <2>2
<1>4. \A g \in Files : db.info[g] # NoInfo => db.info[g].mtime \in Nat
  BY <1>2 DEF TypeOK, Database, FileInfos
<1>5. CASE Store(f)
  <2>1. /\ clock' = clock + 1
        /\ mtime' = [mtime EXCEPT ![f] = clock + 1]
        /\ \A g \in Files \ {f} : disk'[g] = disk[g]
    BY <1>2, <1>5 DEF Store
  <2>2. \A g \in Files \ {f} : g \in exists' <=> g \in exists
    BY <2>1 DEF exists
  <2>3. \A g \in Files : mtime'[g] <= clock'
    BY <1>2, <2>1 DEF Fresh
  <2>4. \A g \in Files : db'.info[g] # NoInfo => db'.info[g].mtime <= clock'
    BY <1>1, <1>2, <1>4, <2>1 DEF Fresh
  <2>5. \A g \in Files : \A i \in DOMAIN jobs'[g] : JobSound(g, jobs[g][i])'
    <3> SUFFICES ASSUME NEW g \in Files, NEW i \in DOMAIN jobs[g]
                 PROVE  JobSound(g, jobs[g][i])'
      BY <1>1
    <3>1. JobSound(g, jobs[g][i])
      BY DEF Fresh
    <3>2. CASE g = f
      BY <1>1, <1>2, <1>3, <2>1, <3>1, <3>2 DEF JobSound
    <3>3. CASE g # f
      BY <1>1, <1>2, <1>3, <2>1, <2>2, <3>1, <3>3 DEF JobSound
    <3>4. QED
      BY <3>2, <3>3
  <2>6. NoFalseFresh'
    <3> SUFFICES ASSUME NEW g \in exists', ~torn, db.info[g] # NoInfo,
                        db.info[g].mtime = mtime'[g]
                 PROVE  compiled[g] = disk'[g]
      BY <1>1 DEF NoFalseFresh
    <3>1. g \in Files
      BY DEF exists
    <3>2. g # f
      BY <1>2, <1>4, <2>1, <3>1 DEF Fresh
    <3>3. QED
      BY <2>1, <2>2, <3>1, <3>2 DEF Fresh, NoFalseFresh
  <2>7. QED
    BY <2>3, <2>4, <2>5, <2>6 DEF Fresh
<1>6. CASE Vanish(f)
  <2>1. /\ clock' = clock
        /\ mtime' = [mtime EXCEPT ![f] = 0]
        /\ \A g \in Files \ {f} : disk'[g] = disk[g]
        /\ f \notin exists'
    BY <1>2, <1>6 DEF Vanish, exists
  <2>2. \A g \in exists' : g \in exists /\ g # f
    BY <2>1 DEF exists
  <2>3. \A g \in Files : mtime'[g] <= clock'
    BY <1>2, <2>1 DEF Fresh
  <2>4. \A g \in Files : \A i \in DOMAIN jobs'[g] : JobSound(g, jobs[g][i])'
    <3> SUFFICES ASSUME NEW g \in Files, NEW i \in DOMAIN jobs[g]
                 PROVE  JobSound(g, jobs[g][i])'
      BY <1>1
    <3>1. JobSound(g, jobs[g][i])
      BY DEF Fresh
    <3>2. QED
      BY <1>1, <1>2, <2>1, <2>2, <3>1 DEF JobSound
  <2>5. NoFalseFresh'
    BY <1>1, <1>2, <2>1, <2>2 DEF Fresh, NoFalseFresh, exists
  <2>6. QED
    BY <1>1, <2>1, <2>3, <2>4, <2>5 DEF Fresh
<1>7. QED
  BY <1>5, <1>6 DEF EditFile, MoveInto, RemoveFile, MoveAway

(* The timers, the requests and the life of the process.                   *)
LEMMA ServerStepFresh ==
  ASSUME FreshInvariant,
         \/ SmartSync \/ ForceSync \/ ForceSyncFails \/ UpdateProject
         \/ Crash \/ Start
         \/ \E f \in Files : RebuildFile(f) \/ RebuildMissingFile(f)
         \/ \E s \in Symbols : LookupFails(s)
  PROVE  Fresh'
<1>1. TypeOK
  BY DEF FreshInvariant
<1>2. JobsKept
  <2>1. CASE \E S, marked, haveFlags : BuildFiles(S, marked, haveFlags)
    BY <1>1, <2>1, BuildFilesKept
  <2>2. CASE LoseMemory
    BY <2>2 DEF LoseMemory, JobsKept
  <2>3. CASE UNCHANGED jobs
    BY <2>3 DEF JobsKept
  <2>4. QED
    BY <2>1, <2>2, <2>3 DEF SmartSync, ForceSync, ForceSyncFails,
       UpdateProject, Crash, Start, RebuildFile, RebuildMissingFile, LookupFails
<1>3. UNCHANGED << disk, mtime, clock, compiled, torn >>
  BY DEF SmartSync, ForceSync, ForceSyncFails, UpdateProject, Crash, Start,
         RebuildFile, RebuildMissingFile, LookupFails, diskVars, storeVars
<1>4. \A g \in Files : db'.info[g] \in {db.info[g], NoInfo}
  <2>1. CASE \E f \in Files : RebuildFile(f)
    BY <1>1, <2>1, ForgetFileInfo DEF RebuildFile
  <2>2. CASE UNCHANGED db
    BY <2>2
  <2>3. QED
    BY <2>1, <2>2 DEF SmartSync, ForceSync, ForceSyncFails, UpdateProject,
       Crash, Start, RebuildMissingFile, LookupFails, storeVars
<1>5. QED
  BY <1>2, <1>3, <1>4, QuietFresh

(* Events: at most the record of a deleted file is forgotten.              *)
LEMMA EventStepFresh ==
  ASSUME FreshInvariant, HandleInotifyEvent
  PROVE  Fresh'
<1>1. TypeOK
  BY DEF FreshInvariant
<1>2. UNCHANGED << disk, mtime, clock, jobs, compiled, torn >>
  BY DEF HandleInotifyEvent, diskVars
<1>3. Head(events).file \in Files
  <2>1. events \in Seq(Event) /\ events # << >>
    BY <1>1 DEF HandleInotifyEvent, TypeOK
  <2>2. Head(events) \in Event
    BY <2>1
  <2>3. QED
    BY <2>2 DEF Event
<1>4. UNCHANGED db \/ \E f \in Files : DeleteUnexistFile(f)
  BY <1>3 DEF HandleInotifyEvent, HandleEntryCreate, HandleFileModified,
              HandleEntryDeleted
<1>5. \A g \in Files : db'.info[g] \in {db.info[g], NoInfo}
  BY <1>1, <1>4, ForgetFileInfo DEF DeleteUnexistFile
<1>6. JobsKept
  BY <1>2 DEF JobsKept
<1>7. QED
  BY <1>2, <1>5, <1>6, QuietFresh

(* Jobs: the mtime is read first and the content last, so the mtime that   *)
(* is recorded is at most as new as the content.                           *)
LEMMA JobStepFresh ==
  ASSUME FreshInvariant, NEW f \in Files, JobStep(f)
  PROVE  Fresh'
<1> USE DEF FreshInvariant
<1>1. PICK i \in DOMAIN jobs[f] :
         ClangParseFile(f, i) \/ WriteParsed(f, i) \/ RemoveParsingFile(f, i)
  BY DEF JobStep
<1>2. /\ jobs \in [Files -> Seq(Job)]
      /\ jobs[f] \in Seq(Job)
      /\ jobs[f][i] \in Job
      /\ JobSound(f, jobs[f][i])
  BY DEF TypeOK, Fresh
<1>3. \A j : Advance(f, i, j)
        => /\ \A g \in Files : DOMAIN jobs'[g] = DOMAIN jobs[g]
           /\ \A g \in Files : \A k \in DOMAIN jobs[g] :
                 jobs'[g][k] = IF g = f /\ k = i THEN j ELSE jobs[g][k]
  BY <1>2 DEF Advance
<1>4. ASSUME NEW j, Advance(f, i, j), JobSound(f, j),
             UNCHANGED << disk, mtime, clock, compiled, torn, db >>
      PROVE  Fresh'
  <2>1. exists' = exists
    BY <1>4 DEF exists
  <2>2. \A g \in Files : \A k \in DOMAIN jobs'[g] : JobSound(g, jobs[g][k])'
    BY <1>3, <1>4, <2>1 DEF Fresh, JobSound
  <2>3. NoFalseFresh'
    BY <1>4, <2>1 DEF Fresh, NoFalseFresh
  <2>4. QED
    BY <1>4, <2>2, <2>3 DEF Fresh
<1>5. JobSound(f, FinishedJob)
  BY IdleJobSound
<1>6. ASSUME jobs' = [jobs EXCEPT ![f] = RemoveAt(@, i)],
             UNCHANGED << disk, mtime, clock, compiled, torn, db >>
      PROVE  Fresh'
  <2>1. \A k \in DOMAIN jobs'[f] : \E n \in DOMAIN jobs[f] : jobs'[f][k] = jobs[f][n]
    BY <1>2, <1>6, RemoveAtElements
  <2>2. \A g \in Files \ {f} : jobs'[g] = jobs[g]
    BY <1>2, <1>6
  <2>3. JobsKept
    BY <2>1, <2>2 DEF JobsKept
  <2>4. QED
    BY <1>6, <2>3, QuietFresh
<1>7. CASE StatFile(f, i)
  <2>1. UNCHANGED << disk, mtime, clock, compiled, torn, db >>
    BY <1>7 DEF StatFile, diskVars, storeVars
  <2>2. JobSound(f, [jobs[f][i] EXCEPT !.stage = "statted", !.mtime = mtime[f]])
    BY <1>2 DEF JobSound, Job, Fresh
  <2>3. QED
    BY <1>4, <1>6, <1>7, <2>1, <2>2 DEF StatFile
<1>8. CASE LoadFileInfo(f, i)
  <2>1. UNCHANGED << disk, mtime, clock, compiled, torn, db >>
    BY <1>8 DEF LoadFileInfo, diskVars, storeVars
  <2>2. \A d : JobSound(f, [jobs[f][i] EXCEPT !.stage = "loaded", !.md5 = d])
    BY <1>2 DEF JobSound, Job
  <2>3. QED
    BY <1>4, <1>5, <1>8, <2>1, <2>2 DEF LoadFileInfo
<1>9. CASE DigestFile(f, i)
  <2>1. UNCHANGED << disk, mtime, clock, compiled, torn, db >>
    BY <1>9 DEF DigestFile, diskVars, storeVars
  <2>2. \A d : JobSound(f, [jobs[f][i] EXCEPT !.stage = "digested", !.md5 = d])
    BY <1>2 DEF JobSound, Job
  <2>3. QED
    BY <1>4, <1>5, <1>9, <2>1, <2>2 DEF DigestFile
<1>10. CASE ParseFile(f, i)
  <2>1. UNCHANGED << disk, mtime, clock, compiled, torn, db >>
    BY <1>10 DEF ParseFile, diskVars, storeVars
  <2>2. JobSound(f, [jobs[f][i] EXCEPT !.stage = "parsed", !.content = disk[f]])
    BY <1>2 DEF JobSound, Job
  <2>3. QED
    BY <1>4, <1>5, <1>10, <2>1, <2>2 DEF ParseFile
<1>11. CASE WriteParsed(f, i)
  <2> DEFINE job == jobs[f][i]
             tu  == TuOf[f][job.content]
             fi  == CompiledFileInfo(f, job)
             w   == WriteCompiledFile(db, f, tu, fi, Mod, exists)
  <2>1. job.stage = "parsed" /\ job.content \in Contents
    BY <1>2, <1>11 DEF WriteParsed, Job
  <2>2. tu \in TranslationUnit
    BY <2>1, PipelineAssumption
  <2>3. fi \in FileInfos /\ fi.mtime = job.mtime /\ fi # NoInfo
    BY <1>2, <2>1, PipelineAssumption DEF CompiledFileInfo, FileInfos, Job
  <2>4. w.db.info = [db.info EXCEPT ![f] = fi] /\ w.threw \in BOOLEAN
    <3>1. CompiledWritten(FileInfos, db, w, f, tu, fi, Mod)
      BY <2>2, <2>3, WriteCompiledFileShape DEF TypeOK
    <3>2. QED
      BY <3>1, Zenon DEF CompiledWritten
  <2>5. /\ db' = w.db
        /\ torn' = (torn \/ w.threw)
        /\ IF w.threw
             THEN LoseMemory /\ UNCHANGED compiled
             ELSE /\ compiled' = [compiled EXCEPT ![f] = job.content]
                  /\ Advance(f, i, FinishedJob)
        /\ UNCHANGED << disk, mtime, clock >>
    BY <1>11 DEF WriteParsed, diskVars
  <2> HIDE DEF w
  <2>6. exists' = exists /\ \A g \in exists : g \in Files
    BY <2>5 DEF exists
  <2>7. DOMAIN db.info = Files
    BY DEF TypeOK, Database
  <2>8. \A g \in Files : db'.info[g] # NoInfo => db'.info[g].mtime <= clock'
    BY <1>2, <2>3, <2>4, <2>5, <2>7 DEF Fresh, JobSound
  <2>9. \A g \in Files : \A k \in DOMAIN jobs'[g] : JobSound(g, jobs[g][k])'
    <3>1. CASE w.threw
      BY <2>5, <3>1 DEF LoseMemory
    <3>2. CASE ~w.threw
      BY <1>3, <1>5, <2>5, <2>6, <3>2 DEF Fresh, JobSound
    <3>3. QED
      BY <3>1, <3>2
  <2>10. NoFalseFresh'
    <3>1. CASE w.threw
      BY <2>5, <3>1 DEF NoFalseFresh
    <3>2. CASE ~w.threw
      <4> SUFFICES ASSUME NEW g \in exists, ~torn, db'.info[g] # NoInfo,
                          db'.info[g].mtime = mtime[g]
                   PROVE  compiled'[g] = disk[g]
        BY <2>5, <2>6, <3>2 DEF NoFalseFresh
      <4>1. DOMAIN compiled = Files
        BY DEF TypeOK
      <4>2. CASE g = f
        BY <1>2, <2>1, <2>3, <2>4, <2>5, <2>6, <2>7, <3>2, <4>1, <4>2 DEF JobSound
      <4>3. CASE g # f
        BY <2>4, <2>5, <2>6, <2>7, <3>2, <4>1, <4>3 DEF Fresh, NoFalseFresh
      <4>4. QED
        BY <4>2, <4>3
    <3>3. QED
      BY <3>1, <3>2
  <2>11. QED
    BY <2>5, <2>8, <2>9, <2>10 DEF Fresh
<1>12. CASE RemoveParsingFile(f, i)
  <2>1. UNCHANGED << disk, mtime, clock, compiled, torn, db >>
    BY <1>12 DEF RemoveParsingFile, diskVars, storeVars
  <2>2. CASE LoseMemory
    <3>1. JobsKept
      BY <2>2 DEF LoseMemory, JobsKept
    <3>2. QED
      BY <2>1, <3>1, QuietFresh
  <2>3. QED
    BY <1>6, <1>12, <2>1, <2>2 DEF RemoveParsingFile
<1>13. QED
  BY <1>1, <1>7, <1>8, <1>9, <1>10, <1>11, <1>12 DEF ClangParseFile

(* Every step keeps what has been recorded behind what is on the disk.     *)
LEMMA FreshStep ==
  ASSUME "same_second" \notin Faults
  PROVE  FreshInvariant /\ [Next]_vars => FreshInvariant'
<1> SUFFICES ASSUME FreshInvariant, [Next]_vars PROVE Fresh'
  BY PipelineTypeStep DEF FreshInvariant
<1>1. CASE UNCHANGED vars
  <2>1. UNCHANGED << disk, mtime, clock, jobs, db, compiled, torn >>
    BY <1>1 DEF vars, diskVars, storeVars
  <2>2. JobsKept
    BY <2>1 DEF JobsKept
  <2>3. QED
    BY <2>1, <2>2, QuietFresh
<1>2. QED
  BY <1>1, DiskStepFresh, ServerStepFresh, EventStepFresh, JobStepFresh DEF Next

(* Skipping a file because its mtime has not changed is right: unless an   *)
(* exception tore a parse result, an equal mtime in the database means     *)
(* that the present content was indexed, however edits, jobs, deletions    *)
(* and crashes are interleaved.  The assumption is that no file is written *)
(* twice within a second.                                                  *)
THEOREM FreshIsIndexed ==
  ASSUME "same_second" \notin Faults
  PROVE  Spec => []NoFalseFresh
<1>1. Init => FreshInvariant
  <2> SUFFICES ASSUME Init PROVE FreshInvariant
    OBVIOUS
  <2>1. TypeOK
    BY InitType
  <2>2. \A f \in Files : db.info[f] = NoInfo /\ jobs[f] = << >>
    BY DEF Init, EmptyDatabase
  <2>3. \A f \in exists : f \in Files
    BY DEF exists
  <2>4. NoFalseFresh
    BY <2>2, <2>3 DEF NoFalseFresh
  <2>5. \A f \in Files : mtime[f] <= clock
    BY DEF Init
  <2>6. QED
    BY <2>1, <2>2, <2>4, <2>5 DEF FreshInvariant, Fresh
<1>2. FreshInvariant => NoFalseFresh
  BY DEF FreshInvariant, Fresh
<1>3. QED
  BY <1>1, <1>2, FreshStep, PTL DEF Spec

-----------------------------------------------------------------------------
(* The pipeline implements SymbolIndex.                                    *)

(* Without a flag cache there is nothing to watch and nothing to parse.    *)
QuietWithoutFlags ==
  ~flags => events = << >> /\ \A f \in Files : jobs[f] = << >>

MayVanish == Faults \cap {"delete", "move_away"} # {}

(* What has been parsed was on the disk.                                   *)
ParsedFound ==
  \A f \in Files : \A i \in DOMAIN jobs[f] :
     jobs[f][i].stage = "parsed" => f \in exists \/ MayVanish

ReadyInvariant == FlightInvariant /\ QuietWithoutFlags /\ ParsedFound

(* Jobs that were there before, start or end have nothing new parsed.      *)
LEMMA KeptFound ==
  ASSUME ParsedFound, JobsKept, exists' = exists
  PROVE  ParsedFound'
<1>1. QueuedJob.stage # "parsed" /\ FinishedJob.stage # "parsed"
  BY DEF QueuedJob, FinishedJob
<1>2. QED
  BY <1>1 DEF ParsedFound, JobsKept, MayVanish

(* A change on the disk.                                                   *)
LEMMA DiskStepReady ==
  ASSUME ReadyInvariant, NEW f \in Files,
         EditFile(f) \/ MoveInto(f) \/ RemoveFile(f) \/ MoveAway(f)
  PROVE  QuietWithoutFlags' /\ ParsedFound'
<1> USE DEF ReadyInvariant
<1>1. UNCHANGED << jobs, flags >>
  BY DEF EditFile, MoveInto, RemoveFile, MoveAway, memoryVars
<1>2. ~flags => events' = events
  BY DEF EditFile, MoveInto, RemoveFile, MoveAway, Notify
<1>3. QuietWithoutFlags'
  BY <1>1, <1>2 DEF QuietWithoutFlags
<1>4. MayVanish \/ \A g \in exists : g \in exists'
  <2>1. CASE RemoveFile(f) \/ MoveAway(f)
    BY <2>1 DEF RemoveFile, MoveAway, MayVanish
  <2>2. CASE Store(f)
    BY <2>2, PipelineAssumption DEF Store, exists, FlightInvariant, TypeOK
  <2>3. QED
    BY <2>1, <2>2 DEF EditFile, MoveInto
<1>5. ParsedFound'
  BY <1>1, <1>4 DEF ParsedFound, MayVanish
<1>6. QED
  BY <1>3, <1>5

(* The timers, the requests and the life of the process.                   *)
LEMMA ServerStepReady ==
  ASSUME ReadyInvariant,
         \/ SmartSync \/ ForceSync \/ ForceSyncFails \/ UpdateProject
         \/ Crash \/ Start
         \/ \E f \in Files : RebuildFile(f) \/ RebuildMissingFile(f)
         \/ \E s \in Symbols : LookupFails(s)
  PROVE  QuietWithoutFlags' /\ ParsedFound'
<1>1. TypeOK /\ QuietWithoutFlags /\ ParsedFound
  BY DEF ReadyInvariant, FlightInvariant
<1>2. exists' = exists
  BY DEF SmartSync, ForceSync, ForceSyncFails, UpdateProject, Crash, Start,
         RebuildFile, RebuildMissingFile, LookupFails, diskVars, exists
<1>3. CASE LoseMemory
  BY <1>3 DEF LoseMemory, QuietWithoutFlags, ParsedFound
<1>4. ASSUME NEW S, NEW marked, BuildFiles(S, marked, flags),
             UNCHANGED << events, flags >>
      PROVE  QuietWithoutFlags' /\ ParsedFound'
  <2>1. ~flags => \A f \in Files : jobs'[f] = jobs[f]
    BY <1>4 DEF BuildFiles
  <2>2. JobsKept
    BY <1>1, <1>4, BuildFilesKept
  <2>3. ParsedFound'
    BY <1>1, <1>2, <2>2, KeptFound
  <2>4. QED
    BY <1>1, <1>4, <2>1, <2>3 DEF QuietWithoutFlags
<1>5. ASSUME NEW S, NEW marked, BuildFiles(S, marked, TRUE), flags'
      PROVE  QuietWithoutFlags' /\ ParsedFound'
  <2>1. JobsKept
    BY <1>1, <1>5, BuildFilesKept
  <2>2. ParsedFound'
    BY <1>1, <1>2, <2>1, KeptFound
  <2>3. QED
    BY <1>5, <2>2 DEF QuietWithoutFlags
<1>6. ASSUME UNCHANGED << events, flags, jobs >>
      PROVE  QuietWithoutFlags' /\ ParsedFound'
  BY <1>1, <1>2, <1>6 DEF QuietWithoutFlags, ParsedFound, MayVanish
<1>7. CASE SmartSync \/ UpdateProject
  BY <1>4, <1>7 DEF SmartSync, UpdateProject
<1>8. CASE ForceSync
  <2>1. BuildFiles(exists \cap Listed, inParsing, TRUE) /\ flags'
    BY <1>8 DEF ForceSync
  <2>2. QED
    BY <1>5, <2>1
<1>9. CASE ForceSyncFails
  BY <1>6, <1>9 DEF ForceSyncFails
<1>10. CASE Start
  <2>1. CASE flags' /\ BuildFiles(absSrc', {}, TRUE)
    BY <1>5, <2>1
  <2>2. CASE UNCHANGED << events, flags, jobs >>
    BY <1>6, <2>2
  <2>3. QED
    BY <1>10, <2>1, <2>2 DEF Start
<1>11. CASE Crash \/ \E f \in Files : RebuildMissingFile(f)
  BY <1>3, <1>11 DEF Crash, RebuildMissingFile
<1>12. CASE \E s \in Symbols : LookupFails(s)
  BY <1>3, <1>12 DEF LookupFails
<1>13. CASE \E f \in Files : RebuildFile(f)
  BY <1>3, <1>4, <1>13 DEF RebuildFile
<1>14. QED
  BY <1>7, <1>8, <1>9, <1>10, <1>11, <1>12, <1>13

(* A step of a job.                                                        *)
LEMMA JobStepReady ==
  ASSUME ReadyInvariant, NEW f \in Files, JobStep(f)
  PROVE  QuietWithoutFlags' /\ ParsedFound'
<1>1. TypeOK /\ QuietWithoutFlags /\ ParsedFound
  BY DEF ReadyInvariant, FlightInvariant
<1>2. PICK i \in DOMAIN jobs[f] :
         ClangParseFile(f, i) \/ WriteParsed(f, i) \/ RemoveParsingFile(f, i)
  BY DEF JobStep
<1>3. /\ jobs \in [Files -> Seq(Job)] /\ jobs[f] \in Seq(Job)
      /\ jobs[f][i] \in Job
  BY <1>1 DEF TypeOK
<1>4. flags
  BY <1>1, <1>2, <1>3 DEF QuietWithoutFlags
<1>5. exists' = exists
  BY <1>2 DEF ClangParseFile, StatFile, LoadFileInfo, DigestFile, ParseFile,
              WriteParsed, RemoveParsingFile, diskVars, exists
<1>6. CASE LoseMemory
  BY <1>6 DEF LoseMemory, QuietWithoutFlags, ParsedFound
<1>7. ASSUME flags', NEW j, Advance(f, i, j),
             j.stage = "parsed" => f \in exists
      PROVE  QuietWithoutFlags' /\ ParsedFound'
  <2>1. \A g \in Files : DOMAIN jobs'[g] = DOMAIN jobs[g]
    BY <1>3, <1>7 DEF Advance
  <2>2. \A g \in Files : \A k \in DOMAIN jobs[g] :
           jobs'[g][k] = IF g = f /\ k = i THEN j ELSE jobs[g][k]
    BY <1>3, <1>7 DEF Advance
  <2>3. QED
    BY <1>1, <1>5, <1>7, <2>1, <2>2 DEF QuietWithoutFlags, ParsedFound, MayVanish
<1>8. ASSUME flags', jobs' = [jobs EXCEPT ![f] = RemoveAt(@, i)]
      PROVE  QuietWithoutFlags' /\ ParsedFound'
  <2>1. \A k \in DOMAIN jobs'[f] : \E n \in DOMAIN jobs[f] : jobs'[f][k] = jobs[f][n]
    BY <1>3, <1>8, RemoveAtElements
  <2>2. \A g \in Files \ {f} : jobs'[g] = jobs[g]
    BY <1>3, <1>8
  <2>3. JobsKept
    BY <2>1, <2>2 DEF JobsKept
  <2>4. QED
    BY <1>1, <1>5, <1>8, <2>3, KeptFound DEF QuietWithoutFlags
<1>9. FinishedJob.stage # "parsed"
  BY DEF FinishedJob
<1>10. CASE StatFile(f, i)
  <2>1. flags'
    BY <1>4, <1>10 DEF StatFile, memoryVars
  <2>2. [jobs[f][i] EXCEPT !.stage = "statted", !.mtime = mtime[f]].stage # "parsed"
    BY <1>3 DEF Job
  <2>3. QED
    BY <1>7, <1>8, <1>10, <2>1, <2>2 DEF StatFile
<1>11. CASE LoadFileInfo(f, i)
  <2>1. flags'
    BY <1>4, <1>11 DEF LoadFileInfo, memoryVars
  <2>2. \A d : [jobs[f][i] EXCEPT !.stage = "loaded", !.md5 = d].stage # "parsed"
    BY <1>3 DEF Job
  <2>3. QED
    BY <1>7, <1>9, <1>11, <2>1, <2>2 DEF LoadFileInfo
<1>12. CASE DigestFile(f, i)
  <2>1. flags'
    BY <1>4, <1>12 DEF DigestFile, memoryVars
  <2>2. \A d : [jobs[f][i] EXCEPT !.stage = "digested", !.md5 = d].stage # "parsed"
    BY <1>3 DEF Job
  <2>3. QED
    BY <1>7, <1>9, <1>12, <2>1, <2>2 DEF DigestFile
<1>13. CASE ParseFile(f, i)
  <2>1. flags'
    BY <1>4, <1>13 DEF ParseFile, memoryVars
  <2>2. QED
    BY <1>7, <1>9, <1>13, <2>1 DEF ParseFile
<1>14. CASE WriteParsed(f, i)
  <2>1. \/ LoseMemory
        \/ /\ Advance(f, i, FinishedJob)
           /\ UNCHANGED flags
    BY <1>14 DEF WriteParsed, memoryVars
  <2>2. QED
    BY <1>4, <1>6, <1>7, <1>9, <2>1
<1>15. CASE RemoveParsingFile(f, i)
  <2>1. \/ LoseMemory
        \/ /\ jobs' = [jobs EXCEPT ![f] = RemoveAt(@, i)]
           /\ flags' = flags
    BY <1>15 DEF RemoveParsingFile
  <2>2. QED
    BY <1>4, <1>6, <1>8, <2>1
<1>16. QED
  BY <1>2, <1>10, <1>11, <1>12, <1>13, <1>14, <1>15 DEF ClangParseFile

(* Every step keeps the preconditions of the handlers.                     *)
LEMMA ReadyStep == ReadyInvariant /\ [Next]_vars => ReadyInvariant'
<1> SUFFICES ASSUME ReadyInvariant, [Next]_vars
             PROVE  QuietWithoutFlags' /\ ParsedFound'
  BY FlightStep DEF ReadyInvariant
<1>1. CASE HandleInotifyEvent
  <2>1. flags /\ UNCHANGED << flags, jobs, disk >>
    BY <1>1 DEF HandleInotifyEvent, ReadyInvariant, QuietWithoutFlags, diskVars
  <2>2. QED
    BY <2>1 DEF ReadyInvariant, QuietWithoutFlags, ParsedFound, MayVanish, exists
<1>2. CASE UNCHANGED vars
  BY <1>2 DEF ReadyInvariant, QuietWithoutFlags, ParsedFound, MayVanish, exists,
              vars, memoryVars, diskVars
<1>3. QED
  BY <1>1, <1>2, DiskStepReady, ServerStepReady, JobStepReady DEF Next

(* The operators on the store are the same in the instance.                *)
LEMMA SameStore ==
  ASSUME NEW d, NEW f, NEW tu, NEW fi, NEW m, NEW ex
  PROVE  /\ Index!DeleteFileRecords(d, f, m, ex) = DeleteFileRecords(d, f, m, ex)
         /\ Index!WriteCompiledFile(d, f, tu, fi, m, ex)
              = WriteCompiledFile(d, f, tu, fi, m, ex)
         /\ Index!EmptyDatabase = EmptyDatabase
         /\ Index!Mod = Mod
<1> USE DEF Index!NoModule, NoModule, Index!NoLine, NoLine, Index!Paths, Paths,
            Index!Min, Min, Index!Max, Max, Index!Outcome, Outcome,
            Index!Before, Before, Index!ScanThrows, ScanThrows,
            Index!SameModule, SameModule,
            Index!absolute_path_throws, absolute_path_throws
<1>1. Index!DeleteFileRecords(d, f, m, ex) = DeleteFileRecords(d, f, m, ex)
  BY DEF Index!DeleteFileRecords, DeleteFileRecords,
         Index!DeleteFileDefinedSymbolInfo, DeleteFileDefinedSymbolInfo,
         Index!DeleteFileReferredSymbolInfo, DeleteFileReferredSymbolInfo,
         Index!RemoveSymbolLocation, RemoveSymbolLocation
<1>2. Index!WriteCompiledFile(d, f, tu, fi, m, ex)
        = WriteCompiledFile(d, f, tu, fi, m, ex)
  BY DEF Index!WriteCompiledFile, WriteCompiledFile,
         Index!WriteFileDefinitions, WriteFileDefinitions,
         Index!WriteFileReferences, WriteFileReferences,
         Index!ReferredSymbols, ReferredSymbols,
         Index!DroppedModules, DroppedModules,
         Index!ChangedModules, ChangedModules,
         Index!GoneSymbols, GoneSymbols, Index!FreshSymbols, FreshSymbols,
         Index!MovedSymbols, MovedSymbols, Index!LocationIn, LocationIn,
         Index!DefinedSymbols, DefinedSymbols, Index!LoadThrows, LoadThrows,
         Index!LoadFileDefinedSymbolInfo, LoadFileDefinedSymbolInfo,
         Index!QueryThrows, QueryThrows,
         Index!QuerySymbolDefinition, QuerySymbolDefinition,
         Index!AddSymbolLocation, AddSymbolLocation
<1>3. Index!EmptyDatabase = EmptyDatabase
  BY DEF Index!EmptyDatabase, EmptyDatabase
<1>4. Index!Mod = Mod
  BY DEF Index!Mod, Mod
<1>5. QED
  BY <1>1, <1>2, <1>3, <1>4

(* What the index does not see.                                            *)
LEMMA IndexStutter ==
  ASSUME UNCHANGED << db, disk, flags, up, torn, compiled >>
  PROVE  UNCHANGED Index!vars
BY DEF Index!vars, exists

(* A server that ends without a write.                                     *)
LEMMA IndexStop ==
  ASSUME up, LoseMemory, UNCHANGED << db, disk, torn, compiled >>
  PROVE  Index!Next
<1>1. Index!Stop
  BY DEF Index!Stop, Index!Continue, LoseMemory, exists
<1>2. QED
  BY <1>1 DEF Index!Next

(* What the index takes for the parse results written.                     *)
Written == [f \in Files |-> IF compiled[f] = Missing THEN NoTU
                            ELSE TuOf[f][compiled[f]]]

(* A change on the disk is one of the index, or an edit.                   *)
LEMMA DiskStepRefines ==
  ASSUME TypeOK, NEW f \in Files,
         EditFile(f) \/ MoveInto(f) \/ RemoveFile(f) \/ MoveAway(f)
  PROVE  [Index!Next]_(Index!vars)
<1>1. UNCHANGED << db, flags, up, torn, compiled >>
  BY DEF EditFile, MoveInto, RemoveFile, MoveAway, memoryVars, storeVars
<1>2. CASE Store(f)
  <2>1. exists' = exists \cup {f}
    BY <1>2, PipelineAssumption DEF Store, exists, TypeOK
  <2>2. CASE f \in exists
    <3>1. exists' = exists
      BY <2>1, <2>2
    <3>2. QED
      BY <1>1, <3>1 DEF Index!vars
  <2>3. CASE f \notin exists
    <3>1. Index!CreateFile(f)
      BY <1>1, <2>1, <2>3 DEF Index!CreateFile
    <3>2. QED
      BY <3>1 DEF Index!Next
  <2>4. QED
    BY <2>2, <2>3
<1>3. CASE RemoveFile(f) \/ MoveAway(f)
  <2>1. Vanish(f) /\ MayVanish
    BY <1>3 DEF RemoveFile, MoveAway, MayVanish
  <2>2. f \in exists /\ exists' = exists \ {f}
    BY <2>1 DEF Vanish, exists, TypeOK
  <2>3. Index!RemoveFile(f)
    BY <1>1, <2>1, <2>2 DEF Index!RemoveFile, MayVanish
  <2>4. QED
    BY <2>3 DEF Index!Next
<1>4. QED
  BY <1>2, <1>3 DEF EditFile, MoveInto

(* A timer, a request, a start or an end of the server.                    *)
LEMMA ServerStepRefines ==
  ASSUME \/ SmartSync \/ ForceSync \/ ForceSyncFails \/ UpdateProject
         \/ Crash \/ Start
         \/ \E f \in Files : RebuildFile(f) \/ RebuildMissingFile(f)
         \/ \E s \in Symbols : LookupFails(s),
         flags \in BOOLEAN
  PROVE  [Index!Next]_(Index!vars)
<1>1. CASE SmartSync \/ ForceSyncFails \/ UpdateProject
  <2>1. UNCHANGED << db, disk, flags, up, torn, compiled >>
    BY <1>1 DEF SmartSync, ForceSyncFails, UpdateProject, diskVars, storeVars
  <2>2. QED
    BY <2>1, IndexStutter
<1>2. CASE ForceSync
  <2>1. Index!LoadFlags
    BY <1>2 DEF ForceSync, Index!LoadFlags, diskVars, exists
  <2>2. QED
    BY <2>1 DEF Index!Next
<1>3. CASE Start
  <2>1. Index!Restart
    BY <1>3 DEF Start, Index!Restart, diskVars, exists
  <2>2. QED
    BY <2>1 DEF Index!Next
<1>4. CASE \/ Crash
           \/ \E f \in Files : RebuildMissingFile(f)
           \/ \E s \in Symbols : LookupFails(s)
  <2>1. up /\ LoseMemory /\ UNCHANGED << db, disk, torn, compiled >>
    BY <1>4 DEF Crash, RebuildMissingFile, LookupFails, diskVars, storeVars
  <2>2. QED
    BY <2>1, IndexStop
<1>5. ASSUME NEW f \in Files, RebuildFile(f) PROVE Index!Next
  <2> DEFINE w == ForgetFile(f)
  <2>1. w = Index!DeleteFileRecords(db, f, Index!Mod, exists)
    BY SameStore DEF ForgetFile
  <2>2. w.threw \in BOOLEAN
    BY DEF ForgetFile, DeleteFileRecords, Outcome
  <2>3. /\ up /\ f \in exists /\ db' = w.db
        /\ IF w.threw THEN up' = FALSE /\ flags' = FALSE
                      ELSE up' = up /\ flags' = flags
        /\ UNCHANGED << disk, torn, compiled >>
    BY <1>5 DEF RebuildFile, LoseMemory, diskVars
  <2> HIDE DEF w
  <2>4. Index!RebuildFile(f)
    BY <2>1, <2>2, <2>3 DEF Index!RebuildFile, Index!Continue, exists
  <2>5. QED
    BY <2>4 DEF Index!Next
<1>6. QED
  BY <1>1, <1>2, <1>3, <1>4, <1>5

(* An event: only a deletion reaches the index.                            *)
LEMMA EventStepRefines ==
  ASSUME ReadyInvariant, HandleInotifyEvent
  PROVE  [Index!Next]_(Index!vars)
<1>1. up /\ flags /\ UNCHANGED << disk, flags, up, torn, compiled >>
  BY DEF HandleInotifyEvent, ReadyInvariant, QuietWithoutFlags, diskVars
<1>2. PICK f \in Files :
         HandleEntryCreate(f) \/ HandleFileModified(f) \/ HandleEntryDeleted(f)
  <2>1. events \in Seq(Event) /\ events # << >>
    BY DEF ReadyInvariant, FlightInvariant, TypeOK, HandleInotifyEvent
  <2>2. Head(events) \in Event
    BY <2>1
  <2>3. Head(events).file \in Files
    BY <2>2 DEF Event
  <2>4. QED
    BY <2>3 DEF HandleInotifyEvent
<1>3. CASE UNCHANGED db
  BY <1>1, <1>3, IndexStutter
<1>4. CASE f \notin exists /\ DeleteUnexistFile(f)
  <2>1. db' = DeleteFileRecords(db, f, Mod, exists).db
    BY <1>4 DEF DeleteUnexistFile, ForgetFile
  <2>2. db' = Index!DeleteFileRecords(db, f, Index!Mod, exists).db
    BY <2>1, SameStore
  <2>3. Index!DeleteUnexistFile(f)
    BY <1>1, <1>4, <2>2 DEF Index!DeleteUnexistFile, exists
  <2>4. QED
    BY <2>3 DEF Index!Next
<1>5. QED
  BY <1>2, <1>3, <1>4 DEF HandleEntryCreate, HandleFileModified, HandleEntryDeleted

(* A step of a job: only a write reaches the index.                        *)
LEMMA JobStepRefines ==
  ASSUME ReadyInvariant, NEW f \in Files, JobStep(f)
  PROVE  [Index!Next]_(Index!vars)
<1>1. PICK i \in DOMAIN jobs[f] :
         ClangParseFile(f, i) \/ WriteParsed(f, i) \/ RemoveParsingFile(f, i)
  BY DEF JobStep
<1>2. TypeOK /\ jobs[f] \in Seq(Job) /\ jobs[f][i] \in Job
  BY DEF ReadyInvariant, FlightInvariant, TypeOK
<1>3. up /\ flags
  BY <1>2 DEF ReadyInvariant, FlightInvariant, NoJobsWhenDown, QuietWithoutFlags,
              TypeOK
<1>4. CASE ClangParseFile(f, i)
  <2>1. UNCHANGED << db, disk, flags, up, torn, compiled >>
    BY <1>4 DEF ClangParseFile, StatFile, LoadFileInfo, DigestFile, ParseFile,
                diskVars, memoryVars, storeVars
  <2>2. QED
    BY <2>1, IndexStutter
<1>5. CASE RemoveParsingFile(f, i)
  <2>1. /\ UNCHANGED << db, disk, torn, compiled >>
        /\ LoseMemory \/ UNCHANGED << up, flags >>
    BY <1>5 DEF RemoveParsingFile, diskVars, storeVars
  <2>2. QED
    BY <1>3, <2>1, IndexStop, IndexStutter
<1>6. CASE WriteParsed(f, i)
  <2> DEFINE job == jobs[f][i]
             tu  == TuOf[f][job.content]
             fi  == CompiledFileInfo(f, job)
             w   == WriteCompiledFile(db, f, tu, fi, Mod, exists)
             units == UNION {{TuOf[g][c] : c \in Contents} : g \in Files}
  <2>1. job.stage = "parsed" /\ job.content \in Contents /\ job.content # Missing
    BY <1>2, <1>6 DEF WriteParsed, Job
  <2>2. tu \in units
    BY <2>1
  <2>3. fi \in FileInfos
    BY <1>2, <2>1, PipelineAssumption DEF CompiledFileInfo, FileInfos, Job
  <2>4. w.threw \in BOOLEAN
    <3>1. tu \in TranslationUnit
      BY <2>1, PipelineAssumption
    <3>2. CompiledWritten(FileInfos, db, w, f, tu, fi, Mod)
      BY <1>2, <2>3, <3>1, WriteCompiledFileShape DEF TypeOK
    <3>3. QED
      BY <3>2, Zenon DEF CompiledWritten
  <2>5. w = Index!WriteCompiledFile(db, f, tu, fi, Index!Mod, exists)
    BY SameStore
  <2>6. f \in exists \/ MayVanish
    BY <2>1 DEF ReadyInvariant, ParsedFound
  <2>7. /\ db' = w.db
        /\ torn' = (torn \/ w.threw)
        /\ IF w.threw
             THEN up' = FALSE /\ flags' = FALSE /\ compiled' = compiled
             ELSE /\ up' = up /\ flags' = flags
                  /\ compiled' = [compiled EXCEPT ![f] = job.content]
        /\ disk' = disk
    BY <1>6 DEF WriteParsed, LoseMemory, diskVars, memoryVars
  <2>8. compiled \in [Files -> Contents \cup {Missing}]
    BY <1>2 DEF TypeOK
  <2>9. Written' = IF w.threw THEN Written ELSE [Written EXCEPT ![f] = tu]
    <3>1. CASE w.threw
      BY <2>7, <3>1 DEF Written
    <3>2. CASE ~w.threw
      <4>1. compiled' = [compiled EXCEPT ![f] = job.content]
        BY <2>7, <3>2
      <4> HIDE DEF w
      <4>2. Written' = [g \in Files |-> IF g = f THEN tu ELSE Written[g]]
        BY <2>1, <2>8, <4>1 DEF Written
      <4>3. QED
        BY <3>2, <4>2 DEF Written
    <3>3. QED
      BY <3>1, <3>2
  <2>10. exists' = exists
    BY <2>7 DEF exists
  <2>11. PICK t, n, o : /\ t = tu /\ t \in units
                        /\ n = fi /\ n \in FileInfos
                        /\ o = w
    BY <2>2, <2>3
  <2>12. /\ o.threw \in BOOLEAN
         /\ o = Index!WriteCompiledFile(db, f, t, n, Index!Mod, exists)
         /\ db' = o.db
         /\ torn' = (torn \/ o.threw)
         /\ IF o.threw THEN up' = FALSE /\ flags' = FALSE
                       ELSE up' = up /\ flags' = flags
         /\ Written' = IF o.threw THEN Written ELSE [Written EXCEPT ![f] = t]
    BY <2>4, <2>5, <2>7, <2>9, <2>11
  <2> HIDE DEF w, tu, fi
  <2>13. Index!Continue(~o.threw)
    BY <1>3, <2>12 DEF Index!Continue
  <2>14. Index!WriteParsed(f, t, n)
    BY <1>3, <2>6, <2>10, <2>12, <2>13 DEF Index!WriteParsed, MayVanish, Written
  <2>15. QED
    BY <2>11, <2>14 DEF Index!Next
<1>7. QED
  BY <1>1, <1>4, <1>5, <1>6

(* The initial states are initial states of the index, and ready.          *)
LEMMA InitReady == Init => ReadyInvariant /\ Index!Init
<1> SUFFICES ASSUME Init PROVE ReadyInvariant /\ Index!Init
  OBVIOUS
<1>1. FlightInvariant
  BY InitFlight
<1>2. QuietWithoutFlags /\ ParsedFound
  BY DEF Init, QuietWithoutFlags, ParsedFound
<1>3. [f \in Files |-> IF compiled[f] = Missing THEN NoTU
                       ELSE TuOf[f][compiled[f]]] = [f \in Files |-> NoTU]
  BY DEF Init
<1>4. exists \in SUBSET Files
  BY DEF exists
<1>5. db = Index!EmptyDatabase
  BY SameStore DEF Init
<1>6. Index!Init
  BY <1>3, <1>4, <1>5 DEF Init, Index!Init
<1>7. QED
  BY <1>1, <1>2, <1>6 DEF ReadyInvariant

(* The pipeline implements the index: whatever the order of edits, events, *)
(* jobs, timers, crashes and restarts, the database only changes as        *)
(* SymbolIndex allows, so what is proved there holds of the pipeline.      *)
THEOREM PipelineImplementsIndex == Spec => RefinesIndex
<1>1. ReadyInvariant /\ [Next]_vars => [Index!Next]_(Index!vars)
  <2> SUFFICES ASSUME ReadyInvariant, [Next]_vars
               PROVE  [Index!Next]_(Index!vars)
    OBVIOUS
  <2>1. TypeOK /\ flags \in BOOLEAN
    BY DEF ReadyInvariant, FlightInvariant, TypeOK
  <2>2. CASE UNCHANGED vars
    <3>1. UNCHANGED << db, disk, flags, up, torn, compiled >>
      BY <2>2 DEF vars, diskVars, memoryVars, storeVars
    <3>2. QED
      BY <3>1, IndexStutter
  <2>3. QED
    BY <2>1, <2>2, DiskStepRefines, ServerStepRefines, EventStepRefines,
       JobStepRefines DEF Next
<1>2. QED
  BY <1>1, InitReady, ReadyStep, PTL DEF Spec, RefinesIndex, Index!Spec


-----------------------------------------------------------------------------
(* What is proved of the index holds of the pipeline.                      *)

Proved ==
  INSTANCE SymbolIndexProofs WITH
    TranslationUnits <- UNION {{TuOf[g][c] : c \in Contents} : g \in Files},
    AllowDelete <- Faults \cap {"delete", "move_away"} # {},
    written <- [f \in Files |-> IF compiled[f] = Missing THEN NoTU
                                ELSE TuOf[f][compiled[f]]]

(* The pipeline meets what the index assumes of its constants.             *)
LEMMA IndexConstants == Proved!StoreAssumption /\ Proved!IndexAssumption
<1>1. Proved!StoreAssumption
  BY StoreAssumption, Zenon
  DEF Proved!StoreAssumption, Proved!NoModule, NoModule, Proved!NoLine, NoLine
<1>2. /\ Proved!Paths = Paths
      /\ Proved!NoModule = NoModule
      /\ Proved!TranslationUnit = TranslationUnit
  BY DEF Proved!Paths, Paths, Proved!NoModule, NoModule, Proved!NoLine, NoLine,
         Proved!TranslationUnit, TranslationUnit
<1>3. UNION {{TuOf[g][c] : c \in Contents} : g \in Files} \subseteq TranslationUnit
  BY PipelineAssumption
<1>4. (Faults \cap {"delete", "move_away"} # {}) \in BOOLEAN
  OBVIOUS
<1>5. Proved!IndexAssumption
  BY <1>2, <1>3, <1>4, PipelineAssumption DEF Proved!IndexAssumption, FileInfos
<1>6. QED
  BY <1>1, <1>5

(* Both instances of the index are the same specification.                 *)
LEMMA SameOperators ==
  ASSUME NEW d, NEW f, NEW tu, NEW fi, NEW m, NEW ex
  PROVE  /\ Proved!DeleteFileRecords(d, f, m, ex) = Index!DeleteFileRecords(d, f, m, ex)
         /\ Proved!WriteCompiledFile(d, f, tu, fi, m, ex)
              = Index!WriteCompiledFile(d, f, tu, fi, m, ex)
         /\ Proved!EmptyDatabase = Index!EmptyDatabase
         /\ Proved!Mod = Index!Mod
         /\ Proved!LoadThrows(d, f, m, ex) = Index!LoadThrows(d, f, m, ex)
<1> USE DEF Proved!NoModule, Index!NoModule, Proved!NoLine, Index!NoLine,
            Proved!Paths, Index!Paths, Proved!Min, Index!Min, Proved!Max, Index!Max,
            Proved!Outcome, Index!Outcome, Proved!Before, Index!Before,
            Proved!ScanThrows, Index!ScanThrows,
            Proved!SameModule, Index!SameModule,
            Proved!absolute_path_throws, Index!absolute_path_throws,
            Proved!LoadThrows, Index!LoadThrows,
            Proved!QueryThrows, Index!QueryThrows,
            Proved!LoadFileDefinedSymbolInfo, Index!LoadFileDefinedSymbolInfo
<1>1. Proved!DeleteFileRecords(d, f, m, ex) = Index!DeleteFileRecords(d, f, m, ex)
  BY DEF Proved!DeleteFileRecords, Index!DeleteFileRecords,
         Proved!DeleteFileDefinedSymbolInfo, Index!DeleteFileDefinedSymbolInfo,
         Proved!DeleteFileReferredSymbolInfo, Index!DeleteFileReferredSymbolInfo,
         Proved!RemoveSymbolLocation, Index!RemoveSymbolLocation
<1>2. Proved!WriteCompiledFile(d, f, tu, fi, m, ex)
        = Index!WriteCompiledFile(d, f, tu, fi, m, ex)
  BY DEF Proved!WriteCompiledFile, Index!WriteCompiledFile,
         Proved!WriteFileDefinitions, Index!WriteFileDefinitions,
         Proved!WriteFileReferences, Index!WriteFileReferences,
         Proved!ReferredSymbols, Index!ReferredSymbols,
         Proved!DroppedModules, Index!DroppedModules,
         Proved!ChangedModules, Index!ChangedModules,
         Proved!GoneSymbols, Index!GoneSymbols,
         Proved!FreshSymbols, Index!FreshSymbols,
         Proved!MovedSymbols, Index!MovedSymbols,
         Proved!LocationIn, Index!LocationIn,
         Proved!DefinedSymbols, Index!DefinedSymbols,
         Proved!QuerySymbolDefinition, Index!QuerySymbolDefinition,
         Proved!AddSymbolLocation, Index!AddSymbolLocation
<1>3. Proved!EmptyDatabase = Index!EmptyDatabase
  BY DEF Proved!EmptyDatabase, Index!EmptyDatabase
<1>4. Proved!Mod = Index!Mod
  BY DEF Proved!Mod, Index!Mod
<1>5. Proved!LoadThrows(d, f, m, ex) = Index!LoadThrows(d, f, m, ex)
  OBVIOUS
<1>6. QED
  BY <1>1, <1>2, <1>3, <1>4, <1>5


LEMMA SameNext == [Index!Next]_(Index!vars) => [Proved!Next]_(Proved!vars)
<1> SUFFICES ASSUME [Index!Next]_(Index!vars)
             PROVE  [Proved!Next]_(Proved!vars)
  OBVIOUS
<1>1. CASE UNCHANGED Index!vars
  BY <1>1 DEF Index!vars, Proved!vars
<1>2. ASSUME NEW f \in Files, Index!CreateFile(f) \/ Index!RemoveFile(f)
      PROVE  Proved!CreateFile(f) \/ Proved!RemoveFile(f)
  BY <1>2 DEF Index!CreateFile, Proved!CreateFile, Index!RemoveFile, Proved!RemoveFile
<1>3. ASSUME NEW f \in Files, Index!DeleteUnexistFile(f)
      PROVE  Proved!DeleteUnexistFile(f)
  <2>1. Proved!DeleteFileRecords(db, f, Proved!Mod, exists)
          = Index!DeleteFileRecords(db, f, Index!Mod, exists)
    BY SameOperators
  <2>2. QED
    BY <1>3, <2>1, Zenon DEF Index!DeleteUnexistFile, Proved!DeleteUnexistFile
<1>4. ASSUME NEW f \in Files, Index!RebuildFile(f)
      PROVE  Proved!RebuildFile(f)
  <2>1. Proved!DeleteFileRecords(db, f, Proved!Mod, exists)
          = Index!DeleteFileRecords(db, f, Index!Mod, exists)
    BY SameOperators
  <2>2. QED
    BY <1>4, <2>1, Zenon DEF Index!RebuildFile, Proved!RebuildFile,
                             Index!Continue, Proved!Continue
<1>5. ASSUME NEW f \in Files, Index!ListFileSymbols(f)
      PROVE  Proved!ListFileSymbols(f)
  <2>1. Proved!LoadThrows(db, f, Proved!Mod, exists)
          = Index!LoadThrows(db, f, Index!Mod, exists)
    BY SameOperators
  <2>2. QED
    BY <1>5, <2>1, Zenon
    DEF Index!ListFileSymbols, Proved!ListFileSymbols, Index!Continue, Proved!Continue,
        Index!absolute_path_throws, Proved!absolute_path_throws
<1>6. ASSUME NEW f \in Files,
             NEW tu \in UNION {{TuOf[g][c] : c \in Contents} : g \in Files},
             NEW fi \in FileInfos, Index!WriteParsed(f, tu, fi)
      PROVE  Proved!WriteParsed(f, tu, fi)
  <2>1. Proved!WriteCompiledFile(db, f, tu, fi, Proved!Mod, exists)
          = Index!WriteCompiledFile(db, f, tu, fi, Index!Mod, exists)
    BY SameOperators
  <2>2. QED
    BY <1>6, <2>1, Zenon DEF Index!WriteParsed, Proved!WriteParsed,
                             Index!Continue, Proved!Continue
<1>7. ASSUME NEW s \in Symbols, Index!GetSymbolDefinitions(s)
      PROVE  Proved!GetSymbolDefinitions(s)
  BY <1>7, Zenon
  DEF Index!GetSymbolDefinitions, Proved!GetSymbolDefinitions,
      Index!Continue, Proved!Continue,
      Index!absolute_path_throws, Proved!absolute_path_throws
<1>8. ASSUME NEW s \in Symbols, NEW f \in Files, Index!GetSymbolDefinitionFor(s, f)
      PROVE  Proved!GetSymbolDefinitionFor(s, f)
  <2>1. Proved!QueryThrows(db.symDefs[s], f, Proved!Mod, exists)
          = Index!QueryThrows(db.symDefs[s], f, Index!Mod, exists)
    <3>1. Proved!Mod = Index!Mod
      BY SameOperators
    <3>2. QED
      BY <3>1, Zenon
      DEF Proved!QueryThrows, Index!QueryThrows, Proved!NoModule, Index!NoModule,
          Proved!ScanThrows, Index!ScanThrows, Proved!SameModule, Index!SameModule,
          Proved!absolute_path_throws, Index!absolute_path_throws
  <2>2. QED
    BY <1>8, <2>1, Zenon
    DEF Index!GetSymbolDefinitionFor, Proved!GetSymbolDefinitionFor,
        Index!Continue, Proved!Continue
<1>9. CASE Index!LoadFlags \/ Index!Stop \/ Index!Restart
  <2>1. Proved!LoadFlags \/ Proved!Stop \/ Proved!Restart
    BY <1>9 DEF Index!LoadFlags, Proved!LoadFlags, Index!Stop, Proved!Stop,
                Index!Restart, Proved!Restart, Index!Continue, Proved!Continue
  <2>2. QED
    BY <2>1 DEF Proved!Next
<1>10. QED
  BY <1>1, <1>2, <1>3, <1>4, <1>5, <1>6, <1>7, <1>8, <1>9 DEF Index!Next, Proved!Next

(* The pipeline is an implementation of the index about which the theorems *)
(* of SymbolIndexProofs are.                                               *)
LEMMA PipelineIsIndex == Spec => Proved!Spec
<1>1. Index!Init => Proved!Init
  <2>1. Proved!EmptyDatabase = Index!EmptyDatabase
    BY SameOperators
  <2>2. QED
    BY <2>1, Zenon DEF Index!Init, Proved!Init
<1>2. QED
  BY <1>1, SameNext, PipelineImplementsIndex, PTL
  DEF RefinesIndex, Index!Spec, Proved!Spec

(* With results that arrive late, events, requests, crashes and restarts,  *)
(* a symbol keeps one location per module, every location can be found     *)
(* from its file, and it is what was last written for that file.           *)
THEOREM PipelineIndexIsSound ==
  Spec => [](Index!OneLocationPerModule /\ Index!BackLinks /\ Index!LocationsSound)
<1>1. Proved!OneLocationPerModule => Index!OneLocationPerModule
  BY DEF Proved!OneLocationPerModule, Index!OneLocationPerModule
<1>2. Proved!BackLinks => Index!BackLinks
  BY DEF Proved!BackLinks, Index!BackLinks
<1>3. Proved!LocationsSound => Index!LocationsSound
  BY DEF Proved!LocationsSound, Index!LocationsSound
<1>4. Proved!Spec => [](/\ Proved!OneLocationPerModule
                        /\ Proved!BackLinks
                        /\ Proved!LocationsSound)
  <2>1. Proved!Spec => []Proved!OneLocationPerModule
    BY IndexConstants, Proved!OneLocation
  <2>2. Proved!Spec => []Proved!BackLinks
    BY IndexConstants, Proved!LocationsAreListed
  <2>3. Proved!Spec => []Proved!LocationsSound
    BY IndexConstants, Proved!LocationsAreSound
  <2>4. QED
    BY <2>1, <2>2, <2>3, PTL
<1>5. QED
  BY <1>1, <1>2, <1>3, <1>4, PipelineIsIndex, PTL

(* In the pipeline too the write of a job makes the symbols of its parse   *)
(* findable, however late its result is, and a delete event that is        *)
(* handled leaves no location in the deleted file.                         *)
THEOREM PipelineWritesThrough == Spec => Index!WriteThrough /\ Index!DeletionClears
<1>1. ASSUME NEW f \in Files,
             NEW tu \in UNION {{TuOf[g][c] : c \in Contents} : g \in Files},
             NEW fi \in FileInfos, Index!WriteParsed(f, tu, fi)
      PROVE  Proved!WriteParsed(f, tu, fi)
  <2>1. Proved!WriteCompiledFile(db, f, tu, fi, Proved!Mod, exists)
          = Index!WriteCompiledFile(db, f, tu, fi, Index!Mod, exists)
    BY SameOperators
  <2>2. QED
    BY <1>1, <2>1, Zenon DEF Index!WriteParsed, Proved!WriteParsed,
                             Index!Continue, Proved!Continue
<1>2. ASSUME NEW f \in Files, Index!DeleteUnexistFile(f)
      PROVE  Proved!DeleteUnexistFile(f)
  <2>1. Proved!DeleteFileRecords(db, f, Proved!Mod, exists)
          = Index!DeleteFileRecords(db, f, Index!Mod, exists)
    BY SameOperators
  <2>2. QED
    BY <1>2, <2>1, Zenon DEF Index!DeleteUnexistFile, Proved!DeleteUnexistFile
<1>3. UNCHANGED Proved!vars <=> UNCHANGED Index!vars
  BY DEF Proved!vars, Index!vars
<1>4. ASSUME NEW tu \in UNION {{TuOf[g][c] : c \in Contents} : g \in Files}
      PROVE  Proved!DefinedSymbols(tu) = Index!DefinedSymbols(tu)
  BY DEF Proved!DefinedSymbols, Index!DefinedSymbols, Proved!NoLine, Index!NoLine
<1>5. ASSUME NEW f \in Files
      PROVE  Proved!DeleteFileRecords(db, f, Proved!Mod, exists)
               = Index!DeleteFileRecords(db, f, Index!Mod, exists)
  BY SameOperators
<1>6. [Proved!WrittenIsFindable]_(Proved!vars) => [Index!WrittenIsFindable]_(Index!vars)
  BY <1>1, <1>3, <1>4 DEF Proved!WrittenIsFindable, Index!WrittenIsFindable
<1>7.
     [\A f \in Files :
        /\ Proved!DeleteUnexistFile(f)
        /\ ~torn
        /\ ~Proved!DeleteFileRecords(db, f, Proved!Mod, exists).threw
        => \A s \in Symbols : \A k \in DOMAIN db'.symDefs[s] :
              db'.symDefs[s][k].file # f]_(Proved!vars)
     =>
     [\A f \in Files :
        /\ Index!DeleteUnexistFile(f)
        /\ ~torn
        /\ ~Index!DeleteFileRecords(db, f, Index!Mod, exists).threw
        => \A s \in Symbols : \A k \in DOMAIN db'.symDefs[s] :
              db'.symDefs[s][k].file # f]_(Index!vars)
  BY <1>2, <1>3, <1>5
<1>8. Proved!WriteThrough => Index!WriteThrough
  BY <1>6, PTL DEF Proved!WriteThrough, Index!WriteThrough
<1>9. Proved!DeletionClears => Index!DeletionClears
  BY <1>7, PTL DEF Proved!DeletionClears, Index!DeletionClears
<1>10. QED
  BY <1>8, <1>9, IndexConstants, PipelineIsIndex, Proved!WritesThrough,
     Proved!DeletionIsClean, PTL

(* A lookup never sends a client to a line of a former content of a file   *)
(* that the mtime check takes for parsed: what was last written for the    *)
(* file is its present content, and its locations are what was written.    *)
(* The assumption is that no file is written twice within a second.        *)
THEOREM FreshFilesAnswer ==
  ASSUME "same_second" \notin Faults
  PROVE  Spec => []FreshAnswers
<1>1. ASSUME TypeOK, NoFalseFresh, Index!LocationsSound,
             NEW s \in Symbols, NEW k \in DOMAIN db.symDefs[s], NEW f,
             f = db.symDefs[s][k].file,
             f \in exists, ~torn, db.info[f] # NoInfo, db.info[f].mtime = mtime[f]
      PROVE  db.symDefs[s][k].line = TuOf[f][disk[f]].defs[s]
  <2>1. f \in Files /\ disk[f] # Missing
    BY <1>1 DEF exists
  <2>2. compiled[f] = disk[f]
    BY <1>1 DEF NoFalseFresh
  <2>3. Written[f].defs[s] = db.symDefs[s][k].line
    BY <1>1 DEF Index!LocationsSound, Written
  <2>4. Written[f] = TuOf[f][disk[f]]
    BY <2>1, <2>2 DEF Written
  <2>5. QED
    BY <2>3, <2>4
<1>2. TypeOK /\ NoFalseFresh /\ Index!LocationsSound => FreshAnswers
  BY <1>1 DEF FreshAnswers
<1>3. Spec => []NoFalseFresh
  BY FreshIsIndexed
<1>4. QED
  BY <1>2, <1>3, PipelineTypeCorrect, PipelineIndexIsSound, PTL

=============================================================================
