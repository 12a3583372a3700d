-------------------------- MODULE LocalFilesProofs --------------------------
(* Local files: the cache of slow mounts, for any files, requests, queue and *)
(* capacity, and the registry of open files, for any players, requests and   *)
(* sessions, alone and beside the verification of pieces (MCFiles).          *)
EXTENDS MCFiles, PieceVerifyProofs, TLAPS

(* The cache.                                                                *)
Marks == {"none", "queued", "copying", "ready", "error"}
Copies == {"none", "half", "whole"}
OnFile == {"found", "copying", "written", "failed"}

WorkerRecord ==
  {w \in [at : OnFile \union {"idle", "evicting", "snapshot", "saving"},
          file : MountFiles \union {NoCopy}, mine : BOOLEAN, linked : BOOLEAN, snap : SUBSET MountFiles] :
     w.at \in OnFile => w.file \in MountFiles}

HandlerRecord ==
  {x \in [at : {"idle", "pushing", "unlinking", "snapshot", "saving"},
          file : MountFiles \union {NoCopy}, snap : SUBSET MountFiles] :
     x.at \in {"pushing", "unlinking"} => x.file \in MountFiles}

MarksTyped == mark \in [MountFiles -> Marks] /\ copy \in [MountFiles -> Copies]
JobsTyped == jobs \in Seq(MountFiles) /\ Len(jobs) <= QueueSize
WorkerTyped == worker \in WorkerRecord
HandlersTyped == handler \in [Handlers -> HandlerRecord] /\ index \subseteq MountFiles
CacheTypes == MarksTyped /\ JobsTyped /\ WorkerTyped /\ HandlersTyped

LEMMA WorkerSteps ==
  ASSUME NEW w \in WorkerRecord
  PROVE  /\ w.snap \subseteq MountFiles /\ (w.at \in OnFile => w.file \in MountFiles)
         /\ [w EXCEPT !.mine = FALSE] \in WorkerRecord
         /\ [w EXCEPT !.linked = FALSE] \in WorkerRecord
         /\ w.at \in OnFile => /\ [w EXCEPT !.at = "copying"] \in WorkerRecord
                               /\ [w EXCEPT !.at = "failed"] \in WorkerRecord
                               /\ [w EXCEPT !.linked = TRUE, !.at = "written"] \in WorkerRecord
BY DEF WorkerRecord, OnFile

LEMMA NewWorkers ==
  /\ Resting \in WorkerRecord
  /\ [Resting EXCEPT !.at = "evicting"] \in WorkerRecord
  /\ [Resting EXCEPT !.at = "snapshot"] \in WorkerRecord
  /\ \A f \in MountFiles : [Resting EXCEPT !.at = "found", !.file = f, !.mine = TRUE] \in WorkerRecord
  /\ \A S \in SUBSET MountFiles : [Resting EXCEPT !.at = "saving", !.snap = S] \in WorkerRecord
BY DEF WorkerRecord, OnFile, Resting

LEMMA NewHandlers ==
  /\ Free \in HandlerRecord
  /\ [Free EXCEPT !.at = "snapshot"] \in HandlerRecord
  /\ \A f \in MountFiles, at \in {"pushing", "unlinking"} :
       [Free EXCEPT !.at = at, !.file = f] \in HandlerRecord
  /\ \A S \in SUBSET MountFiles : [Free EXCEPT !.at = "saving", !.snap = S] \in HandlerRecord
BY DEF HandlerRecord, Free

LEMMA Handling ==
  ASSUME HandlersTyped, NEW h \in Handlers
  PROVE  /\ handler[h].snap \subseteq MountFiles
         /\ handler[h].at \in {"pushing", "unlinking"} => handler[h].file \in MountFiles
BY DEF HandlersTyped, HandlerRecord

LEMMA SetStatusTyped ==
  ASSUME mark \in [MountFiles -> Marks], NEW f \in MountFiles, NEW st \in Marks, SetStatus(f, st)
  PROVE  /\ mark' \in [MountFiles -> Marks]
         /\ \A g \in MountFiles \ {f} : mark'[g] = mark[g]
         /\ mark'[f] \in {"none", st}
BY DEF SetStatus, Marks

LEMMA MarkedFiles == Marked("ready") \in SUBSET MountFiles
BY DEF Marked

LEMMA NoJobs == <<>> \in Seq(MountFiles) /\ Len(<<>>) <= QueueSize
<1>1. <<>> \in Seq(MountFiles) /\ Len(<<>>) = 0
  OBVIOUS
<1>2. QED
  BY <1>1, CacheAssumption

LEMMA InitCacheTyped == CacheInit => CacheTypes
<1> SUFFICES ASSUME CacheInit PROVE CacheTypes
  OBVIOUS
<1>1. MarksTyped
  BY DEF CacheInit, MarksTyped, Marks, Copies
<1>2. JobsTyped
  BY NoJobs DEF CacheInit, JobsTyped
<1>3. WorkerTyped
  BY NewWorkers DEF CacheInit, WorkerTyped
<1>4. HandlersTyped
  BY NewHandlers DEF CacheInit, HandlersTyped
<1>5. QED
  BY <1>1, <1>2, <1>3, <1>4 DEF CacheTypes

LEMMA RequestTyped ==
  ASSUME CacheTypes, NEW h \in Handlers,
         Answering(h) \/ \E f \in MountFiles : Enqueue(h, f) \/ Remove(h, f)
  PROVE  CacheTypes'
<1> USE DEF CacheTypes
<1>1. ASSUME NEW f \in MountFiles, Enqueue(h, f) \/ Remove(h, f) PROVE CacheTypes'
  <2>1. WorkerTyped'
    BY <1>1, WorkerSteps DEF Enqueue, Remove, Replaced, WorkerTyped
  <2>2. HandlersTyped'
    BY <1>1, NewHandlers DEF Enqueue, Remove, HandlersTyped
  <2>3. MarksTyped' /\ JobsTyped'
    BY <1>1 DEF Enqueue, Remove, MarksTyped, JobsTyped, Marks
  <2>4. QED
    BY <2>1, <2>2, <2>3
<1>2. CASE Push(h)
  <2>1. handler[h].file \in MountFiles
    BY <1>2, Handling DEF Push
  <2>2. JobsTyped'
    BY <1>2, <2>1, CacheAssumption DEF Push, JobsTyped
  <2>3. MarksTyped'
    BY <1>2, <2>1, SetStatusTyped DEF Push, queueFull, MarksTyped, Marks
  <2>4. WorkerTyped' /\ HandlersTyped'
    BY <1>2, NewHandlers DEF Push, WorkerTyped, HandlersTyped
  <2>5. QED
    BY <2>2, <2>3, <2>4
<1>3. CASE RemoveFile(h)
  <2>1. WorkerTyped'
    BY <1>3, WorkerSteps DEF RemoveFile, WorkerTyped
  <2>2. HandlersTyped'
    BY <1>3, NewHandlers DEF RemoveFile, HandlersTyped
  <2>3. MarksTyped' /\ JobsTyped'
    BY <1>3 DEF RemoveFile, Unlink, MarksTyped, JobsTyped, Copies
  <2>4. QED
    BY <2>1, <2>2, <2>3
<1>4. CASE ReadEntries(h) \/ WriteIndex(h)
  <2>1. HandlersTyped'
    BY <1>4, NewHandlers, MarkedFiles, Handling DEF ReadEntries, WriteIndex, HandlersTyped
  <2>2. QED
    BY <1>4, <2>1 DEF ReadEntries, WriteIndex, MarksTyped, JobsTyped, WorkerTyped
<1>5. QED
  BY <1>1, <1>2, <1>3, <1>4 DEF Answering

LEMMA WorkingTyped ==
  ASSUME CacheTypes, Working
  PROVE  CacheTypes'
<1> USE DEF CacheTypes
<1>1. worker \in WorkerRecord /\ (worker.at \in OnFile => worker.file \in MountFiles)
  BY WorkerSteps DEF WorkerTyped
<1>2. CASE TakeJob
  <2>1. Head(jobs) \in MountFiles /\ Tail(jobs) \in Seq(MountFiles) /\ Len(Tail(jobs)) <= QueueSize
    BY <1>2, CacheAssumption DEF TakeJob, JobsTyped
  <2>2. WorkerTyped' /\ JobsTyped'
    BY <1>2, <2>1, NewWorkers DEF TakeJob, WorkerTyped, JobsTyped
  <2>3. QED
    BY <1>2, <2>2 DEF TakeJob, MarksTyped, HandlersTyped
<1>3. CASE StartCopy \/ FailCopy \/ CreateFile
  <2>1. worker.file \in MountFiles
    BY <1>1, <1>3 DEF StartCopy, FailCopy, CreateFile, OnFile
  <2>2. WorkerTyped'
    BY <1>1, <1>3, WorkerSteps DEF StartCopy, FailCopy, CreateFile, Moved, WorkerTyped, OnFile
  <2>3. MarksTyped'
    BY <1>3, <2>1, SetStatusTyped DEF StartCopy, FailCopy, CreateFile, Unlink, MarksTyped, Marks, Copies
  <2>4. QED
    BY <1>3, <2>2, <2>3 DEF StartCopy, FailCopy, CreateFile, JobsTyped, HandlersTyped
<1>4. CASE FinishCopy
  BY <1>1, <1>4, NewWorkers DEF FinishCopy, MarksTyped, JobsTyped, WorkerTyped, HandlersTyped, Marks,
                                Copies, OnFile
<1>5. CASE ReportFailure
  BY <1>1, <1>5, NewWorkers, SetStatusTyped
     DEF ReportFailure, MarksTyped, JobsTyped, WorkerTyped, HandlersTyped, Marks, OnFile
<1>6. CASE Evict
  <2>1. MarksTyped'
    BY <1>6 DEF Evict, MarksTyped, Marks, Copies
  <2>2. QED
    BY <1>6, <2>1, NewWorkers DEF Evict, JobsTyped, WorkerTyped, HandlersTyped
<1>7. CASE WorkerReadsEntries \/ WorkerWritesIndex
  BY <1>1, <1>7, WorkerSteps, NewWorkers, MarkedFiles
     DEF WorkerReadsEntries, WorkerWritesIndex, MarksTyped, JobsTyped, WorkerTyped, HandlersTyped
<1>8. QED
  BY <1>2, <1>3, <1>4, <1>5, <1>6, <1>7 DEF Working

LEMMA CacheStepTyped == CacheTypes /\ [CacheNext]_cacheVars => CacheTypes'
<1> SUFFICES ASSUME CacheTypes, [CacheNext]_cacheVars PROVE CacheTypes'
  OBVIOUS
<1>1. CASE Reload
  <2>1. MarksTyped'
    BY <1>1 DEF Reload, CacheTypes, MarksTyped, Marks, Copies
  <2>2. JobsTyped'
    BY <1>1, NoJobs DEF Reload, JobsTyped
  <2>3. WorkerTyped'
    BY <1>1, NewWorkers DEF Reload, WorkerTyped
  <2>4. HandlersTyped'
    BY <1>1, NewHandlers DEF Reload, CacheTypes, HandlersTyped
  <2>5. QED
    BY <2>1, <2>2, <2>3, <2>4 DEF CacheTypes
<1>2. CASE UNCHANGED cacheVars
  BY <1>2 DEF cacheVars, CacheTypes, MarksTyped, JobsTyped, WorkerTyped, HandlersTyped
<1>3. QED
  BY <1>1, <1>2, RequestTyped, WorkingTyped DEF CacheNext

LEMMA CacheTypesHold == CacheSpec => []CacheTypes
BY InitCacheTyped, CacheStepTyped, PTL DEF CacheSpec

(* Type correctness: the queue stays within its capacity, and whoever works on *)
(* a file has one.                                                             *)
THEOREM CacheTyped == CacheSpec => []CacheTypeOK
<1>1. CacheTypes => CacheTypeOK
  BY DEF CacheTypes, MarksTyped, JobsTyped, WorkerTyped, HandlersTyped, CacheTypeOK, Marks, Copies,
         WorkerRecord, HandlerRecord, OnFile
<1>2. QED
  BY <1>1, CacheTypesHold, PTL

-----------------------------------------------------------------------------
(* While the worker writes a file, no entry calls it ready, not even one made  *)
(* since the worker looked: only the worker itself makes an entry ready.       *)

NotReadyYet == worker.at \in {"copying", "written", "failed"} => mark[worker.file] # "ready"

LEMMA NotReadyYetHolds == CacheSpec => []NotReadyYet
<1>1. CacheInit => NotReadyYet
  BY DEF CacheInit, NotReadyYet, Resting
<1>2. CacheTypes /\ NotReadyYet /\ [CacheNext]_cacheVars => NotReadyYet'
  <2> SUFFICES ASSUME CacheTypes, NotReadyYet, [CacheNext]_cacheVars PROVE NotReadyYet'
    OBVIOUS
  <2>1. /\ worker \in WorkerRecord /\ (worker.at \in OnFile => worker.file \in MountFiles)
        /\ mark \in [MountFiles -> Marks]
    BY WorkerSteps DEF CacheTypes, WorkerTyped, MarksTyped
  <2>2. ASSUME worker'.at = worker.at, worker'.file = worker.file,
               \A f \in MountFiles : mark'[f] = "ready" => mark[f] = "ready"
        PROVE  NotReadyYet'
    BY <2>1, <2>2 DEF NotReadyYet, OnFile
  <2>3. ASSUME NEW h \in Handlers, NEW f \in MountFiles, Enqueue(h, f) \/ Remove(h, f)
        PROVE  NotReadyYet'
    <3>1. worker'.at = worker.at /\ worker'.file = worker.file
      BY <2>1, <2>3 DEF Enqueue, Remove, Replaced, WorkerRecord
    <3>2. QED
      BY <2>1, <2>2, <2>3, <3>1 DEF Enqueue, Remove
  <2>4. ASSUME NEW h \in Handlers, Answering(h) PROVE NotReadyYet'
    <3>1. CASE Push(h)
      <4>1. handler[h].file \in MountFiles
        BY <3>1, Handling DEF Push, CacheTypes
      <4>2. QED
        BY <2>1, <2>2, <3>1, <4>1, SetStatusTyped DEF Push, queueFull, Marks
    <3>2. CASE RemoveFile(h)
      <4>1. worker'.at = worker.at /\ worker'.file = worker.file
        BY <2>1, <3>2 DEF RemoveFile, WorkerRecord
      <4>2. QED
        BY <2>2, <3>2, <4>1 DEF RemoveFile
    <3>3. CASE ReadEntries(h) \/ WriteIndex(h)
      BY <2>2, <3>3 DEF ReadEntries, WriteIndex
    <3>4. QED
      BY <2>4, <3>1, <3>2, <3>3 DEF Answering
  <2>5. CASE StartCopy
    <3>1. worker.file \in MountFiles /\ worker'.file = worker.file
      BY <2>1, <2>5 DEF StartCopy, Moved, OnFile, WorkerRecord
    <3>2. mark'[worker.file] \in {"none", "copying"}
      BY <2>1, <2>5, <3>1, SetStatusTyped DEF StartCopy, Marks
    <3>3. QED
      BY <3>1, <3>2 DEF NotReadyYet
  <2>6. CASE CreateFile \/ FailCopy
    <3>1. worker'.file = worker.file /\ UNCHANGED mark /\ worker.at \in {"copying", "written"}
      BY <2>1, <2>6 DEF CreateFile, FailCopy, Moved, WorkerRecord
    <3>2. QED
      BY <3>1 DEF NotReadyYet
  <2>7. CASE TakeJob \/ FinishCopy \/ ReportFailure \/ Evict \/ WorkerReadsEntries
             \/ WorkerWritesIndex \/ Reload
    <3>1. Resting.at = "idle"
      BY DEF Resting
    <3>2. CASE TakeJob
      <4>1. worker' = Resting \/ worker'.at = "found"
        BY <3>2 DEF TakeJob, Resting
      <4>2. QED
        BY <3>1, <4>1 DEF NotReadyYet
    <3>3. CASE FinishCopy \/ Evict \/ WorkerReadsEntries
      <4>1. worker'.at \in {"evicting", "snapshot", "saving"}
        BY <3>3 DEF FinishCopy, Evict, WorkerReadsEntries, Resting
      <4>2. QED
        BY <4>1 DEF NotReadyYet
    <3>4. CASE ReportFailure \/ WorkerWritesIndex \/ Reload
      <4>1. worker' = Resting
        BY <3>4 DEF ReportFailure, WorkerWritesIndex, Reload
      <4>2. QED
        BY <3>1, <4>1 DEF NotReadyYet
    <3>5. QED
      BY <2>7, <3>2, <3>3, <3>4
  <2>8. CASE UNCHANGED cacheVars
    BY <2>8 DEF cacheVars, NotReadyYet
  <2>9. QED
    BY <2>3, <2>4, <2>5, <2>6, <2>7, <2>8 DEF CacheNext, Working
<1>3. QED
  BY <1>1, <1>2, CacheTypesHold, PTL DEF CacheSpec

LEMMA StaysWhole ==
  ASSUME CacheTypes, NotReadyYet, [CacheNext]_cacheVars, NEW f \in MountFiles, Sound(f)
  PROVE  Sound(f)' \/ Overtaken(f)
<1>1. /\ worker \in WorkerRecord /\ (worker.at \in OnFile => worker.file \in MountFiles)
      /\ mark \in [MountFiles -> Marks] /\ copy \in [MountFiles -> Copies]
  BY WorkerSteps DEF CacheTypes, WorkerTyped, MarksTyped
<1>2. ASSUME mark'[f] = "ready" => mark[f] = "ready", copy'[f] = copy[f] PROVE Sound(f)'
  BY <1>2 DEF Sound
<1>3. ASSUME mark'[f] # "ready" PROVE Sound(f)'
  BY <1>3 DEF Sound
<1>4. ASSUME NEW h \in Handlers, NEW g \in MountFiles, Enqueue(h, g) \/ Remove(h, g) PROVE Sound(f)'
  BY <1>1, <1>2, <1>4 DEF Enqueue, Remove
<1>5. ASSUME NEW h \in Handlers, Answering(h) PROVE Sound(f)' \/ Overtaken(f)
  <2>1. CASE Push(h)
    <3>1. handler[h].file \in MountFiles
      BY <2>1, Handling DEF Push, CacheTypes
    <3>2. QED
      BY <1>1, <1>2, <2>1, <3>1, SetStatusTyped DEF Push, queueFull, Marks
  <2>2. CASE RemoveFile(h)
    <3>1. handler[h].file \in MountFiles
      BY <2>2, Handling DEF RemoveFile, CacheTypes
    <3>2. CASE handler[h].file = f
      BY <1>1, <2>2, <3>2 DEF RemoveFile, Unlink, Overtaken
    <3>3. CASE handler[h].file # f
      BY <1>1, <1>2, <2>2, <3>1, <3>3 DEF RemoveFile, Unlink
    <3>4. QED
      BY <3>2, <3>3
  <2>3. CASE ReadEntries(h) \/ WriteIndex(h)
    BY <1>2, <2>3 DEF ReadEntries, WriteIndex
  <2>4. QED
    BY <1>5, <2>1, <2>2, <2>3 DEF Answering
<1>6. CASE TakeJob \/ WorkerReadsEntries \/ WorkerWritesIndex
  BY <1>2, <1>6 DEF TakeJob, WorkerReadsEntries, WorkerWritesIndex
<1>7. CASE StartCopy \/ ReportFailure
  BY <1>1, <1>2, <1>7, SetStatusTyped DEF StartCopy, ReportFailure, OnFile, Marks
<1>8. CASE CreateFile \/ FailCopy
  <2>1. worker.file \in MountFiles /\ mark[worker.file] # "ready" /\ UNCHANGED mark
    BY <1>1, <1>8 DEF CreateFile, FailCopy, NotReadyYet, OnFile
  <2>2. CASE worker.file = f
    BY <1>3, <2>1, <2>2
  <2>3. CASE worker.file # f
    BY <1>1, <1>2, <1>8, <2>1, <2>3 DEF CreateFile, FailCopy, Unlink
  <2>4. QED
    BY <2>2, <2>3
<1>9. CASE FinishCopy
  <2>1. worker.file \in MountFiles /\ worker.at = "written"
    BY <1>1, <1>9 DEF FinishCopy, OnFile
  <2>2. CASE worker.file # f
    BY <1>1, <1>2, <1>9, <2>1, <2>2 DEF FinishCopy
  <2>3. CASE worker.file = f /\ worker.linked
    BY <1>1, <1>9, <2>1, <2>3 DEF FinishCopy, Sound
  <2>4. CASE worker.file = f /\ ~worker.linked /\ worker.mine
    BY <2>1, <2>4 DEF Overtaken
  <2>5. CASE worker.file = f /\ ~worker.linked /\ ~worker.mine
    BY <1>2, <1>9, <2>5 DEF FinishCopy, becomesReady
  <2>6. QED
    BY <2>2, <2>3, <2>4, <2>5
<1>10. CASE Evict
  BY <1>10 DEF Evict, Sound
<1>11. CASE Reload
  BY <1>11 DEF Reload, Sound
<1>12. CASE UNCHANGED cacheVars
  BY <1>2, <1>12 DEF cacheVars
<1>13. QED
  BY <1>4, <1>5, <1>6, <1>7, <1>8, <1>9, <1>10, <1>11, <1>12 DEF CacheNext, Working

(* A file that is ready stays whole, for any number of files and requests: a   *)
(* mark, a drop, a copy, a failure, an eviction or a restart takes the entry   *)
(* with the bytes, except for the drop overtaken by a new mark.                *)
THEOREM ReadyWhole == CacheSpec => ReadyStaysWhole
<1>1. CacheTypes /\ NotReadyYet /\ [CacheNext]_cacheVars
        => [\A f \in MountFiles : Sound(f) => Sound(f)' \/ Overtaken(f)]_cacheVars
  BY StaysWhole
<1>2. QED
  BY <1>1, CacheTypesHold, NotReadyYetHolds, PTL DEF CacheSpec, ReadyStaysWhole
------------------------------------------------------------------------------
(* An entry that is queued has something that will take it further: a request *)
(* about to push it, a job in the queue, or the worker about to start on it.  *)

Pushed(f) == \E h \in Handlers : handler[h].at = "pushing" /\ handler[h].file = f
InQueue(f) == \E i \in 1 .. Len(jobs) : jobs[i] = f
Found(f) == worker.at = "found" /\ worker.file = f
QueuedIsCarried ==
  \A f \in MountFiles : mark[f] = "queued" => Pushed(f) \/ InQueue(f) \/ Found(f)

\* What a step must leave alone for a file to be carried on.
LEMMA CarriedOn ==
  ASSUME QueuedIsCarried,
         \A f \in MountFiles : mark'[f] = "queued" =>
           \/ Pushed(f)' \/ InQueue(f)' \/ Found(f)'
           \/ /\ mark[f] = "queued"
              /\ Pushed(f) => Pushed(f)'
              /\ InQueue(f) => InQueue(f)'
              /\ Found(f) => Found(f)'
  PROVE  QueuedIsCarried'
BY DEF QueuedIsCarried

LEMMA RequestCarries ==
  ASSUME CacheTypes, QueuedIsCarried, NEW h \in Handlers,
         Answering(h) \/ \E f \in MountFiles : Enqueue(h, f) \/ Remove(h, f)
  PROVE  QueuedIsCarried'
<1> USE DEF CacheTypes, MarksTyped, HandlersTyped
<1>1. \A k \in Handlers \ {h} : handler'[k] = handler[k]
  BY DEF Answering, Enqueue, Remove, Push, RemoveFile, ReadEntries, WriteIndex
<1>2. \A f \in MountFiles : Pushed(f) /\ ~(handler[h].at = "pushing" /\ handler[h].file = f) => Pushed(f)'
  BY <1>1 DEF Pushed
<1>3. ASSUME NEW f \in MountFiles, Enqueue(h, f) \/ Remove(h, f) PROVE QueuedIsCarried'
  <2>1. handler[h].at = "idle" /\ UNCHANGED jobs
    <3>1. handler[h] = Free /\ UNCHANGED jobs
      BY <1>3 DEF Enqueue, Remove
    <3>2. QED
      BY <3>1 DEF Free
  <2>2. \A g \in MountFiles : Found(g) => Found(g)'
    BY <1>3 DEF Enqueue, Remove, Replaced, Found, WorkerTyped, WorkerRecord
  <2>3. \A g \in MountFiles \ {f} : mark'[g] = mark[g]
    BY <1>3 DEF Enqueue, Remove
  <2>4. mark'[f] = "queued" => Pushed(f)'
    <3>1. CASE Enqueue(h, f)
      <4>1. handler'[h] = [Free EXCEPT !.at = "pushing", !.file = f]
        BY <3>1 DEF Enqueue
      <4>2. QED
        BY <4>1 DEF Pushed, Free
    <3>2. CASE Remove(h, f)
      BY <3>2 DEF Remove
    <3>3. QED
      BY <1>3, <3>1, <3>2
  <2>5. \A g \in MountFiles : InQueue(g) => InQueue(g)'
    BY <2>1 DEF InQueue
  <2>6. QED
    BY <1>2, <2>1, <2>2, <2>3, <2>4, <2>5, CarriedOn
<1>4. CASE Push(h)
  <2>1. PICK f \in MountFiles : f = handler[h].file
    BY <1>4, Handling DEF Push
  <2>2. UNCHANGED worker
    BY <1>4 DEF Push
  <2>3. \A g \in MountFiles \ {f} : mark'[g] = mark[g]
    BY <1>4, <2>1, SetStatusTyped DEF Push, queueFull, Marks
  <2>4. CASE Len(jobs) < QueueSize
    <3>1. jobs' = Append(jobs, f) /\ UNCHANGED mark
      BY <1>4, <2>1, <2>4 DEF Push
    <3>2. Len(jobs') = Len(jobs) + 1 /\ jobs'[Len(jobs) + 1] = f /\ Len(jobs) \in Nat
          /\ \A i \in 1 .. Len(jobs) : jobs'[i] = jobs[i]
      BY <2>1, <3>1 DEF JobsTyped
    <3>3. InQueue(f)' /\ \A g \in MountFiles : InQueue(g) => InQueue(g)'
      BY <3>2 DEF InQueue
    <3>4. QED
      BY <1>2, <2>1, <2>2, <3>1, <3>3, CarriedOn DEF Found
  <2>5. CASE ~(Len(jobs) < QueueSize)
    <3>1. mark'[f] # "queued" /\ UNCHANGED jobs
      BY <1>4, <2>1, <2>5, SetStatusTyped DEF Push, queueFull, Marks
    <3>2. QED
      BY <1>2, <2>1, <2>2, <2>3, <3>1, CarriedOn DEF Found, InQueue
  <2>6. QED
    BY <2>4, <2>5
<1>5. CASE RemoveFile(h)
  <2>1. \A g \in MountFiles : Found(g) => Found(g)'
    BY <1>5 DEF RemoveFile, Found, WorkerTyped, WorkerRecord
  <2>2. QED
    BY <1>2, <1>5, <2>1, CarriedOn DEF RemoveFile, InQueue
<1>6. CASE ReadEntries(h) \/ WriteIndex(h)
  BY <1>2, <1>6, CarriedOn DEF ReadEntries, WriteIndex, InQueue, Found
<1>7. QED
  BY <1>3, <1>4, <1>5, <1>6 DEF Answering

LEMMA WorkingCarries ==
  ASSUME CacheTypes, QueuedIsCarried, Working
  PROVE  QueuedIsCarried'
<1> USE DEF CacheTypes, MarksTyped
<1>1. UNCHANGED handler
  BY DEF Working, TakeJob, StartCopy, CreateFile, FinishCopy, FailCopy, ReportFailure, Evict,
         WorkerReadsEntries, WorkerWritesIndex
<1>2. \A f \in MountFiles : Pushed(f) => Pushed(f)'
  BY <1>1 DEF Pushed
<1>3. CASE TakeJob
  <2>1. /\ Len(jobs) \in Nat \ {0} /\ Len(jobs') = Len(jobs) - 1
        /\ jobs[1] \in MountFiles
        /\ \A i \in 1 .. Len(jobs) - 1 : jobs'[i] = jobs[i + 1]
    BY <1>3 DEF TakeJob, JobsTyped
  <2>2. ASSUME NEW f \in MountFiles, f # jobs[1], InQueue(f) PROVE InQueue(f)'
    <3>1. PICK i \in 1 .. Len(jobs) : jobs[i] = f
      BY <2>2 DEF InQueue
    <3>2. i - 1 \in 1 .. Len(jobs') /\ jobs'[i - 1] = f
      BY <2>1, <2>2, <3>1
    <3>3. QED
      BY <3>2 DEF InQueue
  <2>3. ASSUME NEW f \in MountFiles, f = jobs[1], mark[f] = "queued" PROVE Found(f)'
    BY <1>3, <2>3 DEF TakeJob, Found, Resting
  <2>4. \A f \in MountFiles : ~Found(f) /\ mark'[f] = mark[f]
    BY <1>3 DEF TakeJob, Found, Resting
  <2>5. QED
    BY <1>2, <2>2, <2>3, <2>4, CarriedOn
<1>4. CASE StartCopy
  <2>1. worker.file \in MountFiles
    BY <1>4 DEF StartCopy, WorkerTyped, WorkerRecord, OnFile
  <2>2. mark'[worker.file] # "queued" /\ \A g \in MountFiles \ {worker.file} : mark'[g] = mark[g]
    BY <1>4, <2>1, SetStatusTyped DEF StartCopy, Marks
  <2>3. QED
    BY <1>2, <1>4, <2>2, CarriedOn DEF StartCopy, Found, InQueue
<1>5. ASSUME worker.at # "found", UNCHANGED jobs, \A f \in MountFiles : mark'[f] = "queued" => mark[f] = "queued"
      PROVE  QueuedIsCarried'
  BY <1>2, <1>5, CarriedOn DEF Found, InQueue
<1>6. CASE CreateFile \/ FailCopy \/ WorkerReadsEntries \/ WorkerWritesIndex
  BY <1>5, <1>6 DEF CreateFile, FailCopy, WorkerReadsEntries, WorkerWritesIndex
<1>7. CASE FinishCopy \/ Evict
  BY <1>5, <1>7 DEF FinishCopy, Evict
<1>8. CASE ReportFailure
  <2>1. worker.file \in MountFiles
    BY <1>8 DEF ReportFailure, WorkerTyped, WorkerRecord, OnFile
  <2>2. mark'[worker.file] # "queued" /\ \A g \in MountFiles \ {worker.file} : mark'[g] = mark[g]
    BY <1>8, <2>1, SetStatusTyped DEF ReportFailure, Marks
  <2>3. QED
    BY <1>5, <1>8, <2>2 DEF ReportFailure
<1>9. QED
  BY <1>3, <1>4, <1>6, <1>7, <1>8 DEF Working

(* No entry is queued with nobody to copy its file: not when its first copy    *)
(* still runs, when the queue is full, nor when the file was dropped and       *)
(* marked again while an old job for it was waiting.                           *)
THEOREM QueuedCarried == CacheSpec => []QueuedIsCarried
<1>1. CacheInit => QueuedIsCarried
  BY DEF CacheInit, QueuedIsCarried
<1>2. CacheTypes /\ QueuedIsCarried /\ [CacheNext]_cacheVars => QueuedIsCarried'
  <2> SUFFICES ASSUME CacheTypes, QueuedIsCarried, [CacheNext]_cacheVars PROVE QueuedIsCarried'
    OBVIOUS
  <2>1. CASE Reload
    BY <2>1 DEF Reload, QueuedIsCarried
  <2>2. CASE UNCHANGED cacheVars
    BY <2>2 DEF cacheVars, QueuedIsCarried, Pushed, InQueue, Found
  <2>3. QED
    BY <2>1, <2>2, RequestCarries, WorkingCarries DEF CacheNext
<1>3. QED
  BY <1>1, <1>2, CacheTypesHold, PTL DEF CacheSpec
------------------------------------------------------------------------------
(* The registry of open files.                                               *)

SourceType == [at : {"new", "open", "closed"}, way : Ways, read : {"never", "lately", "long ago"}]

(* Nobody uses a session that was not handed out.                          *)
NewUnused == \A s \in Sources : source[s].at = "new" => ~InUse(s)

(* A session has one user: OpenSolo makes one for each request, and the    *)
(* HLS manager takes it over from the request.                             *)
UsersApart ==
  /\ \A p, q \in Plays : play[p].source # NoHandle /\ play[p].source = play[q].source => p = q
  /\ \A k, l \in Players : reader[k] # NoHandle /\ reader[k] = reader[l] => k = l
  /\ \A p \in Plays, k \in Players : play[p].source # NoHandle => play[p].source # reader[k]

(* A request keeps its session for as long as it runs, and hands only one  *)
(* of HLS to the manager.                                                  *)
PlaysInStep ==
  /\ \A p \in Plays : play[p].at = "out" <=> play[p].source = NoHandle
  /\ \A p \in Plays : play[p].at \in {"asking", "building"} =>
       play[p].player \in Players /\ source[play[p].source].way = "hls"
  /\ \A k \in Players : reader[k] # NoHandle => source[reader[k]].way = "hls"

(* The inductive invariant.                                                *)
StreamInv == StreamTypeOK /\ NewUnused /\ UsersApart /\ PlaysInStep
             /\ ReadersKeepHandle /\ DirectHandlesEnd

(* Initially nothing is open.                                              *)
LEMMA InitStreamInv == StreamInit => StreamInv
<1> SUFFICES ASSUME StreamInit PROVE StreamInv
  OBVIOUS
<1>1. StreamTypeOK
  BY DEF StreamInit, StreamTypeOK, NoPlay, Ways
<1>2. \A s \in Sources : ~InUse(s) /\ source[s].at = "new"
  BY StreamAssumption DEF StreamInit, InUse, NoPlay
<1>3. NewUnused /\ ReadersKeepHandle /\ DirectHandlesEnd
  BY <1>2 DEF NewUnused, ReadersKeepHandle, DirectHandlesEnd, IsOpen
<1>4. UsersApart /\ PlaysInStep
  BY DEF StreamInit, UsersApart, PlaysInStep, NoPlay
<1> QED BY <1>1, <1>3, <1>4 DEF StreamInv

(* OpenSolo gives the request p a session nobody used.                     *)
LEMMA OpenKeeps ==
  ASSUME StreamInv, NEW p \in Plays, NEW s \in Sources,
         OpenDirect(p, s) \/ \E k \in Players : startLocalHLSSession(p, k, s)
  PROVE  StreamInv'
<1> DEFINE Opened(w, k, a) ==
        /\ OpenSolo(w, s)
        /\ play[p].at = "out"
        /\ play' = [play EXCEPT ![p] = [at |-> a, source |-> s, player |-> k]]
        /\ a = "serving" <=> w = "direct"
        /\ a = "asking" => k \in Players
<1>1. PICK w \in Ways, k \in Players \cup {NoHandle}, a \in {"asking", "serving"} : Opened(w, k, a)
  <2>1. OpenDirect(p, s) => Opened("direct", NoHandle, "serving")
    BY DEF OpenDirect, NoPlay
  <2>2. ASSUME NEW k \in Players, startLocalHLSSession(p, k, s) PROVE Opened("hls", k, "asking")
    BY <2>2 DEF startLocalHLSSession
  <2>3. "direct" \in Ways /\ "hls" \in Ways
    BY DEF Ways
  <2> HIDE DEF Opened
  <2> QED BY <2>1, <2>2, <2>3
<1>2. UNCHANGED reader
  BY DEF OpenDirect, startLocalHLSSession
<1>3. /\ source[s].at = "new" /\ ~InUse(s)
      /\ source' = [source EXCEPT ![s] = [at |-> "open", way |-> w, read |-> "never"]]
  BY <1>1 DEF OpenSolo, StreamInv, NewUnused
<1>4. StreamTypeOK'
  BY <1>1, <1>2 DEF OpenSolo, StreamInv, StreamTypeOK, Ways
<1>5. play[p].source = NoHandle
  BY <1>1 DEF StreamInv, PlaysInStep
<1>6. /\ \A q \in Plays : play[q].source # s
      /\ \A l \in Players : reader[l] # s
  BY <1>3 DEF InUse
<1>7. /\ play'[p] = [at |-> a, source |-> s, player |-> k]
      /\ \A q \in Plays \ {p} : play'[q] = play[q]
      /\ source'[s] = [at |-> "open", way |-> w, read |-> "never"]
      /\ \A t \in Sources \ {s} : source'[t] = source[t]
  BY <1>1, <1>3 DEF StreamInv, StreamTypeOK
<1>8. InUse(s)' /\ \A t \in Sources \ {s} : (InUse(t)' <=> InUse(t))
  BY <1>2, <1>5, <1>7, StreamAssumption DEF InUse
<1>9. NewUnused' /\ ReadersKeepHandle' /\ DirectHandlesEnd'
  <2>1. source'[s].at = "open"
    BY <1>7
  <2>2. NewUnused'
    BY <1>7, <1>8, <2>1 DEF StreamInv, NewUnused, InUse
  <2>3. ReadersKeepHandle'
    BY <1>7, <1>8, <2>1 DEF StreamInv, ReadersKeepHandle, IsOpen, InUse
  <2>4. DirectHandlesEnd'
    BY <1>7, <1>8 DEF StreamInv, DirectHandlesEnd, IsOpen, InUse
  <2> QED BY <2>2, <2>3, <2>4
<1>10. UsersApart'
  BY <1>2, <1>6, <1>7 DEF StreamInv, UsersApart
<1>11. PlaysInStep'
  <2>1. \A q \in Plays : (play[q].at = "out" <=> play[q].source = NoHandle)'
    BY <1>7, StreamAssumption DEF StreamInv, PlaysInStep
  <2>2. ASSUME NEW q \in Plays, play'[q].at \in {"asking", "building"}
        PROVE  play'[q].player \in Players /\ source'[play'[q].source].way = "hls"
    <3>1. CASE q = p
      BY <1>1, <1>7, <2>2, <3>1 DEF Ways
    <3>2. CASE q # p
      <4>1. play'[q] = play[q] /\ play[q].source \in Sources \ {s}
        BY <1>6, <1>7, <2>2, <3>2 DEF StreamInv, StreamTypeOK, PlaysInStep
      <4> QED BY <1>7, <2>2, <4>1 DEF StreamInv, PlaysInStep
    <3> QED BY <3>1, <3>2
  <2>3. ASSUME NEW l \in Players, reader'[l] # NoHandle
        PROVE  source'[reader'[l]].way = "hls"
    <3>1. reader'[l] = reader[l] /\ reader[l] \in Sources \ {s}
      BY <1>2, <1>6, <2>3 DEF StreamInv, StreamTypeOK
    <3> QED BY <1>7, <2>3, <3>1 DEF StreamInv, PlaysInStep
  <2> QED BY <2>1, <2>2, <2>3 DEF PlaysInStep
<1> QED BY <1>4, <1>9, <1>10, <1>11 DEF StreamInv

(* Whoever gives a session back was its only user.                         *)
LEMMA EndKeeps ==
  ASSUME StreamInv, NEW p \in Plays, EndDirect(p) \/ closeSource(p)
  PROVE  StreamInv'
<1>1. PICK s \in Sources : s = play[p].source
  BY DEF EndDirect, closeSource, StreamInv, StreamTypeOK, PlaysInStep
<1>2. /\ Release(s) /\ UNCHANGED reader
      /\ play' = [play EXCEPT ![p] = NoPlay]
  BY <1>1 DEF EndDirect, closeSource
<1>3. /\ source' \in [Sources -> SourceType]
      /\ source'[s].at = "closed" /\ source'[s].way = source[s].way
      /\ \A t \in Sources \ {s} : source'[t] = source[t]
  <2>1. source' = [t \in Sources |-> IF t = s THEN [source[t] EXCEPT !.at = "closed"] ELSE source[t]]
    BY <1>2 DEF Release, Close
  <2>2. source \in [Sources -> SourceType]
    BY DEF StreamInv, StreamTypeOK, SourceType
  <2>3. [source[s] EXCEPT !.at = "closed"] \in SourceType
    BY <1>1, <2>2 DEF SourceType
  <2>4. source'[s] = [source[s] EXCEPT !.at = "closed"] /\ \A t \in Sources \ {s} : source'[t] = source[t]
    BY <1>1, <2>1
  <2>5. source' \in [Sources -> SourceType]
    BY <2>1, <2>2, <2>3
  <2>6. source[s] \in SourceType
    BY <1>1, <2>2
  <2>7. source'[s].at = "closed" /\ source'[s].way = source[s].way
    BY <2>4, <2>6 DEF SourceType
  <2> QED BY <2>4, <2>5, <2>7
<1>4. StreamTypeOK'
  <2>2. slot' \in [Ways -> Sources \cup {NoHandle}]
    BY <1>2 DEF Release, StreamInv, StreamTypeOK
  <2> QED BY <1>2, <1>3, <2>2 DEF StreamInv, StreamTypeOK, NoPlay, SourceType
<1>5. /\ play'[p] = NoPlay
      /\ \A q \in Plays \ {p} : play'[q] = play[q]
  BY <1>2 DEF StreamInv, StreamTypeOK
<1>6. /\ \A q \in Plays \ {p} : play[q].source # s
      /\ \A l \in Players : reader[l] # s
  BY <1>1, StreamAssumption DEF StreamInv, UsersApart
<1>7. ~InUse(s)' /\ \A t \in Sources \ {s} : (InUse(t)' <=> InUse(t))
  <2>1. play'[p].source = NoHandle
    BY <1>5 DEF NoPlay
  <2> QED BY <1>1, <1>2, <1>5, <1>6, <2>1, StreamAssumption DEF InUse
<1>8. NewUnused' /\ ReadersKeepHandle' /\ DirectHandlesEnd'
  <2>1. NewUnused'
    BY <1>3, <1>7 DEF StreamInv, NewUnused, InUse
  <2>2. ReadersKeepHandle'
    <3>1. ASSUME NEW t \in Sources, InUse(t)', source'[t].read # "long ago"
          PROVE  source'[t].at = "open"
      <4>1. t # s
        BY <1>7, <3>1
      <4>2. source'[t] = source[t] /\ InUse(t)
        BY <1>3, <1>7, <3>1, <4>1
      <4> QED BY <3>1, <4>2 DEF StreamInv, ReadersKeepHandle, IsOpen
    <3> QED BY <3>1 DEF ReadersKeepHandle, IsOpen
  <2>3. DirectHandlesEnd'
    BY <1>3, <1>7 DEF StreamInv, DirectHandlesEnd, IsOpen, InUse
  <2> QED BY <2>1, <2>2, <2>3
<1>9. UsersApart'
  BY <1>2, <1>5 DEF StreamInv, UsersApart, NoPlay
<1>10. PlaysInStep'
  <2>1. \A q \in Plays : (play[q].at = "out" <=> play[q].source = NoHandle)'
    BY <1>5 DEF StreamInv, PlaysInStep, NoPlay
  <2>2. ASSUME NEW q \in Plays, play'[q].at \in {"asking", "building"}
        PROVE  play'[q].player \in Players /\ source'[play'[q].source].way = "hls"
    <3>1. q # p
      BY <1>5, <2>2 DEF NoPlay
    <3>2. play'[q] = play[q] /\ play[q].source \in Sources \ {s}
      BY <1>5, <1>6, <2>2, <3>1 DEF StreamInv, StreamTypeOK, PlaysInStep
    <3> QED BY <1>3, <2>2, <3>2 DEF StreamInv, PlaysInStep
  <2>3. ASSUME NEW l \in Players, reader'[l] # NoHandle
        PROVE  source'[reader'[l]].way = "hls"
    <3>1. reader'[l] = reader[l] /\ reader[l] \in Sources \ {s}
      BY <1>2, <1>6, <2>3 DEF StreamInv, StreamTypeOK
    <3> QED BY <1>3, <2>3, <3>1 DEF StreamInv, PlaysInStep
  <2> QED BY <2>1, <2>2, <2>3 DEF PlaysInStep
<1> QED BY <1>4, <1>8, <1>9, <1>10 DEF StreamInv

(* A session that passes from a request to a player, or loses its user, is *)
(* one of HLS; the registry is left alone.                                 *)
LEMMA HandOverKeeps ==
  ASSUME StreamInv,
         \/ \E p \in Plays : FindsSession(p) \/ BeginsBuild(p) \/ BuildSucceeds(p)
         \/ \E k \in Players : StopSession(k)
  PROVE  StreamInv'
<1>0. UNCHANGED <<source, slot>>
  BY DEF FindsSession, BeginsBuild, BuildSucceeds, StopSession
<1>5. ASSUME NEW p \in Plays, BeginsBuild(p)
      PROVE  /\ \A q \in Plays : /\ play'[q].source = play[q].source
                                /\ play'[q].player = play[q].player
             /\ play'[p].at = "building" /\ play[p].at = "asking"
             /\ \A q \in Plays \ {p} : play'[q] = play[q]
             /\ play' \in [Plays -> [at : {"out", "asking", "building", "serving"},
                                    source : Sources \cup {NoHandle},
                                    player : Players \cup {NoHandle}]]
  <2> DEFINE PlayType == [at : {"out", "asking", "building", "serving"},
                          source : Sources \cup {NoHandle}, player : Players \cup {NoHandle}]
  <2>1. play \in [Plays -> PlayType]
    BY DEF StreamInv, StreamTypeOK
  <2>2. play' = [play EXCEPT ![p] = [play[p] EXCEPT !.at = "building"]] /\ play[p].at = "asking"
    BY <1>5 DEF BeginsBuild
  <2>3. [play[p] EXCEPT !.at = "building"] \in PlayType
    BY <2>1
  <2>4. /\ play'[p] = [play[p] EXCEPT !.at = "building"]
        /\ \A q \in Plays \ {p} : play'[q] = play[q]
        /\ play' \in [Plays -> PlayType]
    BY <2>1, <2>2, <2>3
  <2>5. /\ play'[p].source = play[p].source /\ play'[p].player = play[p].player
        /\ play'[p].at = "building"
    BY <2>1, <2>4
  <2> QED BY <2>2, <2>4, <2>5
<1>6. ASSUME NEW p \in Plays, BeginsBuild(p) PROVE UNCHANGED reader
  BY <1>6 DEF BeginsBuild
<1>1. StreamTypeOK' /\ UsersApart' /\ PlaysInStep'
  <2>1. ASSUME NEW p \in Plays, FindsSession(p) PROVE StreamTypeOK' /\ UsersApart' /\ PlaysInStep'
    BY <2>1 DEF FindsSession, StreamInv, StreamTypeOK, UsersApart, PlaysInStep, NoPlay
  <2>2. ASSUME NEW p \in Plays, BeginsBuild(p) PROVE StreamTypeOK' /\ UsersApart' /\ PlaysInStep'
    <3>1. StreamTypeOK'
      BY <1>0, <1>5, <1>6, <2>2 DEF StreamInv, StreamTypeOK
    <3>2. UsersApart'
      BY <1>5, <1>6, <2>2 DEF StreamInv, UsersApart
    <3>3. \A q \in Plays : /\ play'[q].at = "out" <=> play[q].at = "out"
                          /\ play'[q].at \in {"asking", "building"} =>
                               play[q].at \in {"asking", "building"}
      BY <1>5, <2>2
    <3>4. PlaysInStep'
      BY <1>0, <1>5, <1>6, <2>2, <3>3 DEF StreamInv, PlaysInStep
    <3> QED BY <3>1, <3>2, <3>4
  <2>3. ASSUME NEW p \in Plays, BuildSucceeds(p) PROVE StreamTypeOK' /\ UsersApart' /\ PlaysInStep'
    BY <2>3 DEF BuildSucceeds, StreamInv, StreamTypeOK, UsersApart, PlaysInStep, NoPlay
  <2>4. ASSUME NEW k \in Players, StopSession(k) PROVE StreamTypeOK' /\ UsersApart' /\ PlaysInStep'
    BY <2>4 DEF StopSession, StreamInv, StreamTypeOK, UsersApart, PlaysInStep
  <2> QED BY <2>1, <2>2, <2>3, <2>4
<1>2. \A t \in Sources : InUse(t)' => InUse(t)
  <2>1. ASSUME NEW p \in Plays, FindsSession(p)
        PROVE  \A t \in Sources : InUse(t)' => InUse(t)
    BY <2>1, StreamAssumption DEF FindsSession, StreamInv, StreamTypeOK, InUse, NoPlay
  <2>4. ASSUME NEW p \in Plays, BeginsBuild(p)
        PROVE  \A t \in Sources : InUse(t)' => InUse(t)
    BY <1>5, <1>6, <2>4 DEF InUse
  <2>2. ASSUME NEW p \in Plays, BuildSucceeds(p)
        PROVE  \A t \in Sources : InUse(t)' => InUse(t)
    BY <2>2, StreamAssumption DEF BuildSucceeds, StreamInv, StreamTypeOK, InUse, NoPlay
  <2>3. ASSUME NEW k \in Players, StopSession(k)
        PROVE  \A t \in Sources : InUse(t)' => InUse(t)
    BY <2>3, StreamAssumption DEF StopSession, StreamInv, StreamTypeOK, InUse
  <2> QED BY <2>1, <2>2, <2>3, <2>4
<1>3. \A t \in Sources : InUse(t) /\ source[t].way = "direct" => InUse(t)'
  <2>1. ASSUME NEW p \in Plays, FindsSession(p) \/ BeginsBuild(p) \/ BuildSucceeds(p)
        PROVE  \A t \in Sources : InUse(t) /\ source[t].way = "direct" => InUse(t)'
    <3>1. source[play[p].source].way = "hls" /\ play[p].player \in Players
      BY <2>1 DEF FindsSession, BeginsBuild, BuildSucceeds, StreamInv, PlaysInStep
    <3>2. \A q \in Plays \ {p} : play'[q] = play[q]
      BY <2>1 DEF FindsSession, BeginsBuild, BuildSucceeds, StreamInv, StreamTypeOK
    <3>3. \A t \in Sources, l \in Players : source[t].way = "direct" => reader[l] # t
      BY StreamAssumption DEF StreamInv, PlaysInStep
    <3> QED BY <3>1, <3>2, <3>3 DEF InUse
  <2>2. ASSUME NEW k \in Players, StopSession(k)
        PROVE  \A t \in Sources : InUse(t) /\ source[t].way = "direct" => InUse(t)'
    BY <2>2 DEF StopSession, StreamInv, StreamTypeOK, PlaysInStep, InUse
  <2> QED BY <2>1, <2>2
<1>4. NewUnused' /\ ReadersKeepHandle' /\ DirectHandlesEnd'
  BY <1>0, <1>2, <1>3 DEF StreamInv, NewUnused, ReadersKeepHandle, DirectHandlesEnd, IsOpen, InUse
<1> QED BY <1>1, <1>4 DEF StreamInv

(* Reads, time and the reaper change neither the users of a session nor    *)
(* the way it was opened for.                                              *)
LEMMA TimeKeeps ==
  ASSUME StreamInv, reap \/ \E s \in Sources : Read(s) \/ AMinutePasses(s)
  PROVE  StreamInv'
<1>1. UNCHANGED <<play, reader>>
  BY DEF Read, AMinutePasses, reap
<1> DEFINE Kept(t) == /\ source'[t].way = source[t].way
                      /\ source'[t].at = "new" => source[t].at = "new"
                      /\ source'[t].at = "open" => source[t].at = "open"
                      /\ source'[t].read # "long ago" =>
                           /\ source'[t].at = source[t].at
                           /\ source[t].read # "long ago" \/ source[t].at = "open"
<1>2. StreamTypeOK' /\ \A t \in Sources : Kept(t)
  <2>1. ASSUME NEW s \in Sources, Read(s) PROVE StreamTypeOK' /\ \A t \in Sources : Kept(t)
    BY <2>1 DEF Read, StreamInv, StreamTypeOK, IsOpen
  <2>2. ASSUME NEW s \in Sources, AMinutePasses(s) PROVE StreamTypeOK' /\ \A t \in Sources : Kept(t)
    <3>1. source[s] \in SourceType /\ source \in [Sources -> SourceType]
      BY DEF StreamInv, StreamTypeOK, SourceType
    <3>2. source' = [source EXCEPT ![s] = [source[s] EXCEPT !.read = "long ago"]]
      BY <2>2 DEF AMinutePasses
    <3>3. source'[s] \in SourceType /\ Kept(s)
      BY <3>1, <3>2 DEF SourceType
    <3>4. \A t \in Sources \ {s} : source'[t] = source[t] /\ Kept(t)
      BY <3>1, <3>2
    <3>5. source' \in [Sources -> SourceType]
      BY <3>1, <3>2, <3>3, <3>4
    <3>6. StreamTypeOK'
      BY <2>2, <3>5 DEF AMinutePasses, StreamInv, StreamTypeOK, SourceType
    <3>7. \A t \in Sources : Kept(t)
      BY <3>3, <3>4
    <3> QED BY <3>6, <3>7
  <2>3. ASSUME reap PROVE StreamTypeOK' /\ \A t \in Sources : Kept(t)
    <3>1. source \in [Sources -> SourceType]
      BY DEF StreamInv, StreamTypeOK, SourceType
    <3>2. source' = [t \in Sources |-> IF t \in Idle THEN [source[t] EXCEPT !.at = "closed"]
                                      ELSE source[t]]
      BY <2>3 DEF reap, Close
    <3>3. ASSUME NEW t \in Sources PROVE source'[t] \in SourceType /\ Kept(t)
      <4>1. source[t] \in SourceType
        BY <3>1
      <4>2. CASE t \in Idle
        <5>1. source'[t] = [source[t] EXCEPT !.at = "closed"] /\ source[t].read = "long ago"
          BY <3>2, <4>2 DEF Idle
        <5> QED BY <4>1, <5>1 DEF SourceType
      <4>3. CASE t \notin Idle
        BY <3>2, <4>1, <4>3
      <4> QED BY <4>2, <4>3
    <3>4. source' \in [Sources -> SourceType]
      BY <3>2, <3>3
    <3>5. slot' \in [Ways -> Sources \cup {NoHandle}]
      BY <2>3 DEF reap, StreamInv, StreamTypeOK
    <3> QED BY <1>1, <3>3, <3>4, <3>5 DEF StreamInv, StreamTypeOK, SourceType
  <2> QED BY <2>1, <2>2, <2>3
<1>3. \A t \in Sources : (InUse(t)' <=> InUse(t))
  BY <1>1 DEF InUse
<1>4. NewUnused' /\ ReadersKeepHandle' /\ DirectHandlesEnd'
  BY <1>2, <1>3 DEF StreamInv, NewUnused, ReadersKeepHandle, DirectHandlesEnd, IsOpen, InUse
<1>5. UsersApart'
  BY <1>1 DEF StreamInv, UsersApart
<1>6. PlaysInStep'
  <2>1. \A p \in Plays : play[p].at \in {"asking", "building"} => play[p].source \in Sources
    BY DEF StreamInv, StreamTypeOK, PlaysInStep
  <2>2. \A k \in Players : reader[k] # NoHandle => reader[k] \in Sources
    BY DEF StreamInv, StreamTypeOK
  <2> QED BY <1>1, <1>2, <2>1, <2>2 DEF StreamInv, PlaysInStep
<1> QED BY <1>2, <1>4, <1>5, <1>6 DEF StreamInv

(* StreamInv is inductive.                                                 *)
LEMMA StreamStepInv == StreamInv /\ [StreamNext]_streamVars => StreamInv'
<1> SUFFICES ASSUME StreamInv, [StreamNext]_streamVars PROVE StreamInv'
  OBVIOUS
<1>1. ASSUME NEW p \in Plays, PlayStep(p) PROVE StreamInv'
  <2>1. ASSUME ReadDirect(p) PROVE StreamInv'
    <3>1. play[p].source \in Sources
      BY <2>1 DEF ReadDirect, StreamInv, StreamTypeOK, PlaysInStep
    <3> QED BY <2>1, <3>1, TimeKeeps DEF ReadDirect
  <2> QED BY <1>1, <2>1, OpenKeeps, EndKeeps, HandOverKeeps DEF PlayStep
<1>2. ASSUME NEW k \in Players, ReadSession(k) \/ StopSession(k) PROVE StreamInv'
  BY <1>2, TimeKeeps, HandOverKeeps DEF ReadSession, StreamInv, StreamTypeOK
<1>3. CASE UNCHANGED streamVars
  <2> USE <1>3 DEF streamVars, StreamInv
  <2>1. StreamTypeOK'
    BY DEF StreamTypeOK
  <2>2. NewUnused' /\ ReadersKeepHandle' /\ DirectHandlesEnd'
    BY DEF NewUnused, ReadersKeepHandle, DirectHandlesEnd, InUse, IsOpen
  <2>3. UsersApart' /\ PlaysInStep'
    BY DEF UsersApart, PlaysInStep
  <2> QED BY <2>1, <2>2, <2>3
<1> QED BY <1>1, <1>2, <1>3, TimeKeeps DEF StreamNext

(* StreamInv holds in every state.                                         *)
LEMMA StreamInvHolds == StreamSpec => []StreamInv
  BY InitStreamInv, StreamStepInv, PTL DEF StreamSpec

(* The variables keep their types, for any players, requests and sessions. *)
THEOREM StreamTyped == StreamSpec => []StreamTypeOK
<1>1. StreamInv => StreamTypeOK
  BY DEF StreamInv
<1> QED BY <1>1, StreamInvHolds, PTL

(* A file is closed under its reader only after a minute without a read.   *)
THEOREM HandlesKept == StreamSpec => []ReadersKeepHandle
<1>1. StreamInv => ReadersKeepHandle
  BY DEF StreamInv
<1> QED BY <1>1, StreamInvHolds, PTL

(* A file opened for direct play is closed when its request ends.          *)
THEOREM DirectHandlesClosed == StreamSpec => []DirectHandlesEnd
<1>1. StreamInv => DirectHandlesEnd
  BY DEF StreamInv
<1> QED BY <1>1, StreamInvHolds, PTL

------------------------------------------------------------------------------
(* The three side by side: a step of one leaves the variables of the others  *)
(* alone, so what each never does alone it never does beside the others.     *)

LEMMA FilesKeepApart == FilesSpec => Spec /\ CacheSpec /\ StreamSpec
<1>1. FilesInit => Init /\ CacheInit /\ StreamInit
  BY DEF FilesInit
<1>2. [FilesNext]_<<focus, vars, cacheVars, streamVars>> =>
        [Next]_vars /\ [CacheNext]_cacheVars /\ [StreamNext]_streamVars
  BY DEF FilesNext, On
<1>3. QED
  BY <1>1, <1>2, PTL DEF FilesSpec, Spec, CacheSpec, StreamSpec

(* Every variable of the handling of local files keeps its type.             *)
THEOREM FilesTyped == FilesSpec => []TypesOK
<1>1. TypeOK /\ CacheTypeOK /\ StreamTypeOK => TypesOK
  BY DEF TypesOK
<1>2. QED
  BY <1>1, FilesKeepApart, TypeCorrect, CacheTyped, StreamTyped, PTL
==============================================================================
