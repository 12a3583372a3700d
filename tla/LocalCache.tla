----------------------------- MODULE LocalCache -----------------------------
(* The whole-file cache of slow mounts (internal/localcache): handlers mark    *)
(* and drop files, one worker copies them, evicts down to the cap and saves    *)
(* the index that a restart reloads. A step is what one critical section or    *)
(* one file operation does; the index is read under the lock and written       *)
(* without it.                                                                 *)
EXTENDS Naturals, FiniteSets, Sequences

CONSTANTS
  MountFiles,    \* files of the mounts
  Handlers,      \* concurrent requests to mark or drop a file
  QueueSize,     \* the capacity of the jobs channel (64)
  Cap,           \* bound: files the cache holds, in place of maxBytes
  NoCopy

ASSUME CacheAssumption ==
  /\ NoCopy \notin MountFiles /\ IsFiniteSet(MountFiles)
  /\ QueueSize \in Nat /\ Cap \in Nat

VARIABLES
  mark,          \* entries: the status of each, "none" when there is no entry
  copy,          \* the file at its CachePath: none, half of it, whole
  jobs,          \* Cache.jobs
  worker,        \* where the copy worker is; `mine' while its entry is the one in the map,
                 \* `linked' while the file it writes has its name
  handler,       \* where each request is
  index          \* index.json

cacheVars == <<mark, copy, jobs, worker, handler, index>>

Resting == [at |-> "idle", file |-> NoCopy, mine |-> FALSE, linked |-> FALSE, snap |-> {}]
Free == [at |-> "idle", file |-> NoCopy, snap |-> {}]

CacheTypeOK ==
  /\ mark \in [MountFiles -> {"none", "queued", "copying", "ready", "error"}]
  /\ copy \in [MountFiles -> {"none", "half", "whole"}]
  /\ jobs \in Seq(MountFiles) /\ Len(jobs) <= QueueSize
  /\ worker \in [at : {"idle", "found", "copying", "written", "failed", "evicting",
                       "snapshot", "saving"},
                 file : MountFiles \union {NoCopy}, mine : BOOLEAN, linked : BOOLEAN, snap : SUBSET MountFiles]
  /\ handler \in [Handlers -> [at : {"idle", "pushing", "unlinking", "snapshot", "saving"},
                               file : MountFiles \union {NoCopy}, snap : SUBSET MountFiles]]
  /\ index \subseteq MountFiles

CacheInit ==
  /\ mark = [f \in MountFiles |-> "none"] /\ copy = [f \in MountFiles |-> "none"]
  /\ jobs = <<>> /\ worker = Resting /\ handler = [h \in Handlers |-> Free]
  /\ index = {}

Marked(st) == {f \in MountFiles : mark[f] = st}
Moved(at) == worker' = [worker EXCEPT !.at = at]
\* The entry of f in the map is not the one the worker looked up any more.
Replaced(f) == worker' = IF worker.file = f THEN [worker EXCEPT !.mine = FALSE] ELSE worker
\* setStatus works on whatever entry the map holds for the key.
SetStatus(f, st) == mark' = [mark EXCEPT ![f] = IF @ = "none" THEN "none" ELSE st]
Unlink(f) == copy' = [copy EXCEPT ![f] = "none"]

(***************************************************************************)
(* Requests.                                                               *)
(***************************************************************************)

\* A file that is cached or in flight is left alone.
Enqueue(h, f) ==
  /\ handler[h] = Free /\ mark[f] \in {"none", "error"}
  /\ mark' = [mark EXCEPT ![f] = "queued"]
  /\ handler' = [handler EXCEPT ![h] = [Free EXCEPT !.at = "pushing", !.file = f]]
  /\ Replaced(f)
  /\ UNCHANGED <<copy, jobs, index>>

(* mutant: a full queue is not told to the entry *)
queueFullUnseen(f) == UNCHANGED mark
queueFull(f) == SetStatus(f, "error")

Push(h) ==
  LET f == handler[h].file IN
  /\ handler[h].at = "pushing"
  /\ handler' = [handler EXCEPT ![h] = Free]
  /\ IF Len(jobs) < QueueSize THEN jobs' = Append(jobs, f) /\ UNCHANGED mark
                              ELSE queueFull(f) /\ UNCHANGED jobs
  /\ UNCHANGED <<copy, worker, index>>

Remove(h, f) ==
  /\ handler[h] = Free /\ mark[f] # "none"
  /\ mark' = [mark EXCEPT ![f] = "none"]
  /\ handler' = [handler EXCEPT ![h] = [Free EXCEPT !.at = "unlinking", !.file = f]]
  /\ Replaced(f)
  /\ UNCHANGED <<copy, jobs, index>>

RemoveFile(h) ==
  LET f == handler[h].file IN
  /\ handler[h].at = "unlinking"
  /\ Unlink(f)
  /\ worker' = IF worker.file = f THEN [worker EXCEPT !.linked = FALSE] ELSE worker
  /\ handler' = [handler EXCEPT ![h] = [Free EXCEPT !.at = "snapshot"]]
  /\ UNCHANGED <<mark, jobs, index>>

\* saveIndex, in a request.
ReadEntries(h) ==
  /\ handler[h].at = "snapshot"
  /\ handler' = [handler EXCEPT ![h] = [Free EXCEPT !.at = "saving", !.snap = Marked("ready")]]
  /\ UNCHANGED <<mark, copy, jobs, worker, index>>

WriteIndex(h) ==
  /\ handler[h].at = "saving"
  /\ index' = handler[h].snap
  /\ handler' = [handler EXCEPT ![h] = Free]
  /\ UNCHANGED <<mark, copy, jobs, worker>>

(***************************************************************************)
(* The worker.                                                             *)
(***************************************************************************)

\* A job whose entry is gone is dropped.
TakeJob ==
  /\ worker = Resting /\ jobs # <<>>
  /\ jobs' = Tail(jobs)
  /\ worker' = IF mark[Head(jobs)] = "none" THEN Resting
               ELSE [Resting EXCEPT !.at = "found", !.file = Head(jobs), !.mine = TRUE]
  /\ UNCHANGED <<mark, copy, handler, index>>

StartCopy ==
  /\ worker.at = "found"
  /\ SetStatus(worker.file, "copying") /\ Moved("copying")
  /\ UNCHANGED <<copy, jobs, handler, index>>

CreateFile ==
  /\ worker.at = "copying" /\ ~worker.linked
  /\ copy' = [copy EXCEPT ![worker.file] = "half"]
  /\ worker' = [worker EXCEPT !.linked = TRUE, !.at = "written"]
  /\ UNCHANGED <<mark, jobs, handler, index>>

(* mutant: the status is set by key, on whatever entry is there *)
becomesReadyByKey == mark[worker.file] # "none"
becomesReady == worker.mine

\* The rest of the copy, its close and the entry's new status.
FinishCopy ==
  LET f == worker.file IN
  /\ worker.at = "written"
  /\ copy' = IF worker.linked THEN [copy EXCEPT ![f] = "whole"] ELSE copy
  /\ mark' = IF becomesReady THEN [mark EXCEPT ![f] = "ready"] ELSE mark
  /\ worker' = [Resting EXCEPT !.at = "evicting"]
  /\ UNCHANGED <<jobs, handler, index>>

\* The mount failed, before or while bytes were written.
FailCopy ==
  /\ worker.at \in {"copying", "written"}
  /\ Unlink(worker.file) /\ Moved("failed")
  /\ UNCHANGED <<mark, jobs, handler, index>>

ReportFailure ==
  /\ worker.at = "failed"
  /\ SetStatus(worker.file, "error") /\ worker' = Resting
  /\ UNCHANGED <<copy, jobs, handler, index>>

\* Least recently used first; which those are depends on reads not modelled.
Evict ==
  /\ worker.at = "evicting"
  /\ \E out \in SUBSET Marked("ready") :
       /\ Cardinality(Marked("ready") \ out) =
            IF Cardinality(Marked("ready")) <= Cap THEN Cardinality(Marked("ready")) ELSE Cap
       /\ mark' = [f \in MountFiles |-> IF f \in out THEN "none" ELSE mark[f]]
       /\ copy' = [f \in MountFiles |-> IF f \in out THEN "none" ELSE copy[f]]
  /\ worker' = [Resting EXCEPT !.at = "snapshot"]
  /\ UNCHANGED <<jobs, handler, index>>

WorkerReadsEntries ==
  /\ worker.at = "snapshot"
  /\ worker' = [Resting EXCEPT !.at = "saving", !.snap = Marked("ready")]
  /\ UNCHANGED <<mark, copy, jobs, handler, index>>

WorkerWritesIndex ==
  /\ worker.at = "saving"
  /\ index' = worker.snap /\ worker' = Resting
  /\ UNCHANGED <<mark, copy, jobs, handler>>

(* The process dies and starts again: a file is trusted when the index names   *)
(* it and it has its full size, and removed when it has not.                   *)
Reload ==
  /\ mark' = [f \in MountFiles |-> IF f \in index /\ copy[f] = "whole" THEN "ready" ELSE "none"]
  /\ copy' = [f \in MountFiles |-> IF f \in index /\ copy[f] # "whole" THEN "none" ELSE copy[f]]
  /\ jobs' = <<>> /\ worker' = Resting /\ handler' = [h \in Handlers |-> Free]
  /\ UNCHANGED index

Working == TakeJob \/ StartCopy \/ CreateFile \/ FinishCopy \/ FailCopy \/ ReportFailure
           \/ Evict \/ WorkerReadsEntries \/ WorkerWritesIndex
Answering(h) == Push(h) \/ RemoveFile(h) \/ ReadEntries(h) \/ WriteIndex(h)

CacheNext ==
  \/ \E h \in Handlers : Answering(h) \/ \E f \in MountFiles : Enqueue(h, f) \/ Remove(h, f)
  \/ Working \/ Reload

(* The worker and the requests run on; nobody has to mark or drop a file. *)
CacheFairness == WF_cacheVars(Working) /\ \A h \in Handlers : WF_cacheVars(Answering(h))

CacheSpec == CacheInit /\ [][CacheNext]_cacheVars /\ CacheFairness

(***************************************************************************)
(* Properties.                                                             *)
(***************************************************************************)

Sound(f) == mark[f] = "ready" => copy[f] = "whole"

\* The unlink of a drop came so late that the file was marked again in between: it
\* takes the new copy, or the name of the one being written.
Overtaken(f) ==
  \/ \E h \in Handlers : handler[h].at = "unlinking" /\ handler[h].file = f /\ copy'[f] = "none"
  \/ worker.file = f /\ worker.mine /\ worker.at = "written" /\ ~worker.linked

(* No half or missing copy is ever served as a cached file: a file that is     *)
(* dropped, marked again and copied while the first copy still runs, a copy    *)
(* that fails, an eviction and a restart all keep an entry that is ready       *)
(* whole. The one exception is a drop overtaken by a new mark of its file.     *)
ReadyStaysWhole == [][\A f \in MountFiles : Sound(f) => Sound(f)' \/ Overtaken(f)]_cacheVars

(* A marked file does not stay queued: it is copied, fails, is dropped, or its *)
(* entry says that the queue was full, whoever dropped and marked it meanwhile.*)
QueuedIsServed == \A f \in MountFiles : []<>(mark[f] # "queued")
=============================================================================
