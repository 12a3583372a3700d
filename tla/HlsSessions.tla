---------------------------- MODULE HlsSessions ----------------------------
(* Transcoding for a player (internal/transcode): one session per content, one *)
(* ffmpeg per session, started by the first request, moved by seeks, relaunched *)
(* in software when the GPU has no memory, and torn down by the player, the    *)
(* idle reaper, a play that needs its GPU slot, or shutdown.                   *)
(*                                                                             *)
(* A launch is two steps, as in the code: the process starts, and under the    *)
(* session's mutex it is either installed or killed.                           *)
EXTENDS Naturals, FiniteSets

CONSTANTS
  Sessions,    \* bound: sessions ever built (numbers)
  Asks,        \* HTTP requests for playlists and segments, with what they may ask for
  Sought,      \* bound: sessions whose player seeks
  Nobody,      \* no session
  GpuLimit,    \* JACKUI_MAX_GPU_TRANSCODES
  MaxRuns      \* bound: encoder runs of a session

ASSUME HlsAssumption ==
  /\ Nobody \notin Sessions
  /\ IsFiniteSet(Sessions)
  /\ GpuLimit \in Nat \ {0} /\ MaxRuns \in Nat \ {0}

Requests == {a[1] : a \in Asks}
Keys == {a[2] : a \in Asks}

VARIABLES
  sess,        \* the sessions; `at' is where one is between its build and its end
  runs,        \* ffmpeg processes and the goroutines that wait for them
  moving,      \* restartMu: how far the replacement of a session's encoder is
  inUse,       \* gpuSem.inUse
  request      \* where each request is, and the session it holds

hlsVars == <<sess, runs, moving, inUse, request>>

NoSession == [key |-> Nobody, at |-> "free", dead |-> FALSE, failed |-> FALSE,
              holds |-> FALSE, sw |-> FALSE, gen |-> 0]

Idle == [at |-> "idle", key |-> Nobody, s |-> Nobody]

HlsTypeOK ==
  /\ sess \in [Sessions -> [key : Keys \union {Nobody},
                            at : {"free", "building", "tracked", "removed", "stopping", "gone"},
                            dead : BOOLEAN, failed : BOOLEAN, holds : BOOLEAN, sw : BOOLEAN, gen : 0..MaxRuns]]
  /\ runs \subseteq [s : Sessions, gen : 0..MaxRuns,
                     st : {"running", "killed", "oom", "err"}]
  /\ moving \in [Sessions -> {"no", "waiting", "started"}]
  /\ inUse \in 0..GpuLimit
  /\ request \in [Requests -> [at : {"idle", "asking", "waiting", "building", "reclaiming",
                                     "reserved", "reaping"},
                               key : Keys \union {Nobody}, s : Sessions \union {Nobody}]]

HlsInit ==
  /\ sess = [s \in Sessions |-> NoSession]
  /\ runs = {} /\ inUse = 0 /\ moving = [s \in Sessions |-> "no"]
  /\ request = [r \in Requests |-> Idle]

Tracked(k) == {s \in Sessions : sess[s].key = k /\ sess[s].at = "tracked"}
BeingBuilt(k) == {s \in Sessions : sess[s].key = k /\ sess[s].at = "building"}
Put(e, st) == runs' = (runs \ {e}) \union {[e EXCEPT !.st = st]}
MayRun(s) == sess[s].gen < MaxRuns
Went(r, at) == request' = [request EXCEPT ![r].at = at]

(***************************************************************************)
(* GetOrStart.                                                             *)
(***************************************************************************)

(* EffectiveKey also names the session's directory. *)
Ask(r, k) ==
  /\ request[r] = Idle
  /\ request' = [request EXCEPT ![r] = [at |-> "asking", key |-> k, s |-> Nobody]]
  /\ UNCHANGED <<sess, runs, moving, inUse>>

\* A session whose encoder failed is reaped before a new one is built, unless
\* it had written its playlist (abstracted: \E in the two actions below).
FindFailed(r) ==
  /\ request[r].at = "asking"
  /\ \E s \in Tracked(request[r].key) :
       /\ sess[s].failed
       /\ sess' = [sess EXCEPT ![s].at = "removed"]
       /\ request' = [request EXCEPT ![r].at = "reaping", ![r].s = s]
  /\ UNCHANGED <<runs, moving, inUse>>

Find(r) ==
  /\ request[r].at = "asking" /\ Tracked(request[r].key) # {}
  /\ request' = [request EXCEPT ![r] = Idle]
  /\ UNCHANGED <<sess, runs, moving, inUse>>

BuilderAlone(k) == BeingBuilt(k) = {}

BecomeBuilder(r) ==
  LET k == request[r].key IN
  /\ request[r].at = "asking" /\ Tracked(k) = {} /\ BuilderAlone(k)
  /\ \E s \in Sessions :
       /\ sess[s].at = "free" /\ \A t \in Sessions : t < s => sess[t].at # "free"
       /\ sess' = [sess EXCEPT ![s].key = k, ![s].at = "building"]
       /\ request' = [request EXCEPT ![r].at = "building", ![r].s = s]
  /\ UNCHANGED <<runs, moving, inUse>>

Await(r) ==
  LET k == request[r].key IN
  /\ request[r].at = "asking" /\ Tracked(k) = {} /\ ~BuilderAlone(k)
  /\ Went(r, "waiting")
  /\ UNCHANGED <<sess, runs, moving, inUse>>

\* The client went away; the build of a session goes on without it.
Leave(r) ==
  /\ request[r].at = "waiting"
  /\ request' = [request EXCEPT ![r] = Idle]
  /\ UNCHANGED <<sess, runs, moving, inUse>>

\* stop() runs in the goroutine that removed the session; this request goes on after it.
Reaped(r) ==
  /\ request[r].at = "reaping" /\ sess[request[r].s].at = "gone"
  /\ request' = [request EXCEPT ![r].at = "asking", ![r].s = Nobody]
  /\ UNCHANGED <<sess, runs, moving, inUse>>

(* reserveDecodeMode: a slot, a slot taken from an idle session, or software. *)
HasSlot(s) == sess' = [sess EXCEPT ![s].holds = TRUE]

Reserve(r) ==
  /\ request[r].at = "building"
  /\ inUse < GpuLimit
  /\ inUse' = inUse + 1 /\ HasSlot(request[r].s)
  /\ Went(r, "reserved") /\ UNCHANGED <<runs, moving>>

Reclaim(r) ==
  /\ request[r].at = "building" /\ inUse >= GpuLimit
  /\ \E v \in Sessions :
       /\ sess[v].at = "tracked" /\ sess[v].holds
       /\ sess' = [sess EXCEPT ![v].at = "removed"]
       /\ Went(r, "reclaiming")
  /\ UNCHANGED <<runs, moving, inUse>>

Reserve2(r) ==
  /\ request[r].at = "reclaiming" /\ \E v \in Sessions : sess[v].at = "gone"
  /\ inUse < GpuLimit
  /\ inUse' = inUse + 1 /\ HasSlot(request[r].s)
  /\ Went(r, "reserved") /\ UNCHANGED <<runs, moving>>

DecodeInSoftware(r) ==
  /\ request[r].at \in {"building", "reclaiming"} /\ inUse >= GpuLimit
  /\ sess' = [sess EXCEPT ![request[r].s].sw = TRUE]
  /\ Went(r, "reserved") /\ UNCHANGED <<runs, moving, inUse>>

(* mutant: the channel is not closed *)
wakeNobody(req, r, k) == req

\* close(ch): everybody who waited for the build asks again.
wake(req, r, k) ==
  [q \in Requests |-> IF req[q].at = "waiting" /\ req[q].key = k /\ q # r
                      THEN [req[q] EXCEPT !.at = "asking"] ELSE req[q]]

\* Nobody else can reach the session yet.  The map takes it even after Stop.
Built(r) ==
  LET s == request[r].s IN
  /\ request[r].at = "reserved"
  /\ sess' = [sess EXCEPT ![s].at = "tracked", ![s].gen = 1]
  /\ runs' = runs \union {[s |-> s, gen |-> 1, st |-> "running"]}
  /\ request' = wake([request EXCEPT ![r] = Idle], r, sess[s].key)
  /\ UNCHANGED <<moving, inUse>>

BuildFails(r) ==
  LET s == request[r].s IN
  /\ request[r].at = "reserved"
  /\ sess' = [sess EXCEPT ![s].at = "gone", ![s].holds = FALSE]
  /\ inUse' = IF sess[s].holds THEN inUse - 1 ELSE inUse
  /\ request' = wake([request EXCEPT ![r] = Idle], r, sess[s].key)
  /\ UNCHANGED <<runs, moving>>

(***************************************************************************)
(* RestartAt, of a session looked up earlier, and the launch it ends with. *)
(***************************************************************************)

\* The context of the current run is canceled.
Cancelled(s) ==
  {[e EXCEPT !.st = IF e.s = s /\ e.gen = sess[s].gen /\ e.st = "running" THEN "killed" ELSE @]
     : e \in runs}

Known == {s \in Sessions : sess[s].at \notin {"free", "building"}}
Moves(s, step) == moving' = [moving EXCEPT ![s] = step]

Seek(s) ==
  /\ s \in Known \intersect Sought /\ moving[s] = "no" /\ ~sess[s].dead /\ MayRun(s)
  /\ runs' = Cancelled(s)
  /\ Moves(s, "waiting")
  /\ UNCHANGED <<sess, inUse, request>>

\* <-done, then launch: s.dead, then cmd.Start.
EncoderGone(s) == moving[s] = "waiting" /\ \A e \in runs : e.s = s => e.st # "killed"

StartEncoder(s) ==
  /\ EncoderGone(s) /\ ~sess[s].dead
  /\ Moves(s, "started") /\ UNCHANGED <<sess, runs, inUse, request>>

StartFails(s) ==
  /\ EncoderGone(s) \/ moving[s] = "started"
  /\ Moves(s, "no") /\ UNCHANGED <<sess, runs, inUse, request>>

StillWanted(s) == ~sess[s].dead

Launched(s) ==
  /\ moving[s] = "started"
  /\ IF StillWanted(s)
     THEN /\ sess' = [sess EXCEPT ![s].failed = FALSE, ![s].gen = @ + 1]
          /\ runs' = runs \union {[s |-> s, gen |-> sess[s].gen + 1, st |-> "running"]}
     ELSE UNCHANGED <<sess, runs>>
  /\ Moves(s, "no") /\ UNCHANGED <<inUse, request>>

(***************************************************************************)
(* The goroutine that waits for the process.                               *)
(***************************************************************************)

Exit(e) ==
  /\ e.st \in {"running", "killed"}
  /\ runs' = runs \ {e}
  /\ UNCHANGED <<sess, moving, inUse, request>>

\* Out of VRAM, or an error that is to be reported; the context was looked at and
\* not canceled, and a seek may come before the next step.
Crash(e) ==
  /\ e.st = "running"
  /\ \/ ~sess[e.s].sw /\ Put(e, "oom")
     \/ Put(e, "err")
  /\ UNCHANGED <<sess, moving, inUse, request>>

(* mutant: a newer run is not noticed *)
recoverableAlways(e) == ~sess[e.s].dead /\ ~sess[e.s].sw

recoverable(e) == ~sess[e.s].dead /\ sess[e.s].gen = e.gen /\ ~sess[e.s].sw

(* mutant: the flag is not cleared *)
releaseGPUSlotKeep(s) == [sess[s] EXCEPT !.sw = @]

releaseGPUSlot(s) == [sess[s] EXCEPT !.holds = FALSE]

TakenBack(s) == inUse' = IF sess[s].holds /\ inUse > 0 THEN inUse - 1 ELSE inUse

\* tryRecoverFromCUDAOOM: once per session, in software from then on.
Recover(e) ==
  /\ e.st = "oom" /\ moving[e.s] = "no" /\ recoverable(e) /\ MayRun(e.s)
  /\ sess' = [sess EXCEPT ![e.s] = [releaseGPUSlot(e.s) EXCEPT !.sw = TRUE]]
  /\ TakenBack(e.s)
  /\ Moves(e.s, "started")
  /\ runs' = runs \ {e} /\ UNCHANGED request

\* Stopped or superseded: the context is canceled by now.
RecoverNot(e) ==
  /\ e.st = "oom" /\ moving[e.s] = "no" /\ ~recoverable(e)
  /\ runs' = runs \ {e} /\ UNCHANGED <<sess, moving, inUse, request>>

MarkFailed(e) ==
  /\ e.st = "err"
  /\ sess' = [sess EXCEPT ![e.s].failed = TRUE]
  /\ runs' = runs \ {e} /\ UNCHANGED <<moving, inUse, request>>

(***************************************************************************)
(* Teardown: out of the map first, then stop() outside the manager's lock. *)
(***************************************************************************)

\* Close, CloseForHash, the idle reaper; Stop does it to every session.
CloseSession(s) ==
  /\ sess[s].at = "tracked"
  /\ sess' = [sess EXCEPT ![s].at = "removed"]
  /\ UNCHANGED <<runs, moving, inUse, request>>

\* What is still to be reported of a dead session makes no difference.
StopEncoder(s) ==
  /\ sess[s].at = "removed"
  /\ sess' = [sess EXCEPT ![s].dead = TRUE, ![s].at = "stopping", ![s].failed = FALSE]
  /\ runs' = {e \in Cancelled(s) : ~(e.s = s /\ e.st = "err")}
  /\ UNCHANGED <<moving, inUse, request>>

StopRest(s) ==
  /\ sess[s].at = "stopping"
  /\ sess' = [sess EXCEPT ![s] = [releaseGPUSlot(s) EXCEPT !.at = "gone", !.sw = FALSE]]
  /\ TakenBack(s)
  /\ UNCHANGED <<runs, moving, request>>

RequestStep(r) ==
  \/ FindFailed(r) \/ Find(r) \/ BecomeBuilder(r) \/ Await(r) \/ Reaped(r)
  \/ Reserve(r) \/ Reclaim(r) \/ Reserve2(r) \/ DecodeInSoftware(r) \/ Built(r) \/ BuildFails(r)

MoveStep(s) == StartEncoder(s) \/ StartFails(s) \/ Launched(s)
StopStep(s) == StopEncoder(s) \/ StopRest(s)

RunStep(e) == Exit(e) \/ Crash(e) \/ Recover(e) \/ RecoverNot(e) \/ MarkFailed(e)

HlsNext ==
  \/ \E r \in Requests : RequestStep(r) \/ Leave(r)
  \/ \E a \in Asks : Ask(a[1], a[2])
  \/ \E e \in runs : RunStep(e)
  \/ \E s \in Sessions : MoveStep(s) \/ StopStep(s) \/ Seek(s) \/ CloseSession(s)

HlsSpec == HlsInit /\ [][HlsNext]_hlsVars
-----------------------------------------------------------------------------
(* A process that nobody told to end is the current run of its session, and    *)
(* that session has not been torn down: whatever seeks, recoveries and stops   *)
(* do at once, no session has two encoders and none is left without an owner.  *)
EncodersOwned ==
  \A e \in runs : e.st = "running" => e.gen = sess[e.s].gen /\ ~sess[e.s].dead

(* The semaphore counts exactly the sessions that hold a slot, and none of     *)
(* those has ended: a slot is neither lost nor given back twice.               *)
SlotsAccounted ==
  /\ inUse = Cardinality({s \in Sessions : sess[s].holds})
  /\ \A s \in Sessions : sess[s].holds => sess[s].at # "gone"

(* Whoever waits for somebody else's build waits for one that is under way and *)
(* will wake it, though builds fail, are raced and give way to reaping.        *)
WaitersHaveBuilder ==
  \A r \in Requests : request[r].at = "waiting" =>
    \E b \in Requests : /\ request[b].at \in {"building", "reclaiming", "reserved"}
                       /\ sess[request[b].s].key = request[r].key
=============================================================================
