--------------------------- MODULE VerifyLimiter ---------------------------
(***************************************************************************)
(* The piece-hash limiter of internal/streamer/verify_limiter.go: a        *)
(* semaphore whose size can change while it is in use, whose waiters can   *)
(* give up, and which can be shut down.  It is built on one mutex and one  *)
(* channel that is closed (waking everybody) and replaced on every change. *)
(*                                                                         *)
(* Each critical section under l.mu is one step.  A waiter snapshots the   *)
(* channel under the mutex, so it is `parked' on the current channel from  *)
(* that moment on; closing the channel makes it `woken', and it re-checks  *)
(* the counter under the mutex before it does anything else.               *)
(***************************************************************************)
EXTENDS Integers, FiniteSets

CONSTANTS
    Callers,      \* the goroutines that hash pieces
    Limits        \* the values SetLimit is called with (any integers)

ASSUME CallersAssumption == IsFiniteSet(Callers)
ASSUME LimitsAssumption  == Limits \subseteq Int /\ Limits # {}

VARIABLES
    limit,        \* l.limit
    active,       \* l.active
    closed,       \* l.closed
    caller        \* where each goroutine is in AcquireContext / Release

vars == <<limit, active, closed, caller>>

CallerStates == {"idle", "parked", "woken", "holding"}

Holders == {c \in Callers : caller[c] = "holding"}
Parked  == {c \in Callers : caller[c] = "parked"}

(* mutant: zero is let through *)
normalizeNot(n) == n

normalizeVerifyLimit(n) == IF n < 1 THEN 1 ELSE n

(* mutant: the channel is not closed *)
broadcastNobody(cs) == cs

(* close(l.ch): every waiter parked on the current channel runs again. *)
broadcastLocked(cs) ==
    [c \in Callers |-> IF cs[c] = "parked" THEN "woken" ELSE cs[c]]

-----------------------------------------------------------------------------
Init ==
    /\ \E n \in Limits : limit = normalizeVerifyLimit(n)
    /\ active = 0
    /\ closed = FALSE
    /\ caller = [c \in Callers |-> "idle"]

(* One pass of AcquireContext's loop: return ErrVerifyLimiterClosed, take a *)
(* slot, or park.                                                           *)
Refuse(c) ==
    /\ caller[c] \in {"idle", "woken"}
    /\ closed
    /\ caller' = [caller EXCEPT ![c] = "idle"]
    /\ UNCHANGED <<limit, active, closed>>

(* mutant: the limit is not looked at *)
TakeAlways(c) ==
    /\ caller[c] \in {"idle", "woken"} /\ ~closed
    /\ active' = active + 1
    /\ caller' = [caller EXCEPT ![c] = "holding"]
    /\ UNCHANGED <<limit, closed>>

Take(c) ==
    /\ caller[c] \in {"idle", "woken"}
    /\ ~closed
    /\ active < limit
    /\ active' = active + 1
    /\ caller' = [caller EXCEPT ![c] = "holding"]
    /\ UNCHANGED <<limit, closed>>

Park(c) ==
    /\ caller[c] \in {"idle", "woken"}
    /\ ~closed
    /\ ~(active < limit)
    /\ caller' = [caller EXCEPT ![c] = "parked"]
    /\ UNCHANGED <<limit, active, closed>>

(* The select takes the ctx.Done() branch.  With the channel closed as well *)
(* the runtime may still choose this one.                                   *)
ContextDone(c) ==
    /\ caller[c] \in {"parked", "woken"}
    /\ caller' = [caller EXCEPT ![c] = "idle"]
    /\ UNCHANGED <<limit, active, closed>>

(* mutant: the slot is not given back *)
ReleaseNot(c) ==
    /\ caller[c] = "holding"
    /\ caller' = broadcastLocked([caller EXCEPT ![c] = "idle"])
    /\ UNCHANGED <<limit, active, closed>>

Release(c) ==
    /\ caller[c] = "holding"
    /\ active' = IF active > 0 THEN active - 1 ELSE active
    /\ caller' = broadcastLocked([caller EXCEPT ![c] = "idle"])
    /\ UNCHANGED <<limit, closed>>

SetLimit(n) ==
    /\ ~closed
    /\ limit' = normalizeVerifyLimit(n)
    /\ caller' = broadcastLocked(caller)
    /\ UNCHANGED <<active, closed>>

Shutdown ==
    /\ ~closed
    /\ closed' = TRUE
    /\ caller' = broadcastLocked(caller)
    /\ UNCHANGED <<limit, active>>

Next ==
    \/ \E c \in Callers : Refuse(c) \/ Take(c) \/ Park(c) \/ ContextDone(c) \/ Release(c)
    \/ \E n \in Limits : SetLimit(n)
    \/ Shutdown

Spec == Init /\ [][Next]_vars

(* A hash pass ends, and a goroutine whose channel was closed is scheduled; *)
(* nobody has to call Acquire, SetLimit or Shutdown.                        *)
Fairness ==
    \A c \in Callers :
        /\ WF_vars(Release(c))
        /\ WF_vars(caller[c] = "woken" /\ (Refuse(c) \/ Take(c) \/ Park(c)))

FairSpec == Spec /\ Fairness

-----------------------------------------------------------------------------
TypeOK ==
    /\ limit \in Nat \ {0}
    /\ active \in Nat
    /\ closed \in BOOLEAN
    /\ caller \in [Callers -> CallerStates]

(* The counter is exactly the number of goroutines inside a hash pass: no   *)
(* path through AcquireContext, a give-up or a shutdown leaks a slot or     *)
(* frees one twice (the "orphan call" branch of Release never runs).        *)
HoldersCounted == active = Cardinality(Holders)

(* No lost wake-up: nobody sleeps on the channel while there is a free slot *)
(* to take or after the limiter was shut down.  The snapshot of l.ch is     *)
(* taken in the same critical section as the check of the counter.          *)
NoLostWakeup == Parked # {} => active >= limit /\ ~closed

(* Hashing never goes above the cap by admission: only lowering the cap     *)
(* leaves more holders than slots, and from there the excess only shrinks.  *)
ExcessOnlyDrains == [][active > limit => active' <= active]_vars

(* Every sleeper is eventually woken: holders finish, or Shutdown runs. *)
SleepersWake == \A c \in Callers : []<>(caller[c] # "parked")
=============================================================================
