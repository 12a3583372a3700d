--------------------------- MODULE DownloadWorker ---------------------------
(***************************************************************************)
(* The background download worker, internal/downloads: the rows of the     *)
(* downloads table, the tick loop that reconciles them with the torrent    *)
(* client, the goroutines that resolve metadata and those that move the    *)
(* finished files, and the HTTP handlers that pause, resume, recheck and   *)
(* delete rows while all of that runs.                                     *)
(*                                                                         *)
(* The database serialises statements and w.mu the worker's maps, and      *)
(* neither is held across the other, across a disk operation or across the *)
(* torrent client.  A step here is one statement or one critical section,  *)
(* with the private computation around it; where two are taken together    *)
(* the action says so.                                                     *)
(***************************************************************************)
EXTENDS SlotPlan

CONSTANTS
    Whole,            \* rows that stand for the whole torrent
    Priority,         \* the priority rank of a row, 1..3
    MaxInitRetries,   \* maxInitRetries
    MoveMaxAttempts,  \* moveMaxAttempts
    MaxStalls,        \* QueueSettings.MaxStalls, 0 for no limit
    InitIds, MoveIds, \* bounds on concurrent init goroutines and move jobs
    Calls,            \* the outside events that occur: calls of handlers, stalls, ...
    MaxCalls          \* bound on their number

ASSUME WholeAssumption == Whole \subseteq Rows
ASSUME WorkerNumbers   == /\ MaxInitRetries \in Nat \ {0}
                          /\ MoveMaxAttempts \in Nat \ {0}
                          /\ MaxStalls \in Nat
                          /\ MaxCalls \in Nat

VARIABLES
    status,       \* the status column; "deleted" once the row is gone
    stalls,       \* the stalls column
    done,         \* rows whose bytes are all on disk
    tracked,      \* w.tracked
    pending,      \* w.pending: the init goroutine of a row, or None
    retries,      \* w.retries
    removed,      \* w.removed
    movingActive, \* w.movingActive (w.movingSince has the same keys)
    live,         \* torrents the client has open
    protected,    \* s.downloads: torrents protected from eviction
    tick,         \* the tick loop: where it is and its snapshots
    inits,        \* the init goroutines
    moves,        \* the move goroutines
    deleting,     \* rows deleted by a handler that has yet to call Remove
    stopping,     \* Stop was called
    calls         \* how many outside calls were made

storeVars  == <<status, stalls>>
mapVars    == <<tracked, pending, retries, removed, movingActive>>
clientVars == <<live, protected>>
outside    == <<deleting, stopping, calls>>
vars == <<status, stalls, done, tracked, pending, retries, removed, movingActive,
          live, protected, tick, inits, moves, deleting, stopping, calls>>

None == "none"

Statuses == {"queued", "downloading", "moving", "completed", "failed", "paused", "deleted"}
Stored   == Statuses \ {"deleted"}

Torrents == {TorrentOf[r] : r \in Rows}

InitPcs == {"free", "resolve", "track", "fail", "spent"}
MovePcs == {"free", "move", "backoff", "store", "reseed"}
TickPcs == {"idle", "drop", "groups", "stalls", "untrack", "pause", "sweep", "prune", "rescue"}

IdleTick == [pc |-> "idle", todo |-> {}, drops |-> {}, rows |-> {}]
FreeInit == [pc |-> "free", members |-> {}, todo |-> {}, failing |-> {}]
FreeMove == [pc |-> "free", members |-> {}, group |-> FALSE, tries |-> 0]

-----------------------------------------------------------------------------
(* UPDATE downloads SET status=to WHERE id IN S AND status IN from *)
Updated(S, from, to) ==
    [r \in Rows |-> IF r \in S /\ status[r] \in from THEN to ELSE status[r]]

Having(s)      == {r \in Rows : status[r] = s}
TorrentsOf(S)  == {TorrentOf[r] : r \in S}
Named(t, S)    == {r \in S : TorrentOf[r] = t}
Pending(S)     == {r \in S : pending[r] # None}

(* Something the worker does not decide happens; `calls' counts and bounds  *)
(* such events, and Calls selects the kinds a configuration lets happen.    *)
Call(name) ==
    /\ name \in Calls /\ calls < MaxCalls
    /\ calls' = calls + 1

(* What unregisterLocked leaves protected after the rows `gone' left the    *)
(* tracked set, one after the other: a torrent stays as long as another     *)
(* tracked row has its name.                                                *)
unregisterLocked(gone, remaining) ==
    protected \ (TorrentsOf(gone) \ TorrentsOf(remaining))

(* mutant: the entry is left behind *)
clearPendingNot(S)   == pending
clearPending(S)      == [r \in Rows |-> IF r \in S THEN None ELSE pending[r]]
forgetRetries(S)     == [r \in Rows |-> IF r \in S THEN 0 ELSE retries[r]]

FreeInits == {i \in InitIds : inits[i].pc = "free"}
FreeMoves == {j \in MoveIds : moves[j].pc = "free"}

(* A process that has just begun, and nobody has called it yet. *)
Begun ==
    /\ stalls = [r \in Rows |-> 0]
    /\ done = {}
    /\ tracked = {} /\ removed = {} /\ movingActive = {}
    /\ pending = [r \in Rows |-> None]
    /\ retries = [r \in Rows |-> 0]
    /\ live = {} /\ protected = {}
    /\ tick = IdleTick
    /\ inits = [i \in InitIds |-> FreeInit]
    /\ moves = [j \in MoveIds |-> FreeMove]
    /\ deleting = {} /\ stopping = FALSE

Init == status = [r \in Rows |-> "queued"] /\ Begun /\ calls = 0

-----------------------------------------------------------------------------
(* The tick.  Everything it does to a row rests on the list of downloading  *)
(* rows it read at the start.                                               *)

(* Of a group with a whole-torrent row only that row is driven. *)
Driven(g) == IF g \cap Whole = {} THEN g ELSE {CHOOSE r \in g \cap Whole : TRUE}

(* mutant: a pause is not noticed *)
VanishedNone(active) == {}

(* Tracked rows that ListActive no longer returns. *)
Vanished(active) == tracked \ active

(* ListActive, then one critical section: forget the rows not in the list,  *)
(* cancel their inits, and note the torrents no listed row shares.  (What   *)
(* the database gets in between shows as written later, what the maps get   *)
(* as done before.  Canceling an init lets it fail sooner; it may fail at   *)
(* any time anyhow.)                                                        *)
tickUntrack ==
    /\ tick.pc = "idle" /\ ~stopping
    /\ LET active == Having("downloading")
           gone   == Vanished(active)
           dead   == Pending(Rows) \ active
           drops  == TorrentsOf(gone) \ TorrentsOf(active)
       IN  /\ tracked' = tracked \ gone
           /\ protected' = unregisterLocked(gone, tracked')
           /\ pending' = clearPending(dead)
           /\ retries' = forgetRetries(gone \cup dead)
           /\ tick' = [IdleTick EXCEPT !.pc = IF drops = {} THEN "groups" ELSE "drop",
                         !.todo = {Driven(g) : g \in GroupRows(active)}, !.drops = drops]
    /\ UNCHANGED <<storeVars, done, removed, movingActive, live, inits, moves, outside>>

(* The client refuses to drop a protected torrent, and may refuse because   *)
(* somebody is watching it.                                                 *)
dropTorrents(drops) == \E refused \in SUBSET (drops \cap live) :
    live' = live \ (drops \ (protected \cup refused))

tickDrop ==
    /\ tick.pc = "drop"
    /\ dropTorrents(tick.drops)
    /\ tick' = [tick EXCEPT !.pc = "groups", !.drops = {}]
    /\ UNCHANGED <<storeVars, done, mapVars, protected, inits, moves, outside>>

Reconciled(g)   == tick' = [tick EXCEPT !.todo = @ \ {g}]
Open(g)         == groupTorrent(g) \in live
Running(g)      == g \cap tracked # {} /\ Open(g)
isWhole(g)      == g \cap Whole # {}

(* A group whose torrent is gone is untracked.  For a per-file group that   *)
(* also hides an init in flight from the decision below.                    *)
PendingSeen(g)  == Pending(g) # {} /\ (g \cap tracked = {} \/ isWhole(g))

StartInit(g) ==
    /\ tick.pc = "groups" /\ g \in tick.todo
    /\ ~Running(g) /\ ~PendingSeen(g)
    /\ FreeInits # {}
    /\ LET i == CHOOSE i \in FreeInits : TRUE
       IN  /\ inits' = [inits EXCEPT ![i] =
                         [FreeInit EXCEPT !.pc = "resolve", !.members = g]]
           /\ pending' = [r \in Rows |-> IF r \in g THEN i ELSE pending[r]]
    /\ tracked' = tracked \ g
    /\ Reconciled(g)
    /\ UNCHANGED <<storeVars, done, retries, removed, movingActive, clientVars, moves, outside>>

AwaitInit(g) ==
    /\ tick.pc = "groups" /\ g \in tick.todo
    /\ ~Running(g) /\ PendingSeen(g)
    /\ tracked' = tracked \ g
    /\ Reconciled(g)
    /\ UNCHANGED <<storeVars, done, pending, retries, removed, movingActive, clientVars,
                   inits, moves, outside>>

(* trackMember for every sibling not tracked yet, unless Remove left a      *)
(* tombstone.  The loop verifies and tracks them one by one; each is looked *)
(* at on its own, so what others do between two of them may as well come    *)
(* before or after.  The group is not complete in the tick that adopts.     *)
adoptSiblings(g) ==
    /\ tick.pc = "groups" /\ g \in tick.todo
    /\ Running(g) /\ ~(g \subseteq tracked)
    /\ tracked' = tracked \cup (g \ removed)
    /\ retries' = forgetRetries((g \ tracked) \ removed)
    /\ protected' = protected \cup {groupTorrent(g)}
    /\ Reconciled(g)
    /\ UNCHANGED <<storeVars, done, pending, removed, movingActive, live, inits, moves, outside>>

(* mutant: one member on disk is enough *)
groupCompletionAny(g) == g \subseteq tracked /\ g \cap done # {}

(* Every member is on disk and no sibling outside the snapshot wants data. *)
groupCompletionEligible(g) ==
    /\ g \subseteq tracked /\ g \subseteq done
    /\ isWhole(g) \/
       \A r \in g : (Siblings(r) \cap (Having("downloading") \cup Having("queued"))) \ Whole
                      \subseteq g

sampleGroup(g) ==
    /\ tick.pc = "groups" /\ g \in tick.todo
    /\ Running(g) /\ g \subseteq tracked
    /\ ~groupCompletionEligible(g)
    /\ Reconciled(g)
    /\ UNCHANGED <<storeVars, done, mapVars, clientVars, inits, moves, outside>>

(* mutant: the job gets the first member only *)
DispatchFirst(members, group) ==
    /\ FreeMoves # {}
    /\ LET j == CHOOSE j \in FreeMoves : TRUE
       IN  moves' = [moves EXCEPT ![j] = [FreeMove EXCEPT !.pc = "move", !.group = group,
                       !.members = {CHOOSE r \in members : TRUE}]]

Dispatch(members, group) ==
    /\ FreeMoves # {}
    /\ LET j == CHOOSE j \in FreeMoves : TRUE
       IN  moves' = [moves EXCEPT ![j] =
                       [FreeMove EXCEPT !.pc = "move", !.members = members, !.group = group]]

(* One member: SetStatus(moving) whatever the row is by now, untrack, mark  *)
(* the dispatch, submit.                                                    *)
checkCompletion(g) ==
    /\ tick.pc = "groups" /\ g \in tick.todo
    /\ Running(g) /\ groupCompletionEligible(g)
    /\ Cardinality(g) = 1
    /\ status' = Updated(g, Stored, "moving")
    /\ tracked' = tracked \ g
    /\ movingActive' = movingActive \cup g
    /\ Dispatch(g, FALSE)
    /\ Reconciled(g)
    /\ UNCHANGED <<stalls, done, pending, retries, removed, clientVars, inits, outside>>

(* Several: MoveGroup flips the rows that are still downloading, and one    *)
(* job moves those.                                                         *)
completeGroup(g) ==
    /\ tick.pc = "groups" /\ g \in tick.todo
    /\ Running(g) /\ groupCompletionEligible(g)
    /\ Cardinality(g) > 1
    /\ LET moved == g \cap Having("downloading")
       IN  /\ status' = Updated(moved, {"downloading"}, "moving")
           /\ tracked' = tracked \ moved
           /\ IF moved = {} THEN UNCHANGED moves ELSE Dispatch(moved, TRUE)
    /\ Reconciled(g)
    /\ UNCHANGED <<stalls, done, pending, retries, removed, movingActive, clientVars,
                   inits, outside>>

GroupsReconciled == tick.pc = "groups" /\ tick.todo = {}

(* Tracked rows that made no progress and have no seeders, group by group.  *)
detectStalls(victims) ==
    /\ GroupsReconciled /\ Call("stall")
    /\ tick' = [tick EXCEPT !.pc = "stalls", !.todo = GroupRows(victims)]
    /\ UNCHANGED <<storeVars, done, mapVars, clientVars, inits, moves, deleting, stopping>>

(* demoteStalledGroup.  One transaction, DemoteGroup, sends the rows still  *)
(* downloading to the back of the queue; one critical section forgets the   *)
(* whole group; and once the most stalled row has used up its stalls, those *)
(* demoted are paused, a write of its own that only gets logged when it     *)
(* fails.                                                                   *)
DemoteGroup(victims) ==
    /\ tick.pc = "stalls" /\ victims \in tick.todo
    /\ LET demoted == victims \cap Having("downloading")
       IN  /\ demoted # {}
           /\ stalls' = [r \in Rows |-> IF r \in demoted THEN stalls[r] + 1 ELSE stalls[r]]
           /\ status' = Updated(demoted, {"downloading"}, "queued")
           /\ tick' = [tick EXCEPT !.pc = "untrack", !.rows = demoted]
    /\ UNCHANGED <<done, mapVars, clientVars, inits, moves, outside>>

(* None of them is downloading any more, or the database refuses. *)
NoneDemoted(victims) ==
    /\ tick.pc = "stalls" /\ victims \in tick.todo
    /\ \/ victims \cap Having("downloading") = {} /\ UNCHANGED calls
       \/ Call("dbFail")
    /\ Reconciled(victims)
    /\ UNCHANGED <<storeVars, done, mapVars, clientVars, inits, moves, deleting, stopping>>

untrackStalled(victims) ==
    /\ tick.pc = "untrack" /\ victims \in tick.todo /\ victims \cap tick.rows # {}
    /\ tracked' = tracked \ victims
    /\ retries' = forgetRetries(victims)
    /\ protected' = unregisterLocked(victims, tracked')
    /\ tick' = [tick EXCEPT !.pc = "pause", !.todo = @ \ {victims}]
    /\ UNCHANGED <<storeVars, done, pending, removed, movingActive, live, inits, moves, outside>>

StallsSpent == MaxStalls > 0 /\ \E r \in tick.rows \ Having("deleted") : stalls[r] >= MaxStalls

pauseStalled ==
    /\ tick.pc = "pause"
    /\ \/ /\ StallsSpent
          /\ status' = Updated(tick.rows, Stored \ {"completed", "failed"}, "paused")
          /\ UNCHANGED calls
       \/ StallsSpent /\ Call("dbFail") /\ UNCHANGED status
       \/ ~StallsSpent /\ UNCHANGED <<status, calls>>
    /\ tick' = [tick EXCEPT !.pc = "stalls", !.rows = {}]
    /\ UNCHANGED <<stalls, done, mapVars, clientVars, inits, moves, deleting, stopping>>

StallStep ==
    \/ \E victims \in (SUBSET tracked) \ {{}} : detectStalls(victims)
    \/ \E g \in tick.todo : DemoteGroup(g) \/ NoneDemoted(g) \/ untrackStalled(g)
    \/ pauseStalled

(* ListSchedulable, then one PromoteGroup or PreemptGroup per group, each   *)
(* guarded on the status it expects: what a handler writes in between shows *)
(* as if written before or after.  The whole phase is one step.             *)
Rank(G) == [g \in G |-> CHOOSE n \in {Priority[r] : r \in g} :
                          \A r \in g : Priority[r] <= n]

applySchedule ==
    /\ tick.pc \in {"groups", "stalls"} /\ tick.todo = {}
    /\ LET downloading == Having("downloading")
           groups == GroupRows(downloading \cup Having("queued"))
           incumbents == {g \in groups : g \cap downloading # {}}
       IN  \E plan \in SUBSET groups :
             LET preempted == downloading \ UNION plan
                 promoted  == (UNION plan) \ downloading
             IN  /\ AdmissiblePlan(groups, incumbents, plan, Rank(groups))
                 /\ status' = [r \in Rows |-> IF r \in promoted THEN "downloading"
                                              ELSE IF r \in preempted THEN "queued"
                                              ELSE status[r]]
                 /\ tracked' = tracked \ preempted
                 /\ protected' = unregisterLocked(tracked \cap preempted, tracked')
                 /\ pending' = clearPending(preempted)
                 /\ retries' = forgetRetries(preempted)
    /\ \E next \in {"idle", "sweep"} : tick' = [IdleTick EXCEPT !.pc = next]
    /\ UNCHANGED <<stalls, done, removed, movingActive, live, inits, moves, outside>>

(* mutants: every listed row counts as stuck, or none *)
StuckAll(listed)  == listed
StuckNone(listed) == {}

(* sweepStuckMoving, every movingSweepTicks ticks: list the moving rows,    *)
(* then, under w.mu, keep those without a recorded dispatch and prune the   *)
(* records of rows not listed, then flip what was kept back to downloading. *)
Stuck(listed) == listed \ movingActive

sweepList ==
    /\ tick.pc = "sweep"
    /\ tick' = [IdleTick EXCEPT !.pc = "prune", !.rows = Having("moving")]
    /\ UNCHANGED <<storeVars, done, mapVars, clientVars, inits, moves, outside>>

sweepPrune ==
    /\ tick.pc = "prune"
    /\ tick' = [tick EXCEPT !.pc = "rescue", !.rows = Stuck(@)]
    /\ movingActive' = movingActive \cap tick.rows
    /\ UNCHANGED <<storeVars, done, tracked, pending, retries, removed, clientVars,
                   inits, moves, outside>>

sweepRescue ==
    /\ tick.pc = "rescue"
    /\ status' = Updated(tick.rows, Stored, "downloading")
    /\ movingActive' = movingActive \ tick.rows
    /\ protected' = protected \cup TorrentsOf(tick.rows)
    /\ tick' = IdleTick
    /\ UNCHANGED <<stalls, done, tracked, pending, retries, removed, live, inits, moves, outside>>

TickStep ==
    \/ tickUntrack \/ tickDrop
    \/ \E g \in tick.todo :
         StartInit(g) \/ AwaitInit(g) \/ adoptSiblings(g) \/ sampleGroup(g)
         \/ checkCompletion(g) \/ completeGroup(g)
    \/ StallStep \/ applySchedule
    \/ sweepList \/ sweepPrune \/ sweepRescue

-----------------------------------------------------------------------------
(* An init goroutine: initDownload for a single row, initGroup for several. *)

SetInit(i, s)  == inits' = [inits EXCEPT ![i] = s]
initTorrent(i) == groupTorrent(inits[i].members)
SingleRow(i)   == Cardinality(inits[i].members) = 1

(* EnsureActive, the metadata and the piece check went through.  A single   *)
(* row registers its protection before it looks at the worker's maps again. *)
resolve(i) ==
    /\ inits[i].pc = "resolve"
    /\ live' = live \cup {initTorrent(i)}
    /\ protected' = IF SingleRow(i) THEN protected \cup {initTorrent(i)} ELSE protected
    /\ SetInit(i, [inits[i] EXCEPT !.pc = "track", !.todo = inits[i].members])
    /\ UNCHANGED <<storeVars, done, mapVars, tick, moves, outside>>

promoteOrAbort(i) ==
    /\ inits[i].pc = "track" /\ SingleRow(i) /\ inits[i].todo # {}
    /\ LET r == CHOOSE r \in inits[i].todo : TRUE
       IN  IF pending[r] # None /\ r \notin removed
           THEN /\ tracked' = tracked \cup {r}
                /\ retries' = forgetRetries({r})
                /\ UNCHANGED protected
           ELSE /\ protected' = protected \ {initTorrent(i)}
                /\ UNCHANGED <<tracked, retries>>
    /\ SetInit(i, [inits[i] EXCEPT !.todo = {}])
    /\ UNCHANGED <<storeVars, done, pending, removed, movingActive, live, tick, moves, outside>>

(* A group tracks its members one by one, and skips those removed.  The     *)
(* pending entry is not looked at.                                          *)
trackMember(i, r) ==
    /\ inits[i].pc = "track" /\ ~SingleRow(i) /\ r \in inits[i].todo
    /\ IF r \in removed
       THEN UNCHANGED <<tracked, retries, protected>>
       ELSE /\ tracked' = tracked \cup {r}
            /\ retries' = forgetRetries({r})
            /\ protected' = protected \cup {initTorrent(i)}
    /\ SetInit(i, [inits[i] EXCEPT !.todo = @ \ {r}])
    /\ UNCHANGED <<storeVars, done, pending, removed, movingActive, live, tick, moves, outside>>

(* The torrent has no files: none of the rows is tracked.                   *)
noFiles(i) ==
    /\ inits[i].pc = "resolve" /\ ~isWhole(inits[i].members) /\ Call("noFiles")
    /\ live' = live \cup {initTorrent(i)}
    /\ SetInit(i, [inits[i] EXCEPT !.pc = "fail", !.failing = inits[i].members])
    /\ UNCHANGED <<storeVars, done, mapVars, protected, tick, moves, deleting, stopping>>

(* The magnet did not load, the metadata did not come in time, or the       *)
(* context was canceled.                                                    *)
resolveFailed(i) ==
    /\ inits[i].pc = "resolve" /\ Call("initFail")
    /\ SetInit(i, [inits[i] EXCEPT !.pc = "fail", !.todo = inits[i].members])
    /\ UNCHANGED <<storeVars, done, mapVars, clientVars, tick, moves, deleting, stopping>>

(* mutant: one failure more than the limit *)
cappedLate(r) == retries[r] + 1 > MaxInitRetries

(* The failure about to be charged is the last one allowed. *)
capped(r) == retries[r] + 1 >= MaxInitRetries

(* The failure is charged to the row; at the cap two steps follow, which    *)
(* forget the count and write the error.                                    *)
failOrRetry(i, r) ==
    /\ inits[i].pc = "fail" /\ inits[i].failing = {} /\ r \in inits[i].todo
    /\ IF pending[r] = None
       THEN /\ UNCHANGED retries
            /\ SetInit(i, [inits[i] EXCEPT !.todo = @ \ {r}])
       ELSE /\ retries' = [retries EXCEPT ![r] = @ + 1]
            /\ SetInit(i, IF capped(r)
                          THEN [inits[i] EXCEPT !.pc = "spent", !.todo = @ \ {r}, !.failing = {r}]
                          ELSE [inits[i] EXCEPT !.todo = @ \ {r}])
    /\ UNCHANGED <<storeVars, done, tracked, pending, removed, movingActive, clientVars,
                   tick, moves, outside>>

deleteRetries(i) ==
    /\ inits[i].pc = "spent"
    /\ retries' = forgetRetries(inits[i].failing)
    /\ SetInit(i, [inits[i] EXCEPT !.pc = "fail"])
    /\ UNCHANGED <<storeVars, done, tracked, pending, removed, movingActive, clientVars,
                   tick, moves, outside>>

SetError(i, r) ==
    /\ inits[i].pc = "fail" /\ r \in inits[i].failing
    /\ status' = Updated({r}, Stored, "failed")
    /\ SetInit(i, [inits[i] EXCEPT !.failing = @ \ {r}])
    /\ UNCHANGED <<stalls, done, mapVars, clientVars, tick, moves, outside>>

(* The deferred cleanup: pending entries and tombstones of every member. *)
initExit(i) ==
    /\ inits[i].pc \in {"track", "fail"}
    /\ inits[i].todo = {} /\ inits[i].failing = {}
    /\ pending' = clearPending(inits[i].members)
    /\ removed' = removed \ inits[i].members
    /\ SetInit(i, FreeInit)
    /\ UNCHANGED <<storeVars, done, tracked, retries, movingActive, clientVars, tick, moves, outside>>

InitStep(i) ==
    \/ resolve(i) \/ promoteOrAbort(i) \/ noFiles(i) \/ resolveFailed(i)
    \/ deleteRetries(i) \/ initExit(i)
    \/ \E r \in inits[i].failing : SetError(i, r)
    \/ \E r \in inits[i].todo : trackMember(i, r) \/ failOrRetry(i, r)

-----------------------------------------------------------------------------
(* A move goroutine: runCompletionMove for one row, runGroupCompletionMove  *)
(* for several.  What it does to the files is left out here.                *)

SetMove(j, s)  == moves' = [moves EXCEPT ![j] = s]
moveTorrent(j) == groupTorrent(moves[j].members)

(* mutant: the record stays *)
clearMovingStateNot(j) == movingActive

(* Only a dispatch of a single row was recorded. *)
clearMovingState(j) == IF moves[j].group THEN movingActive ELSE movingActive \ moves[j].members

(* The files are in place.  Finalising a single row drops the protection of *)
(* its torrent's name without asking who else needs it.                     *)
attemptCompletionMove(j) ==
    /\ moves[j].pc = "move"
    /\ protected' = IF moves[j].group THEN protected ELSE protected \ {moveTorrent(j)}
    /\ SetMove(j, [moves[j] EXCEPT !.pc = "store"])
    /\ UNCHANGED <<storeVars, done, mapVars, live, tick, inits, outside>>

(* SetStatus for a single row, whatever it is by now; CompleteGroup only    *)
(* for rows still moving, and then the protection goes.                     *)
storeCompleted(j) ==
    /\ moves[j].pc = "store"
    /\ status' = Updated(moves[j].members,
                         IF moves[j].group THEN {"moving"} ELSE Stored, "completed")
    /\ protected' = IF moves[j].group THEN protected \ {moveTorrent(j)} ELSE protected
    /\ SetMove(j, [moves[j] EXCEPT !.pc = "reseed"])
    /\ UNCHANGED <<stalls, done, mapVars, live, tick, inits, outside>>

(* The database refuses the write.  That is logged, and the move goes on.   *)
storeFailed(j) ==
    /\ moves[j].pc = "store" /\ Call("dbFail")
    /\ protected' = IF moves[j].group THEN protected \ {moveTorrent(j)} ELSE protected
    /\ SetMove(j, [moves[j] EXCEPT !.pc = "reseed"])
    /\ UNCHANGED <<storeVars, done, mapVars, live, tick, inits, deleting, stopping>>

(* reseedAfterCompletion of a public torrent, then the deferred             *)
(* clearMovingState of a single row.                                        *)
reseedAfterCompletion(j) ==
    /\ moves[j].pc = "reseed"
    /\ dropTorrents({moveTorrent(j)})
    /\ movingActive' = clearMovingState(j)
    /\ SetMove(j, FreeMove)
    /\ UNCHANGED <<storeVars, done, tracked, pending, retries, removed, protected, tick, inits, outside>>

(* The end of a move that failed: protection and dispatch record go.        *)
abandon(j) ==
    /\ protected' = IF moves[j].group THEN protected
                    ELSE unregisterLocked(moves[j].members, tracked)
    /\ movingActive' = clearMovingState(j)
    /\ SetMove(j, FreeMove)
    /\ UNCHANGED <<stalls, done, tracked, pending, retries, removed, live, tick, inits,
                   deleting, stopping>>

(* The error goes into the row, whatever it is by now. *)
recordFailure(j) == abandon(j) /\ status' = Updated(moves[j].members, Stored, "failed")

attemptFailed(j) ==
    /\ moves[j].pc = "move" /\ moves[j].tries + 1 < MoveMaxAttempts
    /\ Call("moveFail")
    /\ SetMove(j, [moves[j] EXCEPT !.pc = "backoff", !.tries = @ + 1])
    /\ UNCHANGED <<storeVars, done, mapVars, clientVars, tick, inits, deleting, stopping>>

retryMove(j) ==
    /\ moves[j].pc = "backoff"
    /\ SetMove(j, [moves[j] EXCEPT !.pc = "move"])
    /\ UNCHANGED <<storeVars, done, mapVars, clientVars, tick, inits, outside>>

(* The last attempt failed, or the transfer was canceled in the dock. *)
giveUp(j) ==
    /\ moves[j].pc = "move"
    /\ \/ Call("moveFail") /\ recordFailure(j)
       \/ Call("dbFail") /\ abandon(j) /\ UNCHANGED status

(* Stop was called while an attempt waits to be repeated.  The group        *)
(* variant leaves its rows moving; the single-row variant returns the error *)
(* of the last attempt to a caller that records a failure.                  *)
abortOnStop(j) ==
    /\ moves[j].pc = "backoff" /\ stopping
    /\ \/ /\ ~moves[j].group
          /\ recordFailure(j) /\ UNCHANGED calls
       \/ /\ moves[j].group
          /\ SetMove(j, FreeMove)
          /\ UNCHANGED <<storeVars, done, mapVars, clientVars, tick, inits, outside>>

MoveStep(j) ==
    attemptCompletionMove(j) \/ storeCompleted(j) \/ storeFailed(j) \/ reseedAfterCompletion(j)
    \/ attemptFailed(j) \/ retryMove(j) \/ giveUp(j) \/ abortOnStop(j)

-----------------------------------------------------------------------------
(* The outside: the HTTP handlers, the client, Stop and a new process. *)

Write(r, from, to) ==
    /\ status[r] \in from
    /\ status' = [status EXCEPT ![r] = to]
    /\ UNCHANGED <<stalls, done, mapVars, clientVars, tick, inits, moves, deleting, stopping>>

Pause(r)       == Call("pause") /\ Write(r, {"queued", "downloading", "moving"}, "paused")
(* mutant: resume starts the download at once, past the queue *)
RequeueNow(r)  == Call("resume") /\ Write(r, {"moving", "paused", "failed"}, "downloading")
Requeue(r)     == Call("resume") /\ Write(r, {"moving", "paused", "failed"}, "queued")
RequeueByID(r) == Call("batchResume") /\ Write(r, {"moving", "paused", "failed", "completed"}, "queued")

(* DownloadsRecheck: the hash check may find bad pieces; then back to the   *)
(* queue whatever the row was.                                              *)
Recheck(r) ==
    /\ Call("recheck")
    /\ status[r] \in Stored
    /\ done' \in {done, done \ {r}}
    /\ live' = live \cup {TorrentOf[r]}
    /\ status' = [status EXCEPT ![r] = "queued"]
    /\ UNCHANGED <<stalls, mapVars, protected, tick, inits, moves, deleting, stopping>>

(* DownloadsDelete: the row first, Worker.Remove after it. *)
DeleteScoped(r) ==
    /\ Call("delete")
    /\ status[r] \in Stored
    /\ status' = [status EXCEPT ![r] = "deleted"]
    /\ deleting' = deleting \cup {r}
    /\ UNCHANGED <<stalls, done, mapVars, clientVars, tick, inits, moves, stopping>>

siblingKeepsTorrent(r) ==
    Named(TorrentOf[r], tracked \ {r}) # {} \/ Pending(Named(TorrentOf[r], Rows \ {r})) # {}

Remove(r) ==
    /\ r \in deleting
    /\ removed' = removed \cup {r}
    /\ pending' = clearPending({r})
    /\ tracked' = tracked \ {r}
    /\ retries' = forgetRetries({r})
    /\ protected' = unregisterLocked({r} \cap tracked, tracked')
    /\ \/ siblingKeepsTorrent(r) /\ UNCHANGED live
       \/ /\ ~siblingKeepsTorrent(r)
          /\ \E refused \in SUBSET {TorrentOf[r]} :
               live' = live \ ({TorrentOf[r]} \ (protected' \cup refused))
    /\ deleting' = deleting \ {r}
    /\ UNCHANGED <<storeVars, done, movingActive, tick, inits, moves, stopping, calls>>

(* The client fetches the last piece of a tracked row. *)
Fetch(r) ==
    /\ r \in tracked \ done /\ TorrentOf[r] \in live
    /\ done' = done \cup {r}
    /\ UNCHANGED <<storeVars, mapVars, clientVars, tick, inits, moves, outside>>

(* The idle reaper. *)
Evict(t) ==
    /\ Call("evict")
    /\ t \in live \ protected
    /\ live' = live \ {t}
    /\ UNCHANGED <<storeVars, done, mapVars, protected, tick, inits, moves, deleting, stopping>>

Stop ==
    /\ ~stopping /\ Call("stop")
    /\ stopping' = TRUE
    /\ UNCHANGED <<storeVars, done, mapVars, clientVars, tick, inits, moves, deleting>>

(* The process ends, cleanly or not, and a new one starts: NewWorker puts   *)
(* interrupted moves back to downloading, queues completed rows whose file  *)
(* is missing while the cache still has it, and protects every row that may *)
(* still need its torrent.                                                  *)
Restart ==
    /\ Call("restart")
    /\ \E orphans \in SUBSET Having("completed"), named \in SUBSET Rows :
         /\ status' = [r \in Rows |-> IF status[r] = "moving" THEN "downloading"
                                      ELSE IF r \in orphans THEN "queued" ELSE status[r]]
         /\ protected' = TorrentsOf(Having("moving") \cup orphans
                           \cup (named \ (Having("failed") \cup Having("completed") \cup Having("deleted"))))
    /\ tracked' = {} /\ removed' = {} /\ movingActive' = {}
    /\ pending' = [r \in Rows |-> None]
    /\ retries' = [r \in Rows |-> 0]
    /\ live' = {}
    /\ tick' = IdleTick
    /\ inits' = [i \in InitIds |-> FreeInit]
    /\ moves' = [j \in MoveIds |-> FreeMove]
    /\ deleting' = {} /\ stopping' = FALSE
    /\ UNCHANGED <<stalls, done>>

Outside ==
    \/ \E r \in Rows : Pause(r) \/ Requeue(r) \/ RequeueByID(r) \/ Recheck(r)
                       \/ DeleteScoped(r) \/ Remove(r) \/ Fetch(r)
    \/ \E t \in Torrents : Evict(t)
    \/ Stop \/ Restart

Next ==
    \/ TickStep
    \/ \E i \in InitIds : InitStep(i)
    \/ \E j \in MoveIds : MoveStep(j)
    \/ Outside

Spec == Init /\ [][Next]_vars

(* The tick loop and every goroutine keep running, an init ends within 90   *)
(* seconds, a delete handler reaches Remove, and every so many ticks one    *)
(* ends with a sweep.                                                       *)
Fairness ==
    /\ WF_vars(TickStep)
    /\ SF_vars(applySchedule /\ tick'.pc = "sweep")
    /\ \A i \in InitIds : WF_vars(InitStep(i))
    /\ \A j \in MoveIds : WF_vars(MoveStep(j))
    /\ \A r \in Rows : WF_vars(Remove(r))

FairSpec == Spec /\ Fairness

-----------------------------------------------------------------------------
InitRecs == [pc : InitPcs, members : SUBSET Rows, todo : SUBSET Rows, failing : SUBSET Rows]
MoveRecs == [pc : MovePcs, members : SUBSET Rows, group : BOOLEAN, tries : Nat]
TickRecs == [pc : TickPcs, todo : SUBSET SUBSET Rows,
             drops : SUBSET Torrents, rows : SUBSET Rows]

Types ==
    /\ status \in [Rows -> Statuses]
    /\ stalls \in [Rows -> Nat]
    /\ retries \in [Rows -> Nat]
    /\ done \subseteq Rows /\ tracked \subseteq Rows /\ removed \subseteq Rows
    /\ movingActive \subseteq Rows /\ deleting \subseteq Rows
    /\ pending \in [Rows -> InitIds \cup {None}]
    /\ live \subseteq Torrents /\ protected \subseteq Torrents
    /\ tick \in TickRecs
    /\ inits \in [InitIds -> InitRecs]
    /\ moves \in [MoveIds -> MoveRecs]
    /\ stopping \in BOOLEAN
    /\ calls \in 0 .. MaxCalls

(* A count reaches the limit only for as long as an init that is about to   *)
(* fail the row has yet to forget it; otherwise the row, once resumed, would *)
(* fail at its first attempt.                                               *)
CountsSpent == \A r \in Rows : retries[r] >= MaxInitRetries =>
    \E i \in InitIds : inits[i].pc = "spent" /\ r \in inits[i].failing

TypeOK == Types /\ CountsSpent

(* A pending entry is kept alive by the goroutine that will clear it.  The  *)
(* tick waits for as long as the entry exists, so a leaked one would leave  *)
(* the group downloading nothing for ever.                                  *)
PendingHasInit ==
    \A r \in Rows : pending[r] # None =>
        inits[pending[r]].pc # "free" /\ r \in inits[pending[r]].members

(* A recorded dispatch is owned by a running single-row move, which clears  *)
(* it.  The sweep skips rows with a record, so a leaked one would hide a    *)
(* wedged row from it for ever.                                             *)
DispatchHasMove ==
    \A r \in movingActive : \E j \in MoveIds :
        moves[j].pc # "free" /\ ~moves[j].group /\ moves[j].members = {r}

Owns(j, r) == moves[j].pc \in {"move", "backoff", "store"} /\ r \in moves[j].members

(* A moving row has a goroutine that will take it out of that state, until  *)
(* Stop: ListActive does not return it, so no tick would ever look at it.   *)
(* A write that the database refuses is what the sweep is there for.        *)
MovingOwned == \A r \in Rows :
    status[r] = "moving" => \/ \E j \in MoveIds : Owns(j, r)
                            \/ stopping
                            \/ "dbFail" \in Calls

(* A row is moved, and called completed, only with all its bytes on disk    *)
(* (a recheck may find later that they are not).                            *)
FinishedIsWhole == \A r \in Rows :
    status[r] \in {"moving", "completed"} => r \in done \/ "recheck" \in Calls

(* The limit on concurrent downloads is exceeded only by a rescue, at boot  *)
(* or by the sweep; whatever handlers and goroutines write, only a schedule *)
(* starts a download.                                                       *)
ActiveGroups == Cardinality(GroupRows(Having("downloading")))

SlotsHeld == [][ActiveGroups' <= MaxActive \/ ActiveGroups' <= ActiveGroups
                \/ sweepRescue \/ Restart]_vars

BeingMoved(r) == \E j \in MoveIds : moves[j].pc # "free" /\ r \in moves[j].members

(* A handler puts a row back to the queue while its files are being moved. *)
PutBackMoving ==
    \E r \in Rows : BeingMoved(r) /\ (Requeue(r) \/ RequeueByID(r) \/ Recheck(r))

(* The files of a row are moved by one goroutine at a time. *)
OneMovePerRow == \A i, j \in MoveIds :
    i # j /\ moves[i].pc # "free" => moves[i].members \cap moves[j].members = {}

(* Eviction protection covers every tracked row. *)
TrackedProtected == TorrentsOf(tracked) \subseteq protected

(* A shutdown leaves a move in retry to the boot rescue. *)
ShutdownKeepsMoving == [][\A j \in MoveIds : abortOnStop(j) => UNCHANGED status]_vars

(* A downloading row is taken up: it gets tracked on an open torrent, or it *)
(* is given up.  The exception is a row with an init that lost its pending  *)
(* entry and still runs: the cleanup at its end removes the entry of its    *)
(* successor, which then aborts, and the two may do this to each other for  *)
(* ever.                                                                    *)
Overtaken(r) == \E i \in InitIds :
    inits[i].pc # "free" /\ r \in inits[i].members /\ pending[r] # i

DownloadsTakenUp == \A r \in Rows :
    status[r] = "downloading" ~> \/ r \in tracked /\ TorrentOf[r] \in live
                                 \/ status[r] # "downloading"
                                 \/ Overtaken(r)

(* No row is wedged in `moving'. *)
MovesEnd == \A r \in Rows : status[r] = "moving" ~> status[r] # "moving"

(* A paused row is let go of. *)
PauseTakesEffect == \A r \in Rows :
    status[r] = "paused" ~> (r \notin tracked /\ pending[r] = None) \/ status[r] # "paused"

(* A deleted row is forgotten for good. *)
DeletedForgotten == \A r \in Rows :
    status[r] = "deleted" ~> [](r \notin tracked /\ pending[r] = None)
=============================================================================
