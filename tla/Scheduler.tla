----------------------------- MODULE Scheduler -----------------------------
(***************************************************************************)
(* schedulePlan (internal/downloads/scheduler.go): which torrents hold the *)
(* download slots.  SlotPlan states what any plan must satisfy; here is    *)
(* the algorithm, run over and over on a queue that rows enter, leave, and *)
(* age in.  PlanAdmissible is what DownloadWorker relies on, and more.      *)
(***************************************************************************)
EXTENDS SlotPlan, Sequences, SequencesExt

CONSTANTS
    IdOf,        \* the id of a row
    Ranks,       \* the priorities a new row may have, out of 1..3 (priorityBase)
    AgingCap,    \* SchedSettings.AgingCap, the bonus of a row that waited long
    MaxStalls,   \* bound on the stalls of a row
    MayStall,    \* bound: the rows whose torrent may run out of seeders
    MaxRescues   \* bound on the rescues of interrupted moves

ASSUME IdsAreDistinct ==
    (\A r \in Rows : IdOf[r] \in Nat) /\ (\A r, s \in Rows : IdOf[r] = IdOf[s] => r = s)
ASSUME QueueNumbers   ==
    Ranks \subseteq 1 .. 3 /\ AgingCap \in Nat /\ MaxStalls \in Nat /\ MaxRescues \in Nat

VARIABLES
    status,    \* "absent" (not enqueued, moving, finished or deleted), "queued", "downloading"
    priority,  \* priorityBase of the priority column
    stalls,    \* the stalls column
    older,     \* <<r, s>>: r is before s by queued_since, then id
    aged,      \* queued rows that waited until their bonus reached AgingCap
    rescues

vars == <<status, priority, stalls, older, aged, rescues>>

Having(s)   == {r \in Rows : status[r] = s}
Schedulable == Having("queued") \cup Having("downloading")

waitsLonger(r, s) == <<r, s>> \in older
agingBonus(r)  == IF r \in aged THEN AgingCap ELSE 0
Score(r)       == priority[r] * 1000 + agingBonus(r)

(* mutant: the younger row first *)
promotionYoungest(a, b) ==
    Score(a) > Score(b) \/ (Score(a) = Score(b) /\ waitsLonger(b, a))

promotionLess(a, b) ==
    \/ Score(a) > Score(b)
    \/ Score(a) = Score(b) /\ stalls[a] < stalls[b]
    \/ Score(a) = Score(b) /\ stalls[a] = stalls[b] /\ waitsLonger(a, b)

groupMemberStronger(a, b) ==
    priority[a] > priority[b] \/ (priority[a] = priority[b] /\ promotionLess(a, b))

representative(g) == CHOOSE a \in g : \A b \in g \ {a} : groupMemberStronger(a, b)
rankOf(g)         == priority[representative(g)]

groupHasDownloading(g) == g \cap Having("downloading") # {}
Incumbents == {g \in GroupRows(Schedulable) : groupHasDownloading(g)}
Waiting    == GroupRows(Schedulable) \ Incumbents

Sorted(S, before(_, _)) ==
    [i \in 1 .. Cardinality(S) |->
        CHOOSE g \in S : Cardinality({h \in S : before(h, g)}) = i - 1]

(* The rows come from the table in any order, and the sort by rank is stable: *)
(* incumbents of one rank may be considered in any order.                     *)
IncumbentOrders ==
    {order \in Bijection(1 .. Cardinality(Incumbents), Incumbents) :
        \A i, j \in DOMAIN order : i < j => rankOf(order[i]) >= rankOf(order[j])}

WaitingOrder == Sorted(Waiting, LAMBDA g, h :
    promotionLess(representative(g), representative(h)))

-----------------------------------------------------------------------------
(* slotFiller.active is a sequence: among equally weak incumbents the first *)
(* is preempted.                                                            *)
take(active, g) == IF CanTake(g, ToSet(active)) THEN Append(active, g) ELSE active

(* mutant: an equally strong group is enough to take the slot *)
weakestOrEqual(active, g) ==
    LET inc    == {i \in DOMAIN active : groupHasDownloading(active[i])}
        beaten == {i \in inc : rankOf(g) >= rankOf(active[i])}
    IN  IF beaten = {} THEN 0 ELSE CHOOSE i \in beaten : TRUE

(* The first of the weakest incumbents, if it is strictly weaker; else 0. *)
weakestPreemptable(active, g) ==
    LET inc     == {i \in DOMAIN active : groupHasDownloading(active[i])}
        weakest == {i \in inc : \A j \in inc :
                       \/ rankOf(active[i]) < rankOf(active[j])
                       \/ rankOf(active[i]) = rankOf(active[j]) /\ i <= j}
        beaten  == {i \in weakest : rankOf(g) > rankOf(active[i])}
    IN  IF beaten = {} THEN 0 ELSE CHOOSE i \in beaten : TRUE

tryPreempt(active, g) ==
    LET i == weakestPreemptable(active, g)
    IN  IF ~underPerUser(groupUser(g), ToSet(active)) \/ i = 0 THEN active
        ELSE [active EXCEPT ![i] = g]

admit(active, g) ==
    IF CanTake(g, ToSet(active)) THEN Append(active, g) ELSE tryPreempt(active, g)

consider(active, g) == IF groupHasDownloading(g) THEN take(active, g) ELSE admit(active, g)

(* What `active' may be after the groups of `order' were considered in turn. *)
fill(order) ==
    LET filled[n \in 0 .. Len(order)] ==
            IF n = 0 THEN {<<>>}
            ELSE {consider(active, order[n]) : active \in filled[n - 1]}
    IN  filled[Len(order)]

(* What schedulePlan may return. *)
Turns         == LET waiting == WaitingOrder IN {order \o waiting : order \in IncumbentOrders}
schedulePlans == {ToSet(active) : active \in UNION {fill(order) : order \in Turns}}

-----------------------------------------------------------------------------
Init ==
    /\ status = [r \in Rows |-> "absent"]
    /\ priority \in [Rows -> Ranks]
    /\ stalls = [r \in Rows |-> 0]
    /\ older = {} /\ aged = {} /\ rescues = 0

(* mutant: the old place in the line is kept *)
ToEndTwice(S) == older \cup (Schedulable \X S)

Without(S) == older \cap ((Rows \ S) \X (Rows \ S))
ById(S)    == {p \in S \X S : IdOf[p[1]] < IdOf[p[2]]}

(* queued_since is set to now for the rows of S: they go to the end. *)
ToEnd(S) == Without(S) \cup ((Schedulable \ S) \X S) \cup ById(S)

(* A new row is enqueued, or a row resumed with the stalls it had. *)
Enqueue(r) ==
    /\ status[r] = "absent"
    /\ status' = [status EXCEPT ![r] = "queued"]
    /\ \E p \in Ranks : priority' = [priority EXCEPT ![r] = p]
    /\ older' = ToEnd({r})
    /\ UNCHANGED <<stalls, aged, rescues>>

(* Moves that were interrupted: the rows download again, at boot or in the    *)
(* tick's sweep, and no schedule was asked.  A limit that is lowered while    *)
(* the worker runs leaves the same: more groups download than may.  (What     *)
(* place in the line a downloading row has decides nothing.)                  *)
Rescue(S) ==
    /\ rescues < MaxRescues /\ rescues' = rescues + 1
    /\ \A r \in S : status[r] = "absent"
    /\ status' = [r \in Rows |-> IF r \in S THEN "downloading" ELSE status[r]]
    /\ older' = ToEnd(S)
    /\ UNCHANGED <<priority, stalls, aged>>

(* It completes, fails, or is paused or deleted. *)
Leave(r) ==
    /\ r \in Schedulable
    /\ status' = [status EXCEPT ![r] = "absent"]
    /\ older' = Without({r})
    /\ aged' = aged \ {r}
    /\ UNCHANGED <<priority, stalls, rescues>>

Age(r) ==
    /\ status[r] = "queued" /\ r \notin aged
    /\ aged' = aged \cup {r}
    /\ UNCHANGED <<status, priority, stalls, older, rescues>>

SetPriority(r) ==
    /\ r \in Schedulable
    /\ \E p \in Ranks : p # priority[r] /\ priority' = [priority EXCEPT ![r] = p]
    /\ UNCHANGED <<status, stalls, older, aged, rescues>>

(* DemoteGroup: the downloading rows of a torrent without seeders. *)
Demote(g) ==
    LET demoted == g \cap Having("downloading")
    IN  /\ demoted # {} /\ \A r \in demoted : r \in MayStall /\ stalls[r] < MaxStalls
        /\ status' = [r \in Rows |-> IF r \in demoted THEN "queued" ELSE status[r]]
        /\ stalls' = [r \in Rows |-> IF r \in demoted THEN stalls[r] + 1 ELSE stalls[r]]
        /\ older' = ToEnd(demoted)
        /\ UNCHANGED <<priority, aged, rescues>>

(* applySchedule: PromoteGroup for the queued rows of a group in the plan,  *)
(* PreemptGroup for the downloading rows of the others.  The group with the *)
(* lowest id is written first; all within one second.  The bonus of a row   *)
(* that is downloading decides nothing, and is forgotten.                   *)
Preempted(plan) == Having("downloading") \ UNION plan

applySchedule ==
    /\ UNCHANGED <<priority, stalls, rescues>>
    /\ \E plan \in schedulePlans :
        /\ status' = [r \in Rows |-> IF r \in UNION plan THEN "downloading"
                                     ELSE IF r \in Preempted(plan) THEN "queued" ELSE status[r]]
        /\ older' = ToEnd(Preempted(plan))
        /\ aged' = aged \ UNION plan

Next ==
    \/ \E r \in Rows : Enqueue(r) \/ Leave(r) \/ Age(r) \/ SetPriority(r)
    \/ \E S \in SUBSET Rows \ {{}} : Rescue(S)
    \/ \E g \in Incumbents : Demote(g)
    \/ applySchedule

Spec == Init /\ [][Next]_vars

(* The worker ticks, rows that wait age, and downloads end at last. *)
QueueFairness ==
    /\ WF_vars(applySchedule)
    /\ \A r \in Rows : WF_vars(Age(r)) /\ WF_vars(status[r] = "downloading" /\ Leave(r))

FairSpec == Spec /\ QueueFairness

-----------------------------------------------------------------------------
TypeOK ==
    /\ status \in [Rows -> {"absent", "queued", "downloading"}]
    /\ priority \in [Rows -> Ranks]
    /\ stalls \in [Rows -> 0 .. MaxStalls] /\ rescues \in 0 .. MaxRescues
    /\ aged \subseteq Having("queued")
    /\ older \subseteq Schedulable \X Schedulable
    /\ \A r, s \in Schedulable : waitsLonger(r, s) => ~waitsLonger(s, r)
    /\ \A r, s \in Schedulable : r # s => waitsLonger(r, s) \/ waitsLonger(s, r)
    /\ \A r, s, t \in Schedulable : waitsLonger(r, s) /\ waitsLonger(s, t) => waitsLonger(r, t)

(* The groups that wait are served in the order of promotion: one behind is *)
(* served first only if it has the higher priority (an aged group may be    *)
(* before it all the same, and not be able to preempt) or if the user of    *)
(* the one passed over had all slots of a user when its turn came.          *)
ServedInOrder(plan) == \A g \in Waiting \ plan, h \in Waiting \cap plan :
    promotionLess(representative(g), representative(h)) =>
        \/ rankOf(h) > rankOf(g)
        \/ ~underPerUser(groupUser(g), plan \cup Incumbents)

(* Every schedule is one that SlotPlan admits, however many groups download *)
(* when it is made: within the limits, with no slot left free that some     *)
(* group could take, and taking a slot away only for the sake of a strictly *)
(* higher priority, or of equals that are as many as the slots.  Who waits  *)
(* is served in order.                                                      *)
PlanAdmissible ==
    LET groups     == GroupRows(Schedulable)
        incumbents == Incumbents
        rank       == [g \in groups |-> rankOf(g)]
    IN  \A plan \in schedulePlans :
            /\ AdmissiblePlan(groups, incumbents, plan, rank)
            /\ ServedInOrder(plan)

(* Preemption ignores aging, so groups do not take a slot from each other   *)
(* in turn: of what a schedule leaves downloading, the next one takes a     *)
(* slot away only for the sake of a strictly higher priority, and even that *)
(* only if a limit of users, or a bonus worth more than a priority, held it *)
(* back.  (A schedule is what moves rows between the two statuses and       *)
(* counts no stall.)                                                        *)
NoThrash == [][
    /\ Schedulable' = Schedulable /\ stalls' = stalls
    /\ Having("downloading")' # Having("downloading")
    => \A plan \in schedulePlans' : \A g \in Incumbents' \ plan :
        /\ \E w \in plan \ Incumbents' : rankOf(w)' > rankOf(g)'
        /\ PerUserMax > 0 \/ AgingCap >= 1000]_vars

(* A queued row that has not stalled does not wait for ever.  (One that has *)
(* yields to those that have not.)                                          *)
NotStarved == \A r \in Rows :
    []<>(status[r] # "queued" \/ stalls[r] > 0)
=============================================================================
