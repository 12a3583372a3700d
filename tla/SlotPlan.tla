------------------------------ MODULE SlotPlan ------------------------------
(***************************************************************************)
(* What a schedule of the download queue may look like: which groups of    *)
(* rows hold the slots, given the rows that are downloading and those that *)
(* are queued.  schedulePlan (internal/downloads/scheduler.go) computes    *)
(* one; Scheduler.tla shows that it is always one of these, and            *)
(* DownloadWorker.tla lets the worker apply any of them.                   *)
(***************************************************************************)
EXTENDS Integers, FiniteSets

CONSTANTS
    Rows,         \* download rows, by id
    UserOf,       \* the owner of a row
    TorrentOf,    \* the info hash (and so the torrent name) of a row
    MaxActive,    \* the global number of slots
    PerUserMax    \* slots of one user, 0 for no limit

ASSUME RowsAssumption == IsFiniteSet(Rows)
ASSUME LimitsOfSlots  == MaxActive \in Nat \ {0} /\ PerUserMax \in Nat

(* The rows of one torrent of one user are one group and take one slot. *)
grpKey(r)    == <<UserOf[r], TorrentOf[r]>>
Siblings(r)  == {s \in Rows : grpKey(s) = grpKey(r)}
GroupRows(S) == {Siblings(r) \cap S : r \in S}

groupUser(g)    == UserOf[CHOOSE r \in g : TRUE]
groupTorrent(g) == TorrentOf[CHOOSE r \in g : TRUE]

OfUser(u, G) == {g \in G : groupUser(g) = u}

hasGlobalRoom(G)    == Cardinality(G) < MaxActive
underPerUser(u, G)  == PerUserMax = 0 \/ Cardinality(OfUser(u, G)) < PerUserMax

(* mutant: one user may take every slot *)
CanTakeGlobal(g, G) == hasGlobalRoom(G)

CanTake(g, G)       == hasGlobalRoom(G) /\ underPerUser(groupUser(g), G)

(* The slots are not oversubscribed, globally or by one user. *)
WithinLimits(plan) ==
    /\ Cardinality(plan) <= MaxActive
    /\ \A g \in plan : PerUserMax = 0 \/ Cardinality(OfUser(groupUser(g), plan)) <= PerUserMax

(* No slot is left free that a schedulable group could take. *)
WorkConserving(groups, plan) == \A g \in groups \ plan : ~CanTake(g, plan)

(* An incumbent loses its slot to a strictly stronger newcomer, or because  *)
(* there are as many equally strong incumbents as slots (more rows were     *)
(* downloading than the limits allow).                                      *)
IncumbentsYieldOnlyToStronger(groups, incumbents, plan, rank) ==
    \A g \in incumbents \ plan :
        \/ \E w \in plan \ incumbents : rank[w] > rank[g]
        \/ LET rivals == {h \in incumbents \ {g} : rank[h] >= rank[g]}
           IN  ~CanTake(g, rivals)

AdmissiblePlan(groups, incumbents, plan, rank) ==
    /\ plan \subseteq groups
    /\ WithinLimits(plan)
    /\ WorkConserving(groups, plan)
    /\ IncumbentsYieldOnlyToStronger(groups, incumbents, plan, rank)
=============================================================================
