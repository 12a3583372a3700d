---------------------------- MODULE MCDownloads ----------------------------
(***************************************************************************)
(* The queue with rows of equal priority that stall, the rotation of a     *)
(* stalled torrent's sources, and the transfer dock.  The queue and the    *)
(* rotation meet in the rows' statuses, which each module states for its   *)
(* own question, and neither waits for the dock; so one run checks them    *)
(* side by side: a behaviour is one of a single component, named by        *)
(* `focus', while the others stay in their initial state.                  *)
(***************************************************************************)
EXTENDS Scheduler, SourceRotation, TransferDock

CONSTANTS r1, r2, r3, t1, t2, t3, u1

\* Every row a torrent of its own, all of one user.
MCRows     == {r1, r2, r3}
MCIds      == [r \in MCRows |-> CASE r = r1 -> 1 [] r = r2 -> 2 [] r = r3 -> 3]
MCUsers    == [r \in MCRows |-> u1]
MCTorrents == [r \in MCRows |-> CASE r = r1 -> t1 [] r = r2 -> t2 [] r = r3 -> t3]

VARIABLE focus

On(part) == focus = part /\ UNCHANGED focus

DownloadsInit ==
    /\ focus \in {"queue", "rotation", "dock"}
    /\ Init /\ RotationInit /\ DockInit
    /\ rowStatus = [r \in Members |-> IF focus = "rotation" THEN "queued" ELSE "paused"]
    /\ stallCount = [r \in Members |-> IF r = r2 THEN 1 ELSE 0]

DownloadsNext ==
    \/ On("queue")    /\ Next         /\ UNCHANGED <<rotationVars, dockVars>>
    \/ On("rotation") /\ RotationNext /\ UNCHANGED <<vars, dockVars>>
    \/ On("dock")     /\ DockNext     /\ UNCHANGED <<vars, rotationVars>>

(* A torrent whose rows are paused asks nothing of the rotation, and no fair *)
(* action of the others can be taken in their initial states: fairness asks  *)
(* nothing of a component at rest.                                           *)
DownloadsSpec ==
    /\ DownloadsInit /\ [][DownloadsNext]_<<focus, vars, rotationVars, dockVars>>
    /\ QueueFairness /\ RotationFairness

TypesOK == TypeOK /\ RotationTypeOK /\ DockTypeOK
=============================================================================
