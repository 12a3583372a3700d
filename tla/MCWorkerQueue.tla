--------------------------- MODULE MCWorkerQueue ----------------------------
(***************************************************************************)
(* Two instances of the worker in one run: two rows that share a slot, one *)
(* move at a time and one call that pauses or resumes; or one row, and up  *)
(* to MaxCalls calls of any kind, the other row being deleted from the     *)
(* start.  In both, no handler puts a row back to the queue while it is    *)
(* being moved: that, and what the first instance leaves out, is the       *)
(* action constraint of the run.                                           *)
(***************************************************************************)
EXTENDS MCDownloadWorker

TwoRowsInit == status = [r \in Rows |-> "queued"] /\ Begun /\ calls = MaxCalls - 1

\* The one row is the one that is not a whole torrent.
OneRowInit == status = [r \in Rows |-> IF r = r2 THEN "queued" ELSE "deleted"] /\ Begun /\ calls = 0

QueueSpec == (TwoRowsInit \/ OneRowInit) /\ [][Next]_vars

TwoRowsAtWork == status[r1] # "deleted"

\* Of the calls, one that writes the status of a row and nothing else.
OneWrite == calls' # calls =>
    /\ status' # status /\ deleting' = deleting
    /\ UNCHANGED <<stalls, mapVars, tick, inits, moves, stopping>>

OneMoveRuns == \E j \in MoveIds : moves'[j].pc = "free"

QueueBound == (TwoRowsAtWork => OneWrite /\ OneMoveRuns) /\ ~PutBackMoving
=============================================================================
