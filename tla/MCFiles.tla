------------------------------ MODULE MCFiles -------------------------------
(***************************************************************************)
(* The verification of on-disk pieces, the cache of slow mounts and the    *)
(* registry of open local files.  They have no common state and do not     *)
(* call each other, so one run checks them side by side: a behaviour is    *)
(* one of a single component, named by `focus', while the others stay in   *)
(* their initial state.                                                    *)
(***************************************************************************)
EXTENDS PieceVerify, LocalCache, LocalStream, TLC

CONSTANTS c1, c2, c3

\* Three goroutines, a cap of one (asked for as 0) or two hash passes.
MCCallers == {c1, c2, c3}
MCLimits  == {0, 2}

VARIABLE focus

On(part) == focus = part /\ UNCHANGED focus

FilesInit ==
    /\ focus \in {"pieces", "cache", "streams"}
    /\ Init /\ CacheInit /\ StreamInit
    /\ focus # "pieces" => limit = 1

FilesNext ==
    \/ On("pieces")  /\ Next       /\ UNCHANGED <<cacheVars, streamVars>>
    \/ On("cache")   /\ CacheNext  /\ UNCHANGED <<vars, streamVars>>
    \/ On("streams") /\ StreamNext /\ UNCHANGED <<vars, cacheVars>>

(* No fair action can be taken in the initial state of a component, so       *)
(* fairness asks nothing of the cache at rest.                              *)
FilesSpec ==
    /\ FilesInit /\ [][FilesNext]_<<focus, vars, cacheVars, streamVars>>
    /\ CacheFairness

TypesOK == TypeOK /\ CacheTypeOK /\ StreamTypeOK
=============================================================================
