---------------------------- MODULE MCScheduler ----------------------------
(***************************************************************************)
(* The download queue, and the watchlists that put rows into it.  What the *)
(* watchlists enqueue is any row to the queue, so the two are checked side *)
(* by side: a behaviour is one of a single component, named by `focus',    *)
(* while the other stays in its initial state.                             *)
(***************************************************************************)
EXTENDS Scheduler, Watchlist, TLC

CONSTANTS r1, r2, r3, r4, t1, t2, u1, u2, q1, q2, h1, h2

FourRows == {r1, r2, r3, r4}

Ids == [r \in FourRows |-> CASE r = r1 -> 1 [] r = r2 -> 2 [] r = r3 -> 3 [] r = r4 -> 4]

\* r1 and r2 are two files of one torrent of u1; the same torrent is r3 for u2
Owners   == [r \in FourRows |-> IF r = r3 THEN u2 ELSE u1]
Torrents == [r \in FourRows |-> IF r = r4 THEN t2 ELSE t1]

\* Two queries that both find h2; the narrow filter hides it from the first one.
MCAnswers == <<q1, FALSE>> :> {h1} @@ <<q1, TRUE>> :> {h1, h2}
          @@ <<q2, FALSE>> :> {h2} @@ <<q2, TRUE>> :> {h2}

VARIABLE focus

On(part) == focus = part /\ UNCHANGED focus

QueueInit ==
    /\ focus \in {"queue", "watch"}
    /\ Init /\ WatchInit
    /\ focus # "queue" => \A r \in Rows : priority[r] = 1
    /\ focus # "watch" => \A w \in Watches : watch[w].search.query = q1

QueueNext ==
    \/ On("queue") /\ Next      /\ UNCHANGED watchVars
    \/ On("watch") /\ WatchNext /\ UNCHANGED vars

QueueSpec == QueueInit /\ [][QueueNext]_<<focus, vars, watchVars>>
=============================================================================
