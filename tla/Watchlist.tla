----------------------------- MODULE Watchlist ------------------------------
(***************************************************************************)
(* Saved searches and the worker that repeats them (internal/watchlist).   *)
(* A watchlist answers with the releases its query finds; the first answer *)
(* is noted in silence, and what a later one adds is news, for the user    *)
(* and, if asked for, for the download queue.                              *)
(***************************************************************************)
EXTENDS FiniteSets, Naturals, Sequences

CONSTANTS
  Watches,    \* watchlists, by id
  Queries,
  Hits,       \* releases, by info hash
  Answers,    \* what matches a query, with the narrow and with the wide filter
  Fitting,    \* releases that pass the filters of the auto-download
  MaxAuto,    \* maxAutoPerPass
  KickRoom    \* capacity of Worker.kick

ASSUME WatchAssumption ==
  /\ Watches \subseteq Nat /\ IsFiniteSet(Watches)
  /\ Answers \in [Queries \X BOOLEAN -> SUBSET Hits]
  /\ MaxAuto \in Nat /\ KickRoom \in Nat \ {0}

VARIABLES
  watch,    \* the table of watchlists
  seen,     \* watchlist_seen
  out,      \* what the indexers offer
  kicks,    \* Worker.kick
  started,  \* the worker is past its first pass, or in it
  todo,     \* the pass: copies of the rows still to check
  stage,    \* how far the first of them is
  found,    \* its answer, as far as it is not recorded
  news,     \* what of it is to be notified
  budget,   \* how many downloads it may still start
  owed,     \* history: what was out when the query was saved
  silence,  \* history: how far the silent pass of the query has come
  early     \* history: what of the owed was brought up as news of this query

table     == <<watch, seen>>
passVars  == <<started, todo, stage, found, news, budget>>
history   == <<owed, silence, early>>
watchVars == <<table, out, kicks, passVars, history>>

Searches == [query : Queries, wide : BOOLEAN, auto : BOOLEAN, checked : BOOLEAN]

\* A row as the pass read it; current: its query has not been edited since.
Copies == [id : Watches, search : Searches, current : BOOLEAN]

WatchTypeOK ==
  /\ watch \in [Watches -> [at : {"new", "saved", "deleted"}, search : Searches, due : BOOLEAN]]
  /\ seen \in [Watches -> SUBSET Hits] /\ owed \in [Watches -> SUBSET Hits]
  /\ early \in [Watches -> SUBSET Hits] /\ out \subseteq Hits
  /\ silence \in [Watches -> {"ahead", "tried", "kept"}]
  /\ kicks \in Seq(Watches) /\ Len(kicks) <= KickRoom
  /\ started \in BOOLEAN /\ todo \in Seq(Copies)
  /\ stage \in {"arm", "search", "record"}
  /\ found \subseteq Hits /\ news \subseteq Hits /\ budget \in 0 .. MaxAuto

WatchInit ==
  /\ \E q \in Queries :
       watch = [w \in Watches |-> [at |-> "new", due |-> FALSE,
                 search |-> [query |-> q, wide |-> FALSE, auto |-> FALSE, checked |-> FALSE]]]
  /\ out = {} /\ kicks = <<>> /\ started = FALSE
  /\ todo = <<>> /\ stage = "arm" /\ found = {} /\ news = {} /\ budget = 0
  /\ seen = [w \in Watches |-> {}] /\ owed = seen /\ early = seen
  /\ silence = [w \in Watches |-> "ahead"]

Saved(w) == watch[w].at = "saved"

AnswersTo(s) == Answers[<<s.query, s.wide>>]

Matching(s) == out \cap AnswersTo(s)

-----------------------------------------------------------------------------
(* The requests of the user; each is one statement on the table.           *)

Kick(w) == kicks' = IF Len(kicks) < KickRoom THEN Append(kicks, w) ELSE kicks

\* Nothing that is out when a query is saved is news of it.
NewPromise(w, s) ==
  /\ owed' = [owed EXCEPT ![w] = Matching(s)]
  /\ early' = [early EXCEPT ![w] = {}]
  /\ silence' = [silence EXCEPT ![w] = "ahead"]
  /\ todo' = [i \in DOMAIN todo |->
       IF todo[i].id = w THEN [todo[i] EXCEPT !.current = FALSE] ELSE todo[i]]

Create(w, s) ==
  /\ watch[w].at = "new" /\ ~s.checked
  /\ watch' = [watch EXCEPT ![w] = [at |-> "saved", search |-> s, due |-> FALSE]]
  /\ Kick(w)
  /\ NewPromise(w, s)
  /\ UNCHANGED <<seen, out, started, stage, found, news, budget>>

(* mutant: an edit of the query keeps last_checked *)
RowAfterKeeping(w, s) == [s EXCEPT !.checked = watch[w].search.checked]

RowAfter(w, s) ==
  [s EXCEPT !.checked = watch[w].search.checked /\ s.query = watch[w].search.query]

(* The check time is computed anew; an edit of the filters keeps the promise *)
(* for what passes the new ones.                                             *)
Update(w, s) ==
  /\ Saved(w) /\ ~s.checked
  /\ watch' = [watch EXCEPT ![w].search = RowAfter(w, s), ![w].due = FALSE]
  /\ IF s.query # watch[w].search.query
     THEN NewPromise(w, s)
     ELSE /\ owed' = [owed EXCEPT ![w] = @ \cap AnswersTo(s)]
          /\ early' = [early EXCEPT ![w] = @ \cap AnswersTo(s)]
          /\ UNCHANGED <<silence, todo>>
  /\ UNCHANGED <<seen, out, kicks, started, stage, found, news, budget>>

\* The foreign key deletes what was seen along with the row.
Delete(w) ==
  /\ Saved(w)
  /\ watch' = [watch EXCEPT ![w].at = "deleted"]
  /\ seen' = [seen EXCEPT ![w] = {}]
  /\ UNCHANGED <<out, kicks, passVars, history>>

-----------------------------------------------------------------------------
(* The worker: one goroutine, which reads a row before it checks it.       *)

Copy(w) == [id |-> w, search |-> watch[w].search, current |-> TRUE]

\* The pass goes on with the first of these copies, or there is none.
Check(copies) ==
  /\ todo' = copies /\ stage' = "arm"
  /\ found' = {} /\ news' = {} /\ budget' = 0

Due == {w \in Watches : Saved(w) /\ watch[w].due}

\* The first pass after the start, and one per tick: the due rows in the order of their ids.
runDue ==
  /\ ~started \/ (todo = <<>> /\ Due # {})
  /\ started' = TRUE
  /\ \E ids \in [1 .. Cardinality(Due) -> Due] :
       /\ \A i, j \in DOMAIN ids : i < j => ids[i] < ids[j]
       /\ Check([i \in DOMAIN ids |-> Copy(ids[i])])
  /\ UNCHANGED <<table, out, kicks, history>>

checkOne ==
  /\ started /\ todo = <<>> /\ kicks # <<>>
  /\ kicks' = Tail(kicks)
  /\ Check(IF Saved(Head(kicks)) THEN <<Copy(Head(kicks))>> ELSE <<>>)
  /\ UNCHANGED <<table, out, started, history>>

Checking(st) == todo # <<>> /\ stage = st

This     == Head(todo)
Baseline == ~This.search.checked

\* A silent pass of this query begins, or is forestalled by a copy from before the edit.
Tries == silence[This.id] = "ahead" /\ (Baseline \/ ~This.current)

\* The row is armed again before the search, which may fail.
MarkChecked ==
  /\ Checking("arm") /\ stage' = "search"
  /\ watch' = IF Saved(This.id)
              THEN [watch EXCEPT ![This.id].search.checked = TRUE, ![This.id].due = FALSE]
              ELSE watch
  /\ silence' = IF Tries THEN [silence EXCEPT ![This.id] = "tried"] ELSE silence
  /\ UNCHANGED <<seen, out, kicks, started, todo, found, news, budget, owed, early>>

MarkCheckedFails ==
  /\ Checking("arm") /\ stage' = "search"
  /\ UNCHANGED <<table, out, kicks, started, todo, found, news, budget, history>>

(* mutant: the silent pass downloads *)
BudgetOfAnyPass == MaxAuto

Budget == IF Baseline THEN 0 ELSE MaxAuto

Search ==
  /\ Checking("search") /\ stage' = "record"
  /\ found' = Matching(This.search) /\ budget' = Budget
  /\ UNCHANGED <<table, out, kicks, started, todo, news, history>>

SearchFails ==
  /\ Checking("search")
  /\ Check(Tail(todo))
  /\ UNCHANGED <<table, out, kicks, started, history>>

BringUp(S) == early' = IF This.current THEN [early EXCEPT ![This.id] = @ \cup (S \cap owed[This.id])]
                       ELSE early

MayDownload(h) == budget > 0 /\ This.search.auto /\ h \in Fitting

(* MarkSeen inserts the release or finds it there; a new one may go to the  *)
(* download queue, and is brought up at the end of the pass in any case.    *)
recordResult(h) ==
  /\ Checking("record") /\ h \in found /\ Saved(This.id)
  /\ found' = found \ {h}
  /\ seen' = [seen EXCEPT ![This.id] = @ \cup {h}]
  /\ \/ h \in seen[This.id] /\ UNCHANGED <<news, budget, early>>
     \/ /\ h \notin seen[This.id] /\ news' = news \cup {h}
        /\ \/ MayDownload(h) /\ budget' = budget - 1 /\ BringUp({h})
           \/ UNCHANGED <<budget, early>>   \* not wanted there, or the queue refuses it
  /\ UNCHANGED <<watch, out, kicks, started, todo, stage, owed, silence>>

\* The row is gone, or the database fails: the release is passed over.
MarkSeenFails(h) ==
  /\ Checking("record") /\ h \in found
  /\ found' = found \ {h}
  /\ UNCHANGED <<table, out, kicks, started, todo, stage, news, budget, history>>

\* The silent pass noted everything it was to be silent about.
NotedAll == Baseline /\ This.current /\ owed[This.id] \subseteq seen[This.id]

notifyHits ==
  /\ Checking("record") /\ found = {}
  /\ IF Baseline THEN UNCHANGED early ELSE BringUp(news)
  /\ silence' = IF NotedAll THEN [silence EXCEPT ![This.id] = "kept"] ELSE silence
  /\ Check(Tail(todo))
  /\ UNCHANGED <<table, out, kicks, started, owed>>

-----------------------------------------------------------------------------
(* Time, the indexers, and the end of the process at any point.            *)

BecomesDue(w) ==
  /\ Saved(w) /\ ~watch[w].due
  /\ watch' = [watch EXCEPT ![w].due = TRUE]
  /\ UNCHANGED <<seen, out, kicks, passVars, history>>

Publish(h) ==
  /\ h \notin out
  /\ out' = out \cup {h}
  /\ UNCHANGED <<table, kicks, passVars, history>>

StartAgain ==
  /\ started
  /\ started' = FALSE /\ kicks' = <<>> /\ Check(<<>>)
  /\ UNCHANGED <<table, out, history>>

UserStep(w) == Delete(w) \/ \E s \in Searches : Create(w, s) \/ Update(w, s)

WatchNext ==
  \/ \E w \in Watches : UserStep(w) \/ BecomesDue(w)
  \/ runDue \/ checkOne \/ MarkChecked \/ MarkCheckedFails \/ Search \/ SearchFails
  \/ \E h \in Hits : recordResult(h) \/ MarkSeenFails(h) \/ Publish(h)
  \/ notifyHits \/ StartAgain

WatchSpec == WatchInit /\ [][WatchNext]_watchVars

-----------------------------------------------------------------------------
UnderWay(w) ==
  /\ Checking("search") \/ Checking("record")
  /\ This.id = w /\ This.current /\ Baseline

(* What was out when a query was saved is never brought up as news of it,  *)
(* by a notification or a download, unless its silent pass was cut short:  *)
(* it began, or a copy of the row from before the edit marked the row as   *)
(* checked in its stead, and none has noted everything.  store.Update      *)
(* forgets last_checked and MarkSeen lets one pass have a release, so that *)
(* edits, kicks, ticks and restarts in any order stay quiet.               *)
OldIsNoNews ==
  \A w \in Watches : early[w] # {} => silence[w] = "tried" /\ ~UnderWay(w)
=============================================================================
