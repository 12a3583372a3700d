---------------------------- MODULE AccountProofs ----------------------------
(* What is kept for an account: its refresh tokens, for any browsers, tabs    *)
(* and tokens -- what a refresh that is under way may do to a token somebody  *)
(* else has spent in the meantime -- and its watchlists, for any queries,     *)
(* answers and limits.                                                        *)
EXTENDS Sessions, Watchlist, FiniteSetTheorems, TLAPS

(* Refresh tokens.                                                            *)
Rows == {"none", "unused", "consumed", "past"}

\* SessionsTypeOK is not inductive: until it has spent its token, a refresh has one.
TokenRequests ==
  {q \in [at : {"idle", "sent", "found", "consuming", "deciding", "issuing", "answered"},
          uses : Tokens \union {NoToken},
          verdict : {"none", "unused", "grace", "reuse", "refused"},
          user : {"none", "active", "pending", "disabled"}] :
     q.at \in {"sent", "found", "consuming"} => q.uses \in Tokens}

SessionTypes ==
  /\ account \in {"active", "pending", "disabled", "deleted"}
  /\ token \in [Tokens -> Rows]
  /\ kept \in [Browsers -> Tokens \union {NoToken}]
  /\ req \in [Tabs -> TokenRequests]
  /\ disabling \in BOOLEAN

\* The requests as they start and as they end.
LEMMA FreshTokenRequests ==
  /\ Quiet \in TokenRequests /\ Issuing \in TokenRequests /\ Refused \in TokenRequests
  /\ \A t \in Tokens : /\ [Quiet EXCEPT !.at = "sent", !.uses = t] \in TokenRequests
                       /\ [Quiet EXCEPT !.at = "answered", !.uses = t] \in TokenRequests
BY DEF Quiet, Issuing, Refused, TokenRequests

\* The requests in between.
LEMMA TokenRequestSteps ==
  ASSUME NEW q \in TokenRequests
  PROVE  /\ q.uses \in Tokens \union {NoToken}
         /\ q.at \in {"sent", "found", "consuming"} => q.uses \in Tokens
         /\ \A row \in Rows \ {"none"} : q.at = "sent" =>
              [q EXCEPT !.at = "found", !.verdict = verdictOn(row)] \in TokenRequests
         /\ \A st \in {"active", "pending", "disabled"}, at \in {"consuming", "deciding"} :
              q.at = "found" => [q EXCEPT !.user = st, !.at = at] \in TokenRequests
         /\ [q EXCEPT !.at = "deciding", !.verdict = "grace"] \in TokenRequests
BY DEF TokenRequests, Rows, verdictOn

LEMMA InitSessionsTyped == SessionsInit => SessionTypes
BY FreshTokenRequests DEF SessionsInit, SessionTypes, Rows

LEMMA WithoutTyped ==
  ASSUME SessionTypes, NEW gone
  PROVE  /\ Without(gone) \in [Tokens -> Rows]
         /\ \A t \in Tokens : Without(gone)[t] \in {token[t], "none"}
BY DEF SessionTypes, Without, Rows

\* The requests to log in and to refresh, statement by statement.
LEMMA TabTyped ==
  ASSUME SessionTypes, NEW t \in Tabs,
         LogIn(t) \/ SendRefresh(t) \/ Handling(t) \/ Receive(t) \/ Lose(t)
  PROVE  SessionTypes'
<1> USE FreshTokenRequests DEF SessionTypes, Step
<1>1. t[1] \in Browsers /\ req[t] \in TokenRequests
  BY SessionsAssumption
<1>2. CASE LogIn(t) \/ Lose(t)
  BY <1>2 DEF LogIn, Lose
<1>3. CASE SendRefresh(t)
  BY <1>1, <1>3 DEF SendRefresh
<1>4. CASE FindToken(t)
  BY <1>1, <1>4, TokenRequestSteps DEF FindToken
<1>5. CASE FindUser(t)
  BY <1>1, <1>5, TokenRequestSteps DEF FindUser
<1>6. CASE Consume(t)
  BY <1>1, <1>6, TokenRequestSteps DEF Consume, Rows
<1>7. CASE Decide(t)
  BY <1>7, WithoutTyped DEF Decide
<1>8. CASE Issue(t)
  BY <1>8 DEF Issue, Rows
<1>9. CASE IssueFails(t)
  BY <1>9 DEF IssueFails
<1>10. CASE Receive(t)
  BY <1>1, <1>10, TokenRequestSteps, WithoutTyped DEF Receive
<1>11. QED
  BY <1>2, <1>3, <1>4, <1>5, <1>6, <1>7, <1>8, <1>9, <1>10 DEF Handling

LEMMA OthersTyped ==
  ASSUME SessionTypes,
         \/ \E b \in Browsers : Logout(b) \/ RevokeOtherSessions(b)
         \/ \E t \in Tokens : RevokeSession(t) \/ GraceEnds(t) \/ Expire(t)
         \/ SetUserStatus \/ DisableRevokes \/ RevokeAllSessions \/ DeleteUser \/ CleanupExpired
  PROVE  SessionTypes'
<1> USE WithoutTyped DEF SessionTypes, Rows
<1>1. ASSUME NEW b \in Browsers, Logout(b) \/ RevokeOtherSessions(b)
      PROVE  SessionTypes'
  BY <1>1 DEF Logout, RevokeOtherSessions
<1>2. ASSUME NEW t \in Tokens, RevokeSession(t) \/ GraceEnds(t) \/ Expire(t)
      PROVE  SessionTypes'
  BY <1>2 DEF RevokeSession, GraceEnds, Expire
<1>3. CASE SetUserStatus \/ DisableRevokes \/ RevokeAllSessions \/ DeleteUser \/ CleanupExpired
  BY <1>3 DEF SetUserStatus, DisableRevokes, RevokeAllSessions, DeleteUser, CleanupExpired
<1>4. QED
  BY <1>1, <1>2, <1>3

LEMMA SessionsStepTyped == SessionTypes /\ [SessionsNext]_sessionVars => SessionTypes'
<1> SUFFICES ASSUME SessionTypes, [SessionsNext]_sessionVars
             PROVE  SessionTypes'
  OBVIOUS
<1>1. CASE UNCHANGED sessionVars
  BY <1>1 DEF sessionVars, SessionTypes
<1>2. CASE SessionsNext
  BY <1>2, TabTyped, OthersTyped DEF SessionsNext
<1>3. QED
  BY <1>1, <1>2

LEMMA SessionTypesHold == SessionsSpec => []SessionTypes
BY InitSessionsTyped, SessionsStepTyped, PTL DEF SessionsSpec

(* The account, its tokens, what the browsers keep and every request under way *)
(* have their types, for any number of tabs and tokens.                        *)
THEOREM SessionsTyped == SessionsSpec => []SessionsTypeOK
<1>1. SessionTypes => SessionsTypeOK
  BY DEF SessionTypes, SessionsTypeOK, TokenRequests, Rows
<1>2. QED
  BY <1>1, SessionTypesHold, PTL

\* A request changes a spent token in no way but by removing it.
LEMMA TabKeepsPast ==
  ASSUME SessionTypes, NEW x \in Tokens, token[x] = "past", NEW t \in Tabs,
         LogIn(t) \/ SendRefresh(t) \/ Handling(t) \/ Receive(t) \/ Lose(t)
  PROVE  token'[x] \in {"past", "none"}
<1>1. CASE Consume(t)
  <2>1. CASE x = req[t].uses
    BY <1>1, <2>1 DEF Consume, consumable
  <2>2. CASE x # req[t].uses
    BY <1>1, <2>2 DEF Consume, SessionTypes
  <2>3. QED
    BY <2>1, <2>2
<1>2. CASE Issue(t)
  <2>1. PICK new \in Tokens : Unknown(new) /\ token' = [token EXCEPT ![new] = "unused"]
    BY <1>2 DEF Issue
  <2>2. x # new
    BY <2>1 DEF Unknown
  <2>3. QED
    BY <2>1, <2>2 DEF SessionTypes
<1>3. CASE Decide(t) \/ Receive(t)
  BY <1>3, WithoutTyped DEF Decide, Receive
<1>4. CASE LogIn(t) \/ SendRefresh(t) \/ FindToken(t) \/ FindUser(t) \/ IssueFails(t) \/ Lose(t)
  BY <1>4 DEF LogIn, SendRefresh, FindToken, FindUser, IssueFails, Lose
<1>5. QED
  BY <1>1, <1>2, <1>3, <1>4 DEF Handling

LEMMA StepKeepsPast ==
  ASSUME SessionTypes, [SessionsNext]_sessionVars, NEW x \in Tokens, token[x] = "past"
  PROVE  token'[x] \in {"past", "none"}
<1>1. ASSUME NEW b \in Browsers, Logout(b) \/ RevokeOtherSessions(b)
      PROVE  token'[x] \in {"past", "none"}
  BY <1>1, WithoutTyped DEF Logout, RevokeOtherSessions
<1>2. ASSUME NEW t \in Tokens, RevokeSession(t) \/ GraceEnds(t) \/ Expire(t)
      PROVE  token'[x] \in {"past", "none"}
  BY <1>2, WithoutTyped DEF RevokeSession, GraceEnds, Expire, SessionTypes
<1>3. CASE SetUserStatus \/ DisableRevokes \/ RevokeAllSessions \/ DeleteUser \/ CleanupExpired
  BY <1>3, WithoutTyped
     DEF SetUserStatus, DisableRevokes, RevokeAllSessions, DeleteUser, CleanupExpired
<1>4. CASE UNCHANGED sessionVars
  BY <1>4 DEF sessionVars
<1>5. QED
  BY <1>1, <1>2, <1>3, <1>4, TabKeepsPast DEF SessionsNext

(* A token whose grace window is over is never unused or in its window again:  *)
(* a refresh that read it unused before finds, by the condition of the UPDATE, *)
(* that somebody was faster, and leaves its time of consumption alone.         *)
THEOREM SpentStaysSpent == SessionsSpec => PastStaysPast
<1>1. SessionTypes /\ [SessionsNext]_sessionVars
        => [\A t \in Tokens : token[t] = "past" => token'[t] \in {"past", "none"}]_sessionVars
  BY StepKeepsPast
<1>2. QED
  BY <1>1, SessionTypesHold, PTL DEF SessionsSpec, PastStaysPast

(* Sessions of an inactive account.  What can still issue a token is a request *)
(* that read the account active while it was so; nothing else joins them until *)
(* the account is active again.                                                *)

MayStillIssue(q) == q.at = "issuing" \/ (q.at \in {"consuming", "deciding"} /\ mayRenew(q.user))
MayIssue == {t \in Tabs : MayStillIssue(req[t])}
Issued(k) == token[k] # "unused" /\ token'[k] = "unused"
RunsOut ==
  /\ MayIssue' \subseteq MayIssue
  /\ \A k, l \in Tokens : Issued(k) /\ Issued(l) => k = l /\ MayIssue' # MayIssue

LEMMA TokensTaken ==
  ASSUME SessionTypes, MayIssue' \subseteq MayIssue,
         UNCHANGED token \/ \E gone : token' = Without(gone)
  PROVE  RunsOut
<1>1. \A k \in Tokens : ~Issued(k)
  BY WithoutTyped DEF Issued
<1>2. QED
  BY <1>1 DEF RunsOut

LEMMA OneRequestOn ==
  ASSUME SessionTypes, NEW t \in Tabs, NEW q, Step(t, q), MayStillIssue(q) => MayStillIssue(req[t])
  PROVE  MayIssue' \subseteq MayIssue
<1>1. \A u \in Tabs : req'[u] = IF u = t THEN q ELSE req[u]
  BY DEF Step, SessionTypes
<1>2. QED
  BY <1>1 DEF MayIssue

LEMMA TabRunsOut ==
  ASSUME SessionTypes, account # "active", NEW t \in Tabs,
         LogIn(t) \/ SendRefresh(t) \/ Handling(t) \/ Receive(t) \/ Lose(t)
  PROVE  RunsOut
<1> USE DEF MayStillIssue
<1>1. req[t] \in TokenRequests
  BY DEF SessionTypes
<1>2. ~LogIn(t)
  BY DEF LogIn
<1>3. CASE SendRefresh(t) \/ Lose(t) \/ IssueFails(t)
  BY <1>3, OneRequestOn, TokensTaken DEF SendRefresh, Lose, IssueFails, Quiet
<1>4. CASE FindToken(t)
  <2>1. PICK q \in {Refused, [req[t] EXCEPT !.at = "found", !.verdict = verdictOn(token[req[t].uses])]} :
          Step(t, q)
    BY <1>4 DEF FindToken
  <2>2. q.at \in {"answered", "found"}
    BY <1>1, <2>1 DEF Refused, Quiet, TokenRequests
  <2>3. QED
    BY <1>4, <2>1, <2>2, OneRequestOn, TokensTaken DEF FindToken
<1>5. CASE FindUser(t)
  <2>1. PICK q : /\ Step(t, q)
                 /\ \/ q = [Quiet EXCEPT !.at = "sent", !.uses = req[t].uses]
                    \/ \E at \in {"consuming", "deciding"} :
                         q = [req[t] EXCEPT !.user = account, !.at = at]
    BY <1>5 DEF FindUser
  <2>2. q.at = "sent" \/ (q.at \in {"consuming", "deciding"} /\ q.user = account)
    BY <1>1, <2>1 DEF Quiet, TokenRequests
  <2>3. QED
    BY <1>5, <2>1, <2>2, OneRequestOn, TokensTaken DEF FindUser, mayRenew
<1>6. CASE Consume(t)
  <2>1. [req[t] EXCEPT !.at = "deciding", !.verdict = "grace"].user = req[t].user
    BY <1>1 DEF TokenRequests
  <2>2. MayIssue' \subseteq MayIssue
    BY <1>1, <1>6, <2>1, OneRequestOn DEF Consume, TokenRequests
  <2>3. \A k \in Tokens : ~Issued(k)
    BY <1>6 DEF Consume, Issued, SessionTypes
  <2>4. QED
    BY <2>2, <2>3 DEF RunsOut
<1>7. CASE Decide(t)
  <2>1. MayIssue' \subseteq MayIssue
    BY <1>7, OneRequestOn DEF Decide, Refused, Quiet
  <2>2. QED
    BY <1>7, <2>1, TokensTaken DEF Decide
<1>8. CASE Issue(t)
  <2>1. PICK new \in Tokens :
          /\ token' = [token EXCEPT ![new] = "unused"]
          /\ Step(t, [Quiet EXCEPT !.at = "answered", !.uses = new])
    BY <1>8 DEF Issue
  <2>2. MayIssue' \subseteq MayIssue
    BY <2>1, OneRequestOn DEF Quiet
  <2>3. t \in MayIssue /\ t \notin MayIssue'
    BY <1>8, <2>1 DEF Issue, MayIssue, Step, Quiet, SessionTypes
  <2>4. \A k \in Tokens : Issued(k) => k = new
    BY <2>1 DEF Issued, SessionTypes
  <2>5. QED
    BY <2>2, <2>3, <2>4 DEF RunsOut
<1>9. CASE Receive(t)
  <2>1. MayIssue' \subseteq MayIssue
    BY <1>9, OneRequestOn DEF Receive, Quiet
  <2>2. QED
    BY <1>9, <2>1, TokensTaken DEF Receive
<1>10. QED
  BY <1>2, <1>3, <1>4, <1>5, <1>6, <1>7, <1>8, <1>9 DEF Handling

LEMMA OthersRunOut ==
  ASSUME SessionTypes, UNCHANGED req, NEW t,
         \/ UNCHANGED token
         \/ \E gone : token' = Without(gone)
         \/ token' = [token EXCEPT ![t] = "past"]
  PROVE  RunsOut
<1>1. MayIssue' = MayIssue
  BY DEF MayIssue
<1>2. CASE token' = [token EXCEPT ![t] = "past"]
  BY <1>1, <1>2 DEF RunsOut, Issued, SessionTypes
<1>3. QED
  BY <1>1, <1>2, TokensTaken

LEMMA StepRunsOut ==
  ASSUME SessionTypes, account # "active", [SessionsNext]_sessionVars
  PROVE  RunsOut
<1>1. ASSUME NEW b \in Browsers, Logout(b) \/ RevokeOtherSessions(b) PROVE RunsOut
  BY <1>1, OthersRunOut DEF Logout, RevokeOtherSessions
<1>2. ASSUME NEW t \in Tokens, RevokeSession(t) \/ GraceEnds(t) \/ Expire(t) PROVE RunsOut
  BY <1>2, OthersRunOut DEF RevokeSession, GraceEnds, Expire
<1>3. CASE SetUserStatus \/ DisableRevokes \/ RevokeAllSessions \/ DeleteUser \/ CleanupExpired
  BY <1>3, OthersRunOut
     DEF SetUserStatus, DisableRevokes, RevokeAllSessions, DeleteUser, CleanupExpired
<1>4. CASE UNCHANGED sessionVars
  BY <1>4, OthersRunOut DEF sessionVars
<1>5. QED
  BY <1>1, <1>2, <1>3, <1>4, TabRunsOut DEF SessionsNext

InactiveRunsOut == [][account # "active" => RunsOut]_sessionVars

(* While an account is pending, disabled or deleted, a refresh token appears   *)
(* only by a request that read the account active before, one for each at      *)
(* most, and no request joins them: a revocation is followed by no more        *)
(* sessions than there were requests under way, whatever the browsers send.    *)
THEOREM InactiveIssuesFew == SessionsSpec => InactiveRunsOut
<1>1. SessionTypes /\ [SessionsNext]_sessionVars => [account # "active" => RunsOut]_sessionVars
  BY StepRunsOut
<1>2. QED
  BY <1>1, SessionTypesHold, PTL DEF SessionsSpec, InactiveRunsOut
------------------------------------------------------------------------------
(* Watchlists.                                                                *)

(* The first copy of the pass, and the pass without it.                    *)
LEMMA FirstCopy ==
  ASSUME todo \in Seq(Copies)
  PROVE  /\ DOMAIN todo = 1 .. Len(todo) /\ Len(todo) \in Nat
         /\ \A i \in DOMAIN todo : todo[i] \in Copies
         /\ todo # <<>> => 1 \in DOMAIN todo /\ This = todo[1] /\ This \in Copies
BY DEF This

LEMMA OtherCopies ==
  ASSUME todo \in Seq(Copies), todo # <<>>
  PROVE  /\ Tail(todo) \in Seq(Copies)
         /\ \A i \in DOMAIN Tail(todo) : i + 1 \in DOMAIN todo /\ Tail(todo)[i] = todo[i + 1]
                                          /\ i \in Nat \ {0}
OBVIOUS

LEMMA MatchingHits ==
  ASSUME out \subseteq Hits, NEW s \in Searches
  PROVE  Matching(s) \subseteq Hits
BY DEF Matching

LEMMA CheckTyped ==
  ASSUME NEW c \in Seq(Copies), Check(c)
  PROVE  /\ todo' \in Seq(Copies) /\ stage' \in {"arm", "search", "record"}
         /\ found' \subseteq Hits /\ news' \subseteq Hits /\ budget' \in 0 .. MaxAuto
BY WatchAssumption DEF Check

LEMMA PromiseTyped ==
  ASSUME WatchTypeOK, NEW w \in Watches, NEW s \in Searches, NewPromise(w, s)
  PROVE  /\ owed' \in [Watches -> SUBSET Hits] /\ early' \in [Watches -> SUBSET Hits]
         /\ silence' \in [Watches -> {"ahead", "tried", "kept"}]
         /\ todo' \in Seq(Copies) /\ Len(todo') = Len(todo)
<1>1. Matching(s) \subseteq Hits
  BY MatchingHits DEF WatchTypeOK
<1>2. /\ owed' \in [Watches -> SUBSET Hits] /\ early' \in [Watches -> SUBSET Hits]
      /\ silence' \in [Watches -> {"ahead", "tried", "kept"}]
  BY <1>1 DEF WatchTypeOK, NewPromise
<1>3. \A i \in DOMAIN todo : todo[i] \in Copies /\ [todo[i] EXCEPT !.current = FALSE] \in Copies
  BY FirstCopy DEF WatchTypeOK, Copies
<1>4. /\ DOMAIN todo = 1 .. Len(todo) /\ Len(todo) \in Nat
      /\ todo' = [i \in 1 .. Len(todo) |-> IF todo[i].id = w
                    THEN [todo[i] EXCEPT !.current = FALSE] ELSE todo[i]]
  BY FirstCopy DEF WatchTypeOK, NewPromise
<1>5. todo' \in [1 .. Len(todo) -> Copies]
  BY <1>3, <1>4
<1> QED BY <1>2, <1>4, <1>5

LEMMA DueFinite == IsFiniteSet(Due) /\ Cardinality(Due) \in Nat /\ Due \subseteq Watches
<1>1. Due \subseteq Watches
  BY DEF Due
<1> QED BY <1>1, WatchAssumption, FS_Subset, FS_CardinalityType

LEMMA CopyTyped ==
  ASSUME WatchTypeOK, NEW w \in Watches
  PROVE  Copy(w) \in Copies
BY DEF WatchTypeOK, Copy, Copies

LEMMA RowTyped ==
  ASSUME WatchTypeOK, NEW w \in Watches, NEW s \in Searches
  PROVE  RowAfter(w, s) \in Searches
BY DEF WatchTypeOK, RowAfter, Searches

LEMMA SearchChecked == \A s \in Searches : [s EXCEPT !.checked = TRUE] \in Searches
BY DEF Searches

LEMMA RowsTyped ==
  ASSUME WatchTypeOK, NEW w \in Watches, NEW s \in Searches,
         watch' = [watch EXCEPT ![w].search = s, ![w].due = FALSE]
  PROVE  watch' \in [Watches -> [at : {"new", "saved", "deleted"}, search : Searches, due : BOOLEAN]]
<1>1. [watch[w] EXCEPT !.search = s, !.due = FALSE]
        \in [at : {"new", "saved", "deleted"}, search : Searches, due : BOOLEAN]
  BY DEF WatchTypeOK
<1>2. watch' = [watch EXCEPT ![w] = [watch[w] EXCEPT !.search = s, !.due = FALSE]]
  OBVIOUS
<1> QED BY <1>1, <1>2 DEF WatchTypeOK

LEMMA InitWatchTyped == WatchInit => WatchTypeOK
<1> SUFFICES ASSUME WatchInit PROVE WatchTypeOK
  OBVIOUS
<1>1. \A q \in Queries : [query |-> q, wide |-> FALSE, auto |-> FALSE, checked |-> FALSE] \in Searches
  BY DEF Searches
<1>2. watch \in [Watches -> [at : {"new", "saved", "deleted"}, search : Searches, due : BOOLEAN]]
  BY <1>1 DEF WatchInit
<1>3. kicks \in Seq(Watches) /\ Len(kicks) <= KickRoom /\ todo \in Seq(Copies)
  BY WatchAssumption DEF WatchInit
<1>4. /\ seen \in [Watches -> SUBSET Hits] /\ owed \in [Watches -> SUBSET Hits]
      /\ early \in [Watches -> SUBSET Hits] /\ silence \in [Watches -> {"ahead", "tried", "kept"}]
  BY DEF WatchInit
<1>5. started = FALSE /\ budget = 0
  BY DEF WatchInit
<1>6. /\ stage \in {"arm", "search", "record"}
      /\ out \subseteq Hits /\ found \subseteq Hits /\ news \subseteq Hits
  BY WatchAssumption DEF WatchInit
<1>7. budget \in 0 .. MaxAuto
  BY <1>5, WatchAssumption
<1>8. started \in BOOLEAN
  BY <1>5
<1> QED BY <1>2, <1>3, <1>4, <1>6, <1>7, <1>8, Zenon DEF WatchTypeOK

LEMMA WatchUserTyped ==
  ASSUME WatchTypeOK, NEW w \in Watches, UserStep(w)
  PROVE  WatchTypeOK'
<1>1. ASSUME NEW s \in Searches, Create(w, s) PROVE WatchTypeOK'
  <2>1. watch' \in [Watches -> [at : {"new", "saved", "deleted"}, search : Searches, due : BOOLEAN]]
    BY <1>1 DEF Create, WatchTypeOK
  <2>2. kicks' \in Seq(Watches) /\ Len(kicks') <= KickRoom
    BY <1>1, WatchAssumption DEF Create, Kick, WatchTypeOK
  <2>3. NewPromise(w, s)
    BY <1>1 DEF Create
  <2> QED BY <1>1, <2>1, <2>2, <2>3, PromiseTyped DEF Create, WatchTypeOK
<1>2. ASSUME NEW s \in Searches, Update(w, s) PROVE WatchTypeOK'
  <2>1. watch' \in [Watches -> [at : {"new", "saved", "deleted"}, search : Searches, due : BOOLEAN]]
    <3> DEFINE row == RowAfter(w, s)
    <3>1. row \in Searches /\ watch' = [watch EXCEPT ![w].search = row, ![w].due = FALSE]
      BY <1>2, RowTyped DEF Update
    <3> HIDE DEF row
    <3> QED BY <3>1, RowsTyped
  <2>2. CASE s.query # watch[w].search.query
    BY <1>2, <2>1, <2>2, PromiseTyped DEF Update, WatchTypeOK
  <2>3. CASE s.query = watch[w].search.query
    <3>1. /\ owed' = [owed EXCEPT ![w] = @ \cap AnswersTo(s)]
          /\ early' = [early EXCEPT ![w] = @ \cap AnswersTo(s)]
          /\ UNCHANGED <<silence, todo, seen, out, kicks, started, stage, found, news, budget>>
      BY <1>2, <2>3 DEF Update
    <3> QED BY <2>1, <3>1 DEF WatchTypeOK
  <2> QED BY <2>2, <2>3
<1>3. Delete(w) => WatchTypeOK'
  BY DEF Delete, WatchTypeOK, passVars, history
<1> QED BY <1>1, <1>2, <1>3 DEF UserStep

LEMMA WorkerTyped ==
  ASSUME WatchTypeOK,
         runDue \/ checkOne \/ MarkChecked \/ MarkCheckedFails \/ Search \/ SearchFails
           \/ notifyHits \/ StartAgain
  PROVE  WatchTypeOK'
<1>1. CASE runDue
  <2>1. PICK ids \in [1 .. Cardinality(Due) -> Due] : Check([i \in DOMAIN ids |-> Copy(ids[i])])
    BY <1>1 DEF runDue
  <2>2. [i \in DOMAIN ids |-> Copy(ids[i])] \in Seq(Copies)
    BY DueFinite, CopyTyped
  <2> QED BY <1>1, <2>1, <2>2, CheckTyped DEF runDue, WatchTypeOK, table, history
<1>2. CASE checkOne
  <2>1. Head(kicks) \in Watches /\ Tail(kicks) \in Seq(Watches) /\ Len(Tail(kicks)) <= KickRoom
    BY <1>2, WatchAssumption DEF checkOne, WatchTypeOK
  <2>2. \E c \in Seq(Copies) : Check(c)
    <3>1. <<>> \in Seq(Copies) /\ <<Copy(Head(kicks))>> \in Seq(Copies)
      BY <2>1, CopyTyped
    <3> QED BY <1>2, <3>1 DEF checkOne
  <2> QED BY <1>2, <2>1, <2>2, CheckTyped DEF checkOne, WatchTypeOK, table, history
<1>3. CASE MarkChecked
  <2>1. This \in Copies
    BY <1>3, FirstCopy DEF MarkChecked, Checking, WatchTypeOK
  <2>2. watch' \in [Watches -> [at : {"new", "saved", "deleted"}, search : Searches, due : BOOLEAN]]
    <3>1. This.id \in Watches
      BY <2>1 DEF Copies
    <3>2. [watch[This.id].search EXCEPT !.checked = TRUE] \in Searches
      BY <3>1, SearchChecked DEF WatchTypeOK
    <3>3. CASE Saved(This.id)
      <4>1. watch' = [watch EXCEPT ![This.id].search = [watch[This.id].search EXCEPT !.checked = TRUE],
                                   ![This.id].due = FALSE]
        BY <1>3, <3>3 DEF MarkChecked
      <4> QED BY <3>1, <3>2, <4>1, RowsTyped
    <3>4. CASE ~Saved(This.id)
      BY <1>3, <3>4 DEF MarkChecked, WatchTypeOK
    <3> QED BY <3>3, <3>4
  <2>3. silence' \in [Watches -> {"ahead", "tried", "kept"}]
    BY <1>3, <2>1 DEF MarkChecked, WatchTypeOK, Copies
  <2> QED BY <1>3, <2>2, <2>3 DEF MarkChecked, WatchTypeOK
<1>4. CASE MarkCheckedFails
  BY <1>4 DEF MarkCheckedFails, WatchTypeOK, table, history
<1>5. CASE Search
  <2>1. This.search \in Searches
    BY <1>5, FirstCopy DEF Search, Checking, WatchTypeOK, Copies
  <2>2. Matching(This.search) \subseteq Hits /\ Budget \in 0 .. MaxAuto
    BY <2>1, MatchingHits, WatchAssumption DEF WatchTypeOK, Budget
  <2> QED BY <1>5, <2>2 DEF Search, WatchTypeOK, table, history
<1>6. CASE SearchFails
  <2>1. Tail(todo) \in Seq(Copies)
    BY <1>6, OtherCopies DEF SearchFails, Checking, WatchTypeOK
  <2> QED BY <1>6, <2>1, CheckTyped DEF SearchFails, WatchTypeOK, table, history
<1>7. CASE notifyHits
  <2>1. Tail(todo) \in Seq(Copies) /\ This \in Copies
    BY <1>7, OtherCopies, FirstCopy DEF notifyHits, Checking, WatchTypeOK
  <2>2. early' \in [Watches -> SUBSET Hits]
    BY <1>7, <2>1 DEF notifyHits, BringUp, WatchTypeOK, Copies
  <2>3. silence' \in [Watches -> {"ahead", "tried", "kept"}]
    BY <1>7, <2>1 DEF notifyHits, WatchTypeOK, Copies
  <2> QED BY <1>7, <2>1, <2>2, <2>3, CheckTyped DEF notifyHits, WatchTypeOK, table
<1>8. CASE StartAgain
  <2>1. kicks' \in Seq(Watches) /\ Len(kicks') <= KickRoom
    BY <1>8, WatchAssumption DEF StartAgain
  <2>2. Check(<<>>) /\ <<>> \in Seq(Copies)
    BY <1>8 DEF StartAgain
  <2> QED BY <1>8, <2>1, <2>2, CheckTyped DEF StartAgain, WatchTypeOK, table, history
<1> QED BY <1>1, <1>2, <1>3, <1>4, <1>5, <1>6, <1>7, <1>8

LEMMA HitTyped ==
  ASSUME WatchTypeOK, NEW h \in Hits, recordResult(h) \/ MarkSeenFails(h) \/ Publish(h)
  PROVE  WatchTypeOK'
<1>1. CASE recordResult(h)
  <2>1. This.id \in Watches
    BY <1>1, FirstCopy DEF recordResult, Checking, WatchTypeOK, Copies
  <2>2. seen' \in [Watches -> SUBSET Hits] /\ news' \subseteq Hits /\ found' \subseteq Hits
    BY <1>1, <2>1 DEF recordResult, WatchTypeOK
  <2>3. early' \in [Watches -> SUBSET Hits] /\ budget' \in 0 .. MaxAuto
    BY <1>1, <2>1, WatchAssumption DEF recordResult, MayDownload, BringUp, WatchTypeOK
  <2> QED BY <1>1, <2>2, <2>3 DEF recordResult, WatchTypeOK
<1>2. CASE MarkSeenFails(h)
  BY <1>2 DEF MarkSeenFails, WatchTypeOK, table, history
<1>3. CASE Publish(h)
  BY <1>3 DEF Publish, WatchTypeOK, table, passVars, history
<1> QED BY <1>1, <1>2, <1>3

LEMMA WatchStepTyped == WatchTypeOK /\ [WatchNext]_watchVars => WatchTypeOK'
<1> SUFFICES ASSUME WatchTypeOK, [WatchNext]_watchVars PROVE WatchTypeOK'
  OBVIOUS
<1>1. ASSUME NEW w \in Watches, UserStep(w) PROVE WatchTypeOK'
  BY <1>1, WatchUserTyped
<1>2. ASSUME NEW w \in Watches, BecomesDue(w) PROVE WatchTypeOK'
  BY <1>2 DEF BecomesDue, WatchTypeOK, passVars, history
<1>3. ASSUME NEW h \in Hits, recordResult(h) \/ MarkSeenFails(h) \/ Publish(h) PROVE WatchTypeOK'
  BY <1>3, HitTyped
<1>4. CASE UNCHANGED watchVars
  BY <1>4 DEF WatchTypeOK, watchVars, table, passVars, history
<1> QED BY <1>1, <1>2, <1>3, <1>4, WorkerTyped DEF WatchNext

(* Every row, list and history has its type in every state.                *)
THEOREM WatchTyped == WatchSpec => []WatchTypeOK
BY InitWatchTyped, WatchStepTyped, PTL DEF WatchSpec

-----------------------------------------------------------------------------
(* Silence: the pass holds one copy of a row at most, so that what the row *)
(* says of its last check and what the copy says stay in step with how far *)
(* the silent pass of the query has come.                                  *)
Of(w, i) == todo[i].id = w /\ todo[i].current
Armed(i) == i = 1 /\ stage # "arm"

IdsApart == \A i, j \in DOMAIN todo : i < j => todo[i].id # todo[j].id

SilentAhead(w) == silence[w] = "ahead" =>
  /\ early[w] = {}
  /\ Saved(w) => ~watch[w].search.checked
  /\ \A i \in DOMAIN todo : Of(w, i) => ~todo[i].search.checked

SilentTried(w) == silence[w] = "tried" =>
  /\ Saved(w) => watch[w].search.checked
  /\ \A i \in DOMAIN todo : Of(w, i) /\ ~Armed(i) => todo[i].search.checked

SilentKept(w) == silence[w] = "kept" =>
  /\ early[w] = {}
  /\ Saved(w) => owed[w] \subseteq seen[w]
  /\ 1 \in DOMAIN todo /\ Of(w, 1) => news \cap owed[w] = {}

SilentUnderWay(w) ==
  1 \in DOMAIN todo /\ Of(w, 1) /\ Armed(1) /\ ~todo[1].search.checked => early[w] = {}

Silent(w) == SilentAhead(w) /\ SilentTried(w) /\ SilentKept(w) /\ SilentUnderWay(w)

NoBudget == 1 \in DOMAIN todo /\ stage = "record" /\ ~todo[1].search.checked => budget = 0

WatchInv == WatchTypeOK /\ IdsApart /\ NoBudget /\ \A w \in Watches : Silent(w)

(* A query that is new, or edited: the pass holds no current copy of it.   *)
LEMMA PromiseKeeps ==
  ASSUME WatchInv, NEW w \in Watches, NEW s \in Searches, NewPromise(w, s),
         WatchTypeOK',
         ~watch'[w].search.checked,
         \A v \in Watches \ {w} : watch'[v] = watch[v],
         UNCHANGED <<seen, stage, news, budget>>
  PROVE  WatchInv'
<1>1. /\ DOMAIN todo' = DOMAIN todo
      /\ \A i \in DOMAIN todo : /\ todo'[i].id = todo[i].id
                                /\ todo'[i].search = todo[i].search
                                /\ todo'[i].current <=> todo[i].current /\ todo[i].id # w
  <2>1. \A i \in DOMAIN todo : todo[i] \in Copies
    BY FirstCopy DEF WatchInv, WatchTypeOK
  <2> QED BY <2>1 DEF NewPromise, Copies
<1>2. IdsApart' /\ NoBudget'
  BY <1>1 DEF WatchInv, IdsApart, NoBudget
<1>3. Silent(w)'
  <2>1. early'[w] = {} /\ silence'[w] = "ahead"
    BY DEF WatchInv, WatchTypeOK, NewPromise
  <2>2. \A i \in DOMAIN todo' : ~Of(w, i)'
    BY <1>1 DEF Of
  <2> QED BY <2>1, <2>2 DEF Silent, SilentAhead, SilentTried, SilentKept, SilentUnderWay
<1>4. ASSUME NEW v \in Watches \ {w} PROVE Silent(v)'
  <2>1. /\ early'[v] = early[v] /\ silence'[v] = silence[v] /\ owed'[v] = owed[v]
        /\ watch'[v] = watch[v] /\ seen'[v] = seen[v] /\ news' = news /\ Saved(v)' = Saved(v)
    BY DEF WatchInv, WatchTypeOK, NewPromise, Saved
  <2>2. \A i \in DOMAIN todo' : (Of(v, i)' <=> Of(v, i)) /\ (Armed(i)' <=> Armed(i))
    BY <1>1 DEF Of, Armed
  <2>3. Silent(v)
    BY DEF WatchInv
  <2>4. SilentAhead(v)' /\ SilentTried(v)'
    BY <1>1, <2>1, <2>2, <2>3 DEF Silent, SilentAhead, SilentTried
  <2>5. SilentKept(v)' /\ SilentUnderWay(v)'
    BY <1>1, <2>1, <2>2, <2>3 DEF Silent, SilentKept, SilentUnderWay
  <2> QED BY <2>4, <2>5 DEF Silent
<1> QED BY <1>2, <1>3, <1>4 DEF WatchInv

(* The other requests leave the pass alone.                                *)
LEMMA UserKeeps ==
  ASSUME WatchInv, NEW w \in Watches, UserStep(w)
  PROVE  WatchInv'
<1>1. WatchTypeOK'
  BY WatchUserTyped DEF WatchInv
<1>2. ASSUME NEW s \in Searches, Create(w, s) PROVE WatchInv'
  <2>1. /\ ~watch'[w].search.checked
        /\ \A v \in Watches \ {w} : watch'[v] = watch[v]
        /\ UNCHANGED <<seen, stage, news, budget>> /\ NewPromise(w, s)
    BY <1>2 DEF Create, WatchInv, WatchTypeOK
  <2> QED BY <1>1, <2>1, PromiseKeeps
<1>3. ASSUME NEW s \in Searches, Update(w, s) PROVE WatchInv'
  <2> DEFINE row == RowAfter(w, s)
  <2>1. /\ watch' = [watch EXCEPT ![w].search = row, ![w].due = FALSE] /\ Saved(w)
        /\ UNCHANGED <<seen, out, kicks, started, stage, found, news, budget>>
    BY <1>3 DEF Update
  <2>2. row.checked <=> watch[w].search.checked /\ s.query = watch[w].search.query
    BY DEF RowAfter, WatchInv, WatchTypeOK, Searches
  <2> HIDE DEF row
  <2>3. /\ watch'[w].search = row /\ watch'[w].at = watch[w].at
        /\ \A v \in Watches \ {w} : watch'[v] = watch[v]
    BY <2>1 DEF WatchInv, WatchTypeOK
  <2>4. CASE s.query # watch[w].search.query
    <3>1. NewPromise(w, s)
      BY <1>3, <2>4 DEF Update
    <3> QED BY <1>1, <2>1, <2>2, <2>3, <2>4, <3>1, PromiseKeeps
  <2>5. CASE s.query = watch[w].search.query
    <3>1. /\ owed' = [owed EXCEPT ![w] = @ \cap AnswersTo(s)]
          /\ early' = [early EXCEPT ![w] = @ \cap AnswersTo(s)]
          /\ UNCHANGED <<silence, todo>>
      BY <1>3, <2>5 DEF Update
    <3>2. IdsApart' /\ NoBudget'
      BY <2>1, <3>1 DEF WatchInv, IdsApart, NoBudget
    <3>3. ASSUME NEW v \in Watches PROVE Silent(v)'
      <4>1. early'[v] \subseteq early[v] /\ owed'[v] \subseteq owed[v]
        BY <3>1 DEF WatchInv, WatchTypeOK
      <4>2. (watch'[v].search.checked <=> watch[v].search.checked) /\ (Saved(v)' <=> Saved(v))
        BY <2>2, <2>3, <2>5 DEF Saved
      <4>3. /\ \A i \in DOMAIN todo' : (Of(v, i)' <=> Of(v, i)) /\ (Armed(i)' <=> Armed(i))
            /\ todo' = todo /\ silence' = silence /\ news' = news /\ seen' = seen
        BY <2>1, <3>1 DEF Of, Armed
      <4>4. Silent(v)
        BY DEF WatchInv
      <4>5. SilentAhead(v)' /\ SilentTried(v)'
        BY <4>1, <4>2, <4>3, <4>4 DEF Silent, SilentAhead, SilentTried
      <4>6. SilentKept(v)' /\ SilentUnderWay(v)'
        BY <4>1, <4>2, <4>3, <4>4 DEF Silent, SilentKept, SilentUnderWay
      <4> QED BY <4>5, <4>6 DEF Silent
    <3> QED BY <1>1, <3>2, <3>3 DEF WatchInv
  <2> QED BY <2>4, <2>5
<1>4. CASE Delete(w)
  <2>1. /\ UNCHANGED <<out, kicks, started, todo, stage, found, news, budget, owed, silence, early>>
        /\ ~Saved(w)'
        /\ \A v \in Watches \ {w} : watch'[v] = watch[v] /\ seen'[v] = seen[v]
    BY <1>4 DEF Delete, WatchInv, WatchTypeOK, passVars, history, Saved
  <2>2. IdsApart' /\ NoBudget'
    BY <2>1 DEF WatchInv, IdsApart, NoBudget
  <2>3. ASSUME NEW v \in Watches PROVE Silent(v)'
    <3>1. Silent(v)
      BY DEF WatchInv
    <3>2. Saved(v)' => watch'[v] = watch[v] /\ seen'[v] = seen[v] /\ Saved(v)
      BY <2>1 DEF Saved
    <3>3. \A i \in DOMAIN todo' : (Of(v, i)' <=> Of(v, i)) /\ (Armed(i)' <=> Armed(i))
      BY <2>1 DEF Of, Armed
    <3>4. SilentAhead(v)' /\ SilentTried(v)'
      BY <2>1, <3>1, <3>2, <3>3 DEF Silent, SilentAhead, SilentTried
    <3>5. SilentKept(v)' /\ SilentUnderWay(v)'
      BY <2>1, <3>1, <3>2, <3>3 DEF Silent, SilentKept, SilentUnderWay
    <3> QED BY <3>4, <3>5 DEF Silent
  <2> QED BY <1>1, <2>2, <2>3 DEF WatchInv
<1> QED BY <1>2, <1>3, <1>4 DEF UserStep

(* The copies the pass goes on with are fresh, or waited already.          *)
GoesOnWith(c) ==
  /\ \A i, j \in DOMAIN c : i < j => c[i].id # c[j].id
  /\ \A i \in DOMAIN c : \/ Saved(c[i].id) /\ c[i] = Copy(c[i].id)
                         \/ \E k \in DOMAIN todo : k # 1 /\ c[i] = todo[k]

LEMMA CheckKeeps ==
  ASSUME WatchInv, NEW c \in Seq(Copies), Check(c), GoesOnWith(c)
  PROVE  /\ IdsApart' /\ NoBudget'
         /\ \A w \in Watches : \A i \in DOMAIN todo' : Of(w, i)' =>
              /\ silence[w] = "ahead" => ~todo'[i].search.checked
              /\ silence[w] = "tried" => todo'[i].search.checked
<1>1. todo' = c /\ stage' = "arm" /\ news' = {}
  BY DEF Check
<1>2. IdsApart' /\ NoBudget'
  BY <1>1 DEF GoesOnWith, IdsApart, NoBudget
<1>3. ASSUME NEW w \in Watches, NEW i \in DOMAIN c, c[i].id = w, c[i].current
      PROVE  /\ silence[w] = "ahead" => ~c[i].search.checked
             /\ silence[w] = "tried" => c[i].search.checked
  <2>1. Silent(w)
    BY DEF WatchInv
  <2>2. CASE Saved(c[i].id) /\ c[i] = Copy(c[i].id)
    BY <1>3, <2>1, <2>2 DEF Copy, Silent, SilentAhead, SilentTried
  <2>3. ASSUME NEW k \in DOMAIN todo, k # 1, c[i] = todo[k]
        PROVE  /\ silence[w] = "ahead" => ~c[i].search.checked
               /\ silence[w] = "tried" => c[i].search.checked
    BY <1>3, <2>1, <2>3 DEF Of, Armed, Silent, SilentAhead, SilentTried
  <2> QED BY <2>2, <2>3 DEF GoesOnWith
<1> QED BY <1>1, <1>2, <1>3 DEF Of

LEMMA PassKeeps ==
  ASSUME WatchInv, WatchTypeOK', NEW c \in Seq(Copies), Check(c), GoesOnWith(c),
         UNCHANGED <<table, history>>
  PROVE  WatchInv'
<1>1. UNCHANGED <<watch, seen, owed, silence, early>> /\ stage' = "arm" /\ news' = {}
  BY DEF table, history, Check
<1>2. ASSUME NEW w \in Watches PROVE Silent(w)'
  <2>1. Silent(w)
    BY DEF WatchInv
  <2>2. Saved(w)' = Saved(w)
    BY <1>1 DEF Saved
  <2>3. /\ SilentAhead(w)' /\ SilentTried(w)' /\ SilentKept(w)'
    BY <1>1, <2>1, <2>2, CheckKeeps DEF Silent, SilentAhead, SilentTried, SilentKept
  <2>4. SilentUnderWay(w)'
    BY <1>1 DEF SilentUnderWay, Armed
  <2> QED BY <2>3, <2>4 DEF Silent
<1> QED BY <1>2, CheckKeeps DEF WatchInv

LEMMA PassesKeep ==
  ASSUME WatchInv, runDue \/ checkOne \/ SearchFails \/ StartAgain
  PROVE  WatchInv'
<1>1. WatchTypeOK /\ WatchTypeOK'
  BY WorkerTyped DEF WatchInv
<1>2. CASE runDue
  <2>1. PICK ids \in [1 .. Cardinality(Due) -> Due] :
          /\ \A i, j \in DOMAIN ids : i < j => ids[i] < ids[j]
          /\ Check([i \in DOMAIN ids |-> Copy(ids[i])])
    BY <1>2 DEF runDue
  <2> DEFINE c == [i \in DOMAIN ids |-> Copy(ids[i])]
  <2>2. c \in Seq(Copies)
    BY <1>1, DueFinite, CopyTyped
  <2>3. \A i \in DOMAIN c : c[i].id = ids[i] /\ c[i] = Copy(ids[i]) /\ ids[i] \in Due /\ ids[i] \in Nat
    BY DueFinite, WatchAssumption DEF Copy
  <2>4. GoesOnWith(c)
    BY <2>1, <2>3 DEF GoesOnWith, Due
  <2> QED BY <1>1, <1>2, <2>1, <2>2, <2>4, PassKeeps DEF runDue
<1>3. CASE checkOne
  <2>1. Head(kicks) \in Watches
    BY <1>1, <1>3 DEF checkOne, WatchTypeOK
  <2>2. CASE Saved(Head(kicks))
    <3>1. Check(<<Copy(Head(kicks))>>)
      BY <1>3, <2>2 DEF checkOne
    <3>2. <<Copy(Head(kicks))>> \in Seq(Copies)
      BY <1>1, <2>1, CopyTyped
    <3>3. GoesOnWith(<<Copy(Head(kicks))>>)
      <4>1. Copy(Head(kicks)).id = Head(kicks)
        BY DEF Copy
      <4>2. \A c : LET s == <<c>> IN DOMAIN s = {1} /\ s[1] = c
        OBVIOUS
      <4> QED BY <2>2, <4>1, <4>2 DEF GoesOnWith
    <3> QED BY <1>1, <1>3, <3>1, <3>2, <3>3, PassKeeps DEF checkOne
  <2>3. CASE ~Saved(Head(kicks))
    <3>1. Check(<<>>) /\ <<>> \in Seq(Copies) /\ GoesOnWith(<<>>)
      BY <1>3, <2>3 DEF checkOne, GoesOnWith
    <3> QED BY <1>1, <1>3, <3>1, PassKeeps DEF checkOne
  <2> QED BY <2>2, <2>3
<1>4. CASE SearchFails
  <2>1. Tail(todo) \in Seq(Copies) /\ GoesOnWith(Tail(todo))
    BY <1>1, <1>4, OtherCopies DEF SearchFails, Checking, WatchInv, WatchTypeOK, IdsApart, GoesOnWith
  <2> QED BY <1>1, <1>4, <2>1, PassKeeps DEF SearchFails
<1>5. CASE StartAgain
  <2>1. Check(<<>>) /\ <<>> \in Seq(Copies) /\ GoesOnWith(<<>>)
    BY <1>5 DEF StartAgain, GoesOnWith
  <2> QED BY <1>1, <1>5, <2>1, PassKeeps DEF StartAgain
<1> QED BY <1>2, <1>3, <1>4, <1>5

(* The first copy passes on: no other copy of its row waits.               *)
LEMMA FirstAlone ==
  ASSUME WatchInv, todo # <<>>
  PROVE  /\ 1 \in DOMAIN todo /\ This = todo[1] /\ This \in Copies /\ This.id \in Watches
         /\ \A i \in DOMAIN todo : i # 1 => i > 1 /\ todo[i].id # This.id
<1>1. /\ 1 \in DOMAIN todo /\ This = todo[1] /\ This \in Copies
      /\ DOMAIN todo = 1 .. Len(todo)
  BY FirstCopy DEF WatchInv, WatchTypeOK
<1>2. This.id \in Watches
  BY <1>1 DEF Copies
<1>3. \A i \in DOMAIN todo : i # 1 => i > 1 /\ todo[i].id # todo[1].id
  BY <1>1 DEF WatchInv, IdsApart
<1> QED BY <1>1, <1>2, <1>3

LEMMA MarkKeeps ==
  ASSUME WatchInv, MarkChecked
  PROVE  WatchInv'
<1>1. WatchTypeOK /\ WatchTypeOK'
  BY WorkerTyped DEF WatchInv
<1>2. todo # <<>> /\ stage = "arm" /\ stage' = "search" /\ UNCHANGED <<seen, todo, news, budget, owed, early>>
  BY DEF MarkChecked, Checking
<1>0. PICK v \in Watches : v = This.id
  BY <1>2, FirstAlone
<1>3. 1 \in DOMAIN todo /\ This = todo[1] /\ (Of(v, 1) <=> This.current)
  BY <1>0, <1>2, FirstAlone DEF Of
<1>4. \A i \in DOMAIN todo : i # 1 => todo[i].id # v
  BY <1>0, <1>2, FirstAlone
<1>5. /\ \A w \in Watches \ {v} : watch'[w] = watch[w] /\ silence'[w] = silence[w]
      /\ watch'[v].at = watch[v].at
      /\ Saved(v) => watch'[v].search.checked
      /\ silence'[v] = IF Tries THEN "tried" ELSE silence[v]
  <2>1. /\ watch' = IF Saved(v) THEN [watch EXCEPT ![v].search.checked = TRUE, ![v].due = FALSE] ELSE watch
        /\ silence' = IF Tries THEN [silence EXCEPT ![v] = "tried"] ELSE silence
    BY <1>0 DEF MarkChecked
  <2>2. [watch[v] EXCEPT !.search.checked = TRUE, !.due = FALSE].search.checked
    BY <1>1, <1>3 DEF WatchTypeOK, Searches
  <2> QED BY <1>1, <1>3, <2>1, <2>2 DEF WatchTypeOK
<1>6. IdsApart' /\ NoBudget'
  BY <1>2 DEF WatchInv, IdsApart, NoBudget
<1>7. ASSUME NEW w \in Watches \ {v} PROVE Silent(w)'
  <2>1. Silent(w) /\ watch'[w] = watch[w] /\ silence'[w] = silence[w] /\ Saved(w)' = Saved(w)
    BY <1>5 DEF WatchInv, Saved
  <2>2. /\ \A i \in DOMAIN todo' : Of(w, i)' <=> Of(w, i)
        /\ ~Of(w, 1)
    BY <1>0, <1>2, <1>3 DEF Of
  <2>3. \A i \in DOMAIN todo' : Of(w, i) => i # 1 /\ ~Armed(i) /\ ~Armed(i)'
    BY <2>2 DEF Armed
  <2>4. SilentAhead(w)' /\ SilentTried(w)'
    BY <1>2, <2>1, <2>2, <2>3 DEF Silent, SilentAhead, SilentTried
  <2>5. SilentKept(w)' /\ SilentUnderWay(w)'
    BY <1>2, <2>1, <2>2, <2>3 DEF Silent, SilentKept, SilentUnderWay
  <2> QED BY <2>4, <2>5 DEF Silent
<1>8. Silent(v)'
  <2>1. Silent(v) /\ Saved(v)' = Saved(v)
    BY <1>3, <1>5 DEF WatchInv, Saved
  <2>2. /\ \A i \in DOMAIN todo' : (Of(v, i)' <=> Of(v, i)) /\ (Of(v, i) => i = 1 /\ Armed(i)')
        /\ ~Armed(1) /\ 1 \in DOMAIN todo'
    BY <1>2, <1>3, <1>4 DEF Of, Armed
  <2>3. CASE Tries
    <3>1. silence[v] = "ahead" /\ silence'[v] = "tried"
      BY <1>0, <1>5, <2>3 DEF Tries
    <3>2. early'[v] = {}
      BY <1>2, <2>1, <3>1 DEF Silent, SilentAhead
    <3> QED BY <1>5, <2>1, <2>2, <3>1, <3>2 DEF Silent, SilentAhead, SilentTried, SilentKept, SilentUnderWay
  <2>4. CASE ~Tries
    <3>1. silence'[v] = silence[v] /\ silence[v] # "ahead"
      BY <1>0, <1>3, <1>5, <2>1, <2>2, <2>4 DEF Tries, Baseline, Silent, SilentAhead
    <3>2. CASE silence[v] = "tried"
      <4>1. Of(v, 1) => todo[1].search.checked
        BY <2>1, <2>2, <3>2, <1>2 DEF Silent, SilentTried
      <4> QED BY <1>2, <1>5, <2>1, <2>2, <3>1, <3>2, <4>1
            DEF Silent, SilentAhead, SilentTried, SilentKept, SilentUnderWay
    <3>3. CASE silence[v] = "kept"
      BY <1>2, <2>1, <2>2, <3>1, <3>3 DEF Silent, SilentAhead, SilentTried, SilentKept, SilentUnderWay
    <3> QED BY <1>1, <1>3, <3>1, <3>2, <3>3 DEF WatchTypeOK
  <2> QED BY <2>3, <2>4
<1> QED BY <1>1, <1>6, <1>7, <1>8 DEF WatchInv

(* Steps after which the rows, the copies and the histories are the same.  *)
LEMMA QuietKeeps ==
  ASSUME WatchInv, WatchTypeOK', NoBudget',
         UNCHANGED <<seen, todo, news, owed, silence, early>>,
         \A w \in Watches : watch'[w].at = watch[w].at /\ watch'[w].search = watch[w].search,
         \/ UNCHANGED stage
         \/ stage = "search" /\ stage' = "record"
         \/ /\ stage = "arm" /\ stage' = "search"
  PROVE  WatchInv'
<1>1. IdsApart'
  BY DEF WatchInv, IdsApart
<1>2. ASSUME NEW w \in Watches PROVE Silent(w)'
  <2>1. Silent(w) /\ Saved(w)' = Saved(w)
    BY DEF WatchInv, Saved
  <2>2. \A i \in DOMAIN todo' : (Of(w, i)' <=> Of(w, i)) /\ (Armed(i) => Armed(i)')
    BY DEF Of, Armed
  <2>3. SilentAhead(w)' /\ SilentTried(w)' /\ SilentKept(w)'
    BY <2>1, <2>2 DEF Silent, SilentAhead, SilentTried, SilentKept
  <2>4. SilentUnderWay(w)'
    <3>1. CASE Armed(1)
      BY <2>1, <2>2, <3>1 DEF Silent, SilentUnderWay
    <3>2. CASE ~Armed(1)
      <4>1. 1 \in DOMAIN todo /\ Of(w, 1) /\ ~todo[1].search.checked => silence[w] # "tried"
        BY <2>1, <3>2 DEF Silent, SilentTried
      <4>2. silence[w] # "tried" => early[w] = {}
        BY <2>1 DEF Silent, SilentAhead, SilentKept, WatchInv, WatchTypeOK
      <4> QED BY <2>2, <4>1, <4>2 DEF SilentUnderWay
    <3> QED BY <3>1, <3>2
  <2> QED BY <2>3, <2>4 DEF Silent
<1> QED BY <1>1, <1>2 DEF WatchInv

LEMMA SearchKeeps ==
  ASSUME WatchInv, MarkCheckedFails \/ Search
  PROVE  WatchInv'
<1>1. WatchTypeOK /\ WatchTypeOK'
  BY WorkerTyped DEF WatchInv
<1>2. CASE MarkCheckedFails
  BY <1>1, <1>2, QuietKeeps DEF MarkCheckedFails, Checking, NoBudget, table, history
<1>3. CASE Search
  <2>1. todo # <<>> /\ stage = "search" /\ stage' = "record" /\ budget' = Budget
        /\ UNCHANGED <<table, todo, news, history>>
    BY <1>3 DEF Search, Checking
  <2>2. NoBudget'
    BY <2>1, FirstAlone DEF Budget, Baseline, NoBudget
  <2> QED BY <1>1, <2>1, <2>2, QuietKeeps DEF table, history
<1> QED BY <1>2, <1>3

(* A release is brought up in a pass that is not silent, and after the     *)
(* silent pass noted everything nothing owed is new.                       *)
LEMMA RecordKeeps ==
  ASSUME WatchInv, NEW h \in Hits, recordResult(h)
  PROVE  WatchInv'
<1>1. WatchTypeOK /\ WatchTypeOK'
  BY HitTyped DEF WatchInv
<1>2. todo # <<>> /\ stage = "record" /\ Saved(This.id)
      /\ UNCHANGED <<watch, out, kicks, started, todo, stage, owed, silence>>
  BY DEF recordResult, Checking
<1>3. PICK v \in Watches : v = This.id
  BY <1>2, FirstAlone
<1>4. 1 \in DOMAIN todo /\ This = todo[1] /\ (Of(v, 1) <=> This.current) /\ Saved(v) /\ Silent(v)
  BY <1>2, <1>3, FirstAlone DEF Of, WatchInv
<1>5. \A w \in Watches \ {v} : ~Of(w, 1)
  BY <1>3, <1>4 DEF Of
<1>6. /\ \A w \in Watches \ {v} : seen'[w] = seen[w]
      /\ seen[v] \subseteq seen'[v]
      /\ news' = news \/ (news' = news \cup {h} /\ h \notin seen[v])
  BY <1>1, <1>3 DEF recordResult, WatchTypeOK
<1>7. \/ UNCHANGED <<budget, early>>
      \/ /\ budget > 0 /\ h \notin seen[v]
         /\ early' = IF This.current THEN [early EXCEPT ![v] = @ \cup ({h} \cap owed[v])] ELSE early
  BY <1>3 DEF recordResult, MayDownload, BringUp
<1>8. UNCHANGED <<budget, early>> \/ todo[1].search.checked
  BY <1>2, <1>4, <1>7 DEF WatchInv, NoBudget
<1>9. \A w \in Watches \ {v} : early'[w] = early[w]
  BY <1>1, <1>7 DEF WatchTypeOK
<1>10. IdsApart' /\ NoBudget'
  BY <1>2, <1>8 DEF WatchInv, IdsApart, NoBudget
<1>11. ASSUME NEW w \in Watches \ {v} PROVE Silent(w)'
  <2>1. /\ Silent(w) /\ Saved(w)' = Saved(w)
        /\ early'[w] = early[w] /\ seen'[w] = seen[w] /\ ~Of(w, 1)
    BY <1>2, <1>5, <1>6, <1>9 DEF WatchInv, Saved
  <2>2. \A i \in DOMAIN todo' : (Of(w, i)' <=> Of(w, i)) /\ (Armed(i)' <=> Armed(i))
    BY <1>2 DEF Of, Armed
  <2>3. SilentAhead(w)' /\ SilentTried(w)'
    BY <1>2, <2>1, <2>2 DEF Silent, SilentAhead, SilentTried
  <2>4. SilentKept(w)' /\ SilentUnderWay(w)'
    BY <1>2, <2>1, <2>2 DEF Silent, SilentKept, SilentUnderWay
  <2> QED BY <2>3, <2>4 DEF Silent
<1>12. Silent(v)'
  <2>1. \A i \in DOMAIN todo' : (Of(v, i)' <=> Of(v, i)) /\ (Armed(i)' <=> Armed(i))
    BY <1>2 DEF Of, Armed
  <2>2. SilentAhead(v)'
    <3>1. silence[v] = "ahead" => early'[v] = {}
      BY <1>4, <1>7, <1>8 DEF Silent, SilentAhead
    <3> QED BY <1>2, <1>4, <2>1, <3>1 DEF Silent, SilentAhead, Saved
  <2>3. SilentTried(v)'
    BY <1>2, <1>4, <2>1 DEF Silent, SilentTried, Saved
  <2>4. SilentKept(v)'
    <3>1. silence[v] = "kept" => owed[v] \subseteq seen[v] /\ early[v] = {}
      BY <1>4 DEF Silent, SilentKept
    <3>2. silence[v] = "kept" => early'[v] = {}
      <4>1. CASE UNCHANGED early
        BY <3>1, <4>1
      <4>2. CASE h \notin seen[v] /\ early' = [early EXCEPT ![v] = @ \cup ({h} \cap owed[v])]
        BY <1>1, <3>1, <4>2 DEF WatchTypeOK
      <4> QED BY <1>7, <4>1, <4>2
    <3> QED BY <1>2, <1>4, <1>6, <2>1, <3>1, <3>2 DEF Silent, SilentKept, Saved
  <2>5. SilentUnderWay(v)'
    BY <1>2, <1>4, <1>8, <2>1 DEF Silent, SilentUnderWay
  <2> QED BY <2>2, <2>3, <2>4, <2>5 DEF Silent
<1> QED BY <1>1, <1>10, <1>11, <1>12 DEF WatchInv

LEMMA NotifyKeeps ==
  ASSUME WatchInv, notifyHits
  PROVE  WatchInv'
<1>1. WatchTypeOK /\ WatchTypeOK'
  BY WorkerTyped DEF WatchInv
<1>2. todo # <<>> /\ stage = "record" /\ Check(Tail(todo)) /\ UNCHANGED <<table, out, kicks, started, owed>>
  BY DEF notifyHits, Checking
<1>3. PICK v \in Watches : v = This.id
  BY <1>2, FirstAlone
<1>4. 1 \in DOMAIN todo /\ This = todo[1] /\ (Of(v, 1) <=> This.current) /\ Silent(v)
  BY <1>2, <1>3, FirstAlone DEF Of, WatchInv
<1>5. Tail(todo) \in Seq(Copies) /\ GoesOnWith(Tail(todo))
  BY <1>1, <1>2, OtherCopies DEF WatchInv, WatchTypeOK, IdsApart, GoesOnWith
<1>6. /\ \A i \in DOMAIN todo' : todo'[i].id # v
      /\ stage' = "arm" /\ news' = {}
  BY <1>1, <1>2, <1>3, OtherCopies, FirstAlone DEF Check, WatchTypeOK
<1>7. IdsApart' /\ NoBudget'
  BY <1>2, <1>5, CheckKeeps
<1>8. /\ early' = IF ~Baseline /\ This.current THEN [early EXCEPT ![v] = @ \cup (news \cap owed[v])]
                  ELSE early
      /\ silence' = IF NotedAll THEN [silence EXCEPT ![v] = "kept"] ELSE silence
  BY <1>3 DEF notifyHits, BringUp
<1>9. \A w \in Watches : ~Armed(1)' /\ Saved(w)' = Saved(w) /\ watch' = watch /\ seen' = seen
  BY <1>2, <1>6 DEF Armed, Saved, table
<1>10. ASSUME NEW w \in Watches \ {v} PROVE Silent(w)'
  <2>1. Silent(w) /\ early'[w] = early[w] /\ silence'[w] = silence[w]
    BY <1>1, <1>8 DEF WatchInv, WatchTypeOK
  <2>2. SilentAhead(w)' /\ SilentTried(w)'
    BY <1>2, <1>5, <1>9, <2>1, CheckKeeps DEF Silent, SilentAhead, SilentTried
  <2>3. SilentKept(w)' /\ SilentUnderWay(w)'
    BY <1>2, <1>6, <1>9, <2>1 DEF Silent, SilentKept, SilentUnderWay
  <2> QED BY <2>2, <2>3 DEF Silent
<1>11. Silent(v)'
  <2>1. \A i \in DOMAIN todo' : ~Of(v, i)'
    BY <1>6 DEF Of
  <2>2. CASE NotedAll
    <3>1. Baseline /\ Of(v, 1) /\ owed[v] \subseteq seen[v]
      BY <1>3, <1>4, <2>2 DEF NotedAll
    <3>2. silence'[v] = "kept" /\ early' = early
      BY <1>1, <1>8, <2>2, <3>1 DEF WatchTypeOK
    <3>3. early[v] = {}
      BY <1>2, <1>4, <3>1 DEF Silent, SilentUnderWay, Armed, Baseline
    <3> QED BY <1>2, <1>9, <2>1, <3>1, <3>2, <3>3
          DEF Silent, SilentAhead, SilentTried, SilentKept, SilentUnderWay
  <2>3. CASE ~NotedAll
    <3>1. silence'[v] = silence[v]
      BY <1>8, <2>3
    <3>2. SilentAhead(v)'
      <4>1. silence[v] = "ahead" => early' = early
        BY <1>4, <1>8 DEF Silent, SilentAhead, Baseline
      <4> QED BY <1>4, <1>9, <2>1, <3>1, <4>1 DEF Silent, SilentAhead
    <3>3. SilentKept(v)'
      <4>1. silence[v] = "kept" => early'[v] = {}
        <5>1. silence[v] = "kept" => early[v] = {} /\ (Of(v, 1) => news \cap owed[v] = {})
          BY <1>4 DEF Silent, SilentKept
        <5> QED BY <1>1, <1>4, <1>8, <5>1 DEF WatchTypeOK
      <4> QED BY <1>2, <1>4, <1>9, <2>1, <3>1, <4>1 DEF Silent, SilentKept
    <3>4. SilentTried(v)' /\ SilentUnderWay(v)'
      BY <1>4, <1>9, <2>1, <3>1 DEF Silent, SilentTried, SilentUnderWay
    <3> QED BY <3>2, <3>3, <3>4 DEF Silent
  <2> QED BY <2>2, <2>3
<1> QED BY <1>1, <1>7, <1>10, <1>11 DEF WatchInv

LEMMA WatchStepInv == WatchInv /\ [WatchNext]_watchVars => WatchInv'
<1> SUFFICES ASSUME WatchInv, [WatchNext]_watchVars PROVE WatchInv'
  OBVIOUS
<1>1. WatchTypeOK'
  BY WatchStepTyped DEF WatchInv
<1>2. ASSUME NEW w \in Watches, UserStep(w) PROVE WatchInv'
  BY <1>2, UserKeeps
<1>3. ASSUME NEW w \in Watches, BecomesDue(w) PROVE WatchInv'
  <2>1. \A v \in Watches : watch'[v].at = watch[v].at /\ watch'[v].search = watch[v].search
    BY <1>3 DEF BecomesDue, WatchInv, WatchTypeOK
  <2> QED BY <1>1, <1>3, <2>1, QuietKeeps DEF BecomesDue, WatchInv, NoBudget, passVars, history
<1>4. ASSUME NEW h \in Hits, recordResult(h) PROVE WatchInv'
  BY <1>4, RecordKeeps
<1>5. ASSUME NEW h \in Hits, MarkSeenFails(h) \/ Publish(h) PROVE WatchInv'
  <2>1. UNCHANGED <<watch, seen, todo, stage, news, budget, owed, silence, early>>
    BY <1>5 DEF MarkSeenFails, Publish, table, passVars, history
  <2> QED BY <1>1, <2>1, QuietKeeps DEF WatchInv, NoBudget
<1>6. CASE UNCHANGED watchVars
  <2>1. UNCHANGED <<watch, seen, todo, stage, news, budget, owed, silence, early>>
    BY <1>6 DEF watchVars, table, passVars, history
  <2> QED BY <1>1, <2>1, QuietKeeps DEF WatchInv, NoBudget
<1> QED BY <1>2, <1>3, <1>4, <1>5, <1>6, PassesKeep, MarkKeeps, SearchKeeps, NotifyKeeps DEF WatchNext

LEMMA InitWatchInv == WatchInit => WatchInv
<1> SUFFICES ASSUME WatchInit PROVE WatchInv
  OBVIOUS
<1>1. WatchTypeOK
  BY InitWatchTyped
<1>2. /\ DOMAIN todo = {}
      /\ \A w \in Watches : ~Saved(w) /\ early[w] = {} /\ silence[w] = "ahead"
  BY DEF WatchInit, Saved
<1>3. IdsApart /\ NoBudget /\ \A w \in Watches : Silent(w)
  BY <1>2 DEF IdsApart, NoBudget, Silent, SilentAhead, SilentTried, SilentKept, SilentUnderWay
<1> QED BY <1>1, <1>3 DEF WatchInv

LEMMA SilentIsQuiet == WatchInv => OldIsNoNews
<1> SUFFICES ASSUME WatchInv, NEW w \in Watches, early[w] # {}
             PROVE  silence[w] = "tried" /\ ~UnderWay(w)
  BY DEF OldIsNoNews
<1>1. Silent(w) /\ WatchTypeOK
  BY DEF WatchInv
<1>2. silence[w] = "tried"
  BY <1>1 DEF Silent, SilentAhead, SilentKept, WatchTypeOK
<1>3. ASSUME UnderWay(w) PROVE FALSE
  <2>1. 1 \in DOMAIN todo /\ This = todo[1]
    BY <1>3, FirstAlone DEF UnderWay, Checking
  <2> QED BY <1>1, <1>3, <2>1 DEF UnderWay, Checking, Baseline, Silent, SilentUnderWay, Of, Armed
<1> QED BY <1>2, <1>3

(* What was out when a query was saved is never brought up as news of it,  *)
(* unless its silent pass was cut short: the requests of the user, the     *)
(* kicks, the ticks, failures and restarts may come in any order.          *)
THEOREM SilenceKept == WatchSpec => []OldIsNoNews
<1>1. WatchSpec => []WatchInv
  BY InitWatchInv, WatchStepInv, PTL DEF WatchSpec
<1> QED BY <1>1, SilentIsQuiet, PTL
==============================================================================
