------------------------ MODULE DownloadWorkerProofs ------------------------
(* Safety of the download worker for any rows, groups, limits and number of *)
(* goroutines, and whatever the outside does.                               *)
EXTENDS DownloadWorker, FiniteSetTheorems, TLAPS

-----------------------------------------------------------------------------
(* Type correctness.  The torrent of a group is that of one of its members, *)
(* so groups and the members of an init must not be empty.                  *)

GroupsListed == \A g \in tick.todo : g # {}
InitsStarted == \A i \in InitIds : inits[i].pc # "free" => inits[i].members # {}
TypeInv      == Types /\ GroupsListed /\ InitsStarted

LEMMA GroupsOfRows ==
    ASSUME NEW S \in SUBSET Rows, NEW g \in GroupRows(S)
    PROVE  g # {} /\ g \subseteq S
BY DEF GroupRows, Siblings

LEMMA DrivenRows ==
    ASSUME NEW S \in SUBSET Rows, NEW g \in GroupRows(S)
    PROVE  Driven(g) # {} /\ Driven(g) \subseteq Rows
<1>1. CASE g \cap Whole = {}
  BY <1>1, GroupsOfRows DEF Driven
<1>2. CASE g \cap Whole # {}
  <2>1. PICK r \in g \cap Whole : r = CHOOSE s \in g \cap Whole : TRUE
    BY <1>2
  <2>2. Driven(g) = {r}
    BY <1>2, <2>1 DEF Driven
  <2>3. QED
    BY <2>1, <2>2, GroupsOfRows
<1>3. QED
  BY <1>1, <1>2

LEMMA TorrentOfGroup ==
    ASSUME NEW g \in SUBSET Rows, g # {}
    PROVE  groupTorrent(g) \in Torrents
<1>1. PICK r \in g : r = CHOOSE s \in g : TRUE
  OBVIOUS
<1>2. QED
  BY <1>1 DEF groupTorrent, Torrents

LEMMA TorrentsOfRows ==
    ASSUME NEW S \in SUBSET Rows
    PROVE  TorrentsOf(S) \subseteq Torrents
BY DEF TorrentsOf, Torrents

LEMMA UpdatedType ==
    ASSUME Types, NEW S, NEW from, NEW to \in Statuses
    PROVE  Updated(S, from, to) \in [Rows -> Statuses]
BY DEF Types, Updated

LEMMA MapsType ==
    ASSUME Types, NEW S
    PROVE  /\ clearPending(S) \in [Rows -> InitIds \cup {None}]
           /\ forgetRetries(S) \in [Rows -> Nat]
BY WorkerNumbers DEF Types, clearPending, forgetRetries

LEMMA CallType ==
    ASSUME Types, NEW name, Call(name)
    PROVE  name \in Calls /\ calls' \in 0 .. MaxCalls
BY WorkerNumbers DEF Types, Call

LEMMA FreeRecs ==
    IdleTick \in TickRecs /\ FreeInit \in InitRecs /\ FreeMove \in MoveRecs
BY DEF IdleTick, FreeInit, FreeMove, TickRecs, InitRecs, MoveRecs, TickPcs, InitPcs, MovePcs

LEMMA DispatchType ==
    ASSUME Types, NEW g \in SUBSET Rows, NEW group \in BOOLEAN, Dispatch(g, group)
    PROVE  moves' \in [MoveIds -> MoveRecs]
<1>1. PICK j \in FreeMoves :
        moves' = [moves EXCEPT ![j] =
                    [FreeMove EXCEPT !.pc = "move", !.members = g, !.group = group]]
  BY DEF Dispatch
<1>2. [FreeMove EXCEPT !.pc = "move", !.members = g, !.group = group] \in MoveRecs
  BY FreeRecs DEF MoveRecs, MovePcs
<1>3. QED
  BY <1>1, <1>2 DEF Types, FreeMoves

LEMMA TickKeepsType ==
    ASSUME TypeInv, TickStep
    PROVE  TypeInv'
<1> USE DEF TypeInv, GroupsListed, InitsStarted, storeVars, mapVars, clientVars, outside
<1>1. CASE tickUntrack
  <2> DEFINE active == Having("downloading")
             gone   == Vanished(active)
             dead   == Pending(Rows) \ active
             drops  == TorrentsOf(gone) \ TorrentsOf(active)
             listed == {Driven(g) : g \in GroupRows(active)}
  <2>1. active \in SUBSET Rows /\ gone \in SUBSET Rows
    BY DEF Having, Vanished, Types
  <2>2. drops \subseteq Torrents
    BY <2>1, TorrentsOfRows
  <2>3. \A g \in listed : g # {} /\ g \subseteq Rows
    BY <2>1, DrivenRows
  <2>4. tick' = [IdleTick EXCEPT !.pc = IF drops = {} THEN "groups" ELSE "drop",
                                 !.todo = listed, !.drops = drops]
    BY <1>1 DEF tickUntrack
  <2>5. tick' \in TickRecs /\ tick'.todo = listed
    BY <2>2, <2>3, <2>4 DEF IdleTick, TickRecs, TickPcs
  <2>6. tracked' \subseteq Rows /\ protected' \subseteq Torrents
    BY <1>1 DEF tickUntrack, unregisterLocked, Types
  <2>7. /\ pending' \in [Rows -> InitIds \cup {None}]
        /\ retries' \in [Rows -> Nat]
    BY <1>1, MapsType DEF tickUntrack
  <2>8. QED
    BY <1>1, <2>3, <2>5, <2>6, <2>7 DEF tickUntrack, Types
<1>2. CASE tickDrop
  <2>1. live' \subseteq Torrents
    BY <1>2 DEF tickDrop, dropTorrents, Types
  <2>2. tick' \in TickRecs /\ tick'.todo = tick.todo
    BY <1>2 DEF tickDrop, Types, TickRecs, TickPcs
  <2>3. QED
    BY <1>2, <2>1, <2>2 DEF tickDrop, Types
<1>3. ASSUME NEW g \in tick.todo,
             \/ StartInit(g) \/ AwaitInit(g) \/ adoptSiblings(g) \/ sampleGroup(g)
             \/ checkCompletion(g) \/ completeGroup(g)
      PROVE  TypeInv'
  <2>1. g \in SUBSET Rows /\ g # {}
    BY DEF Types, TickRecs
  <2>2. tick' \in TickRecs /\ \A h \in tick'.todo : h # {}
    <3>1. Reconciled(g)
      BY <1>3 DEF StartInit, AwaitInit, adoptSiblings, sampleGroup, checkCompletion,
                  completeGroup
    <3>2. QED
      BY <3>1 DEF Reconciled, Types, TickRecs
  <2>3. CASE StartInit(g)
    <3>1. PICK i \in FreeInits :
            /\ inits' = [inits EXCEPT ![i] =
                           [FreeInit EXCEPT !.pc = "resolve", !.members = g]]
            /\ pending' = [r \in Rows |-> IF r \in g THEN i ELSE pending[r]]
      BY <2>3 DEF StartInit
    <3>2. [FreeInit EXCEPT !.pc = "resolve", !.members = g] \in InitRecs
      BY <2>1, FreeRecs DEF InitRecs, InitPcs
    <3>3. i \in InitIds
      BY DEF FreeInits
    <3>4. pending' \in [Rows -> InitIds \cup {None}]
      BY <3>1, <3>3 DEF Types
    <3>5. inits' \in [InitIds -> InitRecs] /\ InitsStarted'
      BY <2>1, <3>1, <3>2, <3>3 DEF Types, FreeInit
    <3>6. QED
      BY <2>2, <2>3, <3>4, <3>5 DEF StartInit, Types
  <2>4. CASE AwaitInit(g)
    BY <2>2, <2>4 DEF AwaitInit, Types
  <2>5. CASE adoptSiblings(g)
    <3>1. retries' \in [Rows -> Nat]
      BY <2>5, MapsType DEF adoptSiblings
    <3>2. protected' \subseteq Torrents
      BY <2>1, <2>5, TorrentOfGroup DEF adoptSiblings, Types
    <3>3. QED
      BY <2>1, <2>2, <2>5, <3>1, <3>2 DEF adoptSiblings, Types
  <2>6. CASE sampleGroup(g)
    BY <2>2, <2>6 DEF sampleGroup, Types
  <2>7. CASE checkCompletion(g)
    <3>1. status' \in [Rows -> Statuses]
      BY <2>7, UpdatedType DEF checkCompletion, Statuses
    <3>2. moves' \in [MoveIds -> MoveRecs]
      BY <2>1, <2>7, DispatchType DEF checkCompletion
    <3>3. QED
      BY <2>1, <2>2, <2>7, <3>1, <3>2 DEF checkCompletion, Types
  <2>8. CASE completeGroup(g)
    <3>1. status' \in [Rows -> Statuses]
      BY <2>8, UpdatedType DEF completeGroup, Statuses
    <3>2. moves' \in [MoveIds -> MoveRecs]
      BY <2>1, <2>8, DispatchType DEF completeGroup, Types
    <3>3. QED
      BY <2>2, <2>8, <3>1, <3>2 DEF completeGroup, Types
  <2>9. QED
    BY <1>3, <2>3, <2>4, <2>5, <2>6, <2>7, <2>8
<1>4. ASSUME NEW victims \in SUBSET tracked, detectStalls(victims)
      PROVE  TypeInv'
  <2>1. \A g \in GroupRows(victims) : g # {} /\ g \subseteq Rows
    BY <1>4, GroupsOfRows DEF detectStalls, Types
  <2>2. tick' \in TickRecs /\ tick'.todo = GroupRows(victims)
    BY <1>4, <2>1 DEF detectStalls, Types, TickRecs, TickPcs
  <2>3. calls' \in 0 .. MaxCalls
    BY <1>4, CallType DEF detectStalls
  <2>4. QED
    BY <1>4, <2>1, <2>2, <2>3 DEF detectStalls, Types
<1>10. ASSUME NEW g \in tick.todo, DemoteGroup(g) \/ NoneDemoted(g) \/ untrackStalled(g)
       PROVE  TypeInv'
  <2>1. g \in SUBSET Rows /\ g # {}
    BY DEF Types, TickRecs
  <2>2. CASE DemoteGroup(g)
    <3>1. status' \in [Rows -> Statuses]
      BY <2>2, UpdatedType DEF DemoteGroup, Statuses
    <3>2. stalls' \in [Rows -> Nat]
      BY <2>2 DEF DemoteGroup, Types
    <3>3. tick' \in TickRecs /\ tick'.todo = tick.todo
      BY <2>1, <2>2 DEF DemoteGroup, Types, TickRecs, TickPcs
    <3>4. QED
      BY <2>2, <3>1, <3>2, <3>3 DEF DemoteGroup, Types
  <2>3. CASE NoneDemoted(g)
    <3>1. calls' \in 0 .. MaxCalls
      BY <2>3, CallType DEF NoneDemoted, Types
    <3>2. tick' \in TickRecs /\ \A h \in tick'.todo : h # {}
      BY <2>3 DEF NoneDemoted, Reconciled, Types, TickRecs
    <3>3. QED
      BY <2>3, <3>1, <3>2 DEF NoneDemoted, Types
  <2>4. CASE untrackStalled(g)
    <3>1. retries' \in [Rows -> Nat]
      BY <2>4, MapsType DEF untrackStalled
    <3>2. tick' \in TickRecs /\ \A h \in tick'.todo : h # {}
      BY <2>4 DEF untrackStalled, Types, TickRecs, TickPcs
    <3>3. QED
      BY <2>4, <3>1, <3>2 DEF untrackStalled, unregisterLocked, Types
  <2>5. QED
    BY <1>10, <2>2, <2>3, <2>4
<1>11. CASE pauseStalled
  <2>1. status' \in [Rows -> Statuses] /\ calls' \in 0 .. MaxCalls
    BY <1>11, UpdatedType, CallType DEF pauseStalled, Statuses, Types
  <2>2. tick' \in TickRecs /\ tick'.todo = tick.todo
    BY <1>11 DEF pauseStalled, Types, TickRecs, TickPcs
  <2>3. QED
    BY <1>11, <2>1, <2>2 DEF pauseStalled, Types
<1>5. CASE applySchedule
  <2>1. status' \in [Rows -> Statuses]
    BY <1>5 DEF applySchedule, Types, Statuses
  <2>2. tracked' \subseteq Rows /\ protected' \subseteq Torrents
    BY <1>5 DEF applySchedule, unregisterLocked, Types
  <2>3. /\ pending' \in [Rows -> InitIds \cup {None}]
        /\ retries' \in [Rows -> Nat]
    BY <1>5, MapsType DEF applySchedule
  <2>4. tick' \in TickRecs /\ tick'.todo = {}
    BY <1>5 DEF applySchedule, IdleTick, TickRecs, TickPcs
  <2>5. QED
    BY <1>5, <2>1, <2>2, <2>3, <2>4 DEF applySchedule, Types
<1>6. CASE sweepList
  <2>1. tick' \in TickRecs /\ tick'.todo = {}
    BY <1>6 DEF sweepList, IdleTick, TickRecs, TickPcs, Having
  <2>2. QED
    BY <1>6, <2>1 DEF sweepList, Types
<1>7. CASE sweepPrune
  <2>1. tick' \in TickRecs /\ tick'.todo = tick.todo
    BY <1>7 DEF sweepPrune, Stuck, Types, TickRecs, TickPcs
  <2>2. QED
    BY <1>7, <2>1 DEF sweepPrune, Types
<1>8. CASE sweepRescue
  <2>1. tick' \in TickRecs /\ tick'.todo = {}
    BY <1>8, FreeRecs DEF sweepRescue, IdleTick
  <2>2. status' \in [Rows -> Statuses]
    BY <1>8, UpdatedType DEF sweepRescue, Statuses
  <2>3. protected' \subseteq Torrents
    BY <1>8, TorrentsOfRows DEF sweepRescue, Types, TickRecs
  <2>4. QED
    BY <1>8, <2>1, <2>2, <2>3 DEF sweepRescue, Types
<1>9. QED
  BY <1>1, <1>2, <1>3, <1>4, <1>5, <1>6, <1>7, <1>8, <1>10, <1>11 DEF TickStep, StallStep

LEMMA SetInitType ==
    ASSUME TypeInv, NEW i \in InitIds, NEW s \in InitRecs, SetInit(i, s),
           s.pc # "free" => s.members # {}
    PROVE  inits' \in [InitIds -> InitRecs] /\ InitsStarted'
BY DEF TypeInv, Types, InitsStarted, SetInit

LEMMA InitKeepsType ==
    ASSUME TypeInv, NEW i \in InitIds, InitStep(i)
    PROVE  TypeInv'
<1> USE DEF TypeInv, GroupsListed, storeVars, mapVars, clientVars, outside
<1>1. inits[i] \in InitRecs /\ (inits[i].pc # "free" => inits[i].members # {})
  BY DEF Types, InitsStarted
<1>2. inits[i].pc # "free" => initTorrent(i) \in Torrents
  BY <1>1, TorrentOfGroup DEF initTorrent, InitRecs
<1>3. CASE resolve(i)
  <2>1. live' \subseteq Torrents /\ protected' \subseteq Torrents
    BY <1>2, <1>3 DEF resolve, Types
  <2>2. [inits[i] EXCEPT !.pc = "track", !.todo = inits[i].members] \in InitRecs
    BY <1>1 DEF InitRecs, InitPcs
  <2>3. inits' \in [InitIds -> InitRecs] /\ InitsStarted'
    BY <1>1, <1>3, <2>2, SetInitType DEF resolve, InitRecs
  <2>4. QED
    BY <1>3, <2>1, <2>3 DEF resolve, Types
<1>4. CASE promoteOrAbort(i)
  <2>1. (CHOOSE r \in inits[i].todo : TRUE) \in Rows
    BY <1>1, <1>4 DEF promoteOrAbort, InitRecs
  <2>2. tracked' \subseteq Rows /\ protected' \subseteq Torrents
    BY <1>4, <2>1 DEF promoteOrAbort, Types
  <2>3. retries' \in [Rows -> Nat]
    BY <1>4, MapsType DEF promoteOrAbort, Types
  <2>4. [inits[i] EXCEPT !.todo = {}] \in InitRecs
    BY <1>1 DEF InitRecs
  <2>5. inits' \in [InitIds -> InitRecs] /\ InitsStarted'
    BY <1>1, <1>4, <2>4, SetInitType DEF promoteOrAbort, InitRecs
  <2>6. QED
    BY <1>4, <2>2, <2>3, <2>5 DEF promoteOrAbort, Types
<1>5. ASSUME NEW r \in inits[i].todo, trackMember(i, r)
      PROVE  TypeInv'
  <2>1. r \in Rows
    BY <1>1 DEF InitRecs
  <2>2. tracked' \subseteq Rows /\ protected' \subseteq Torrents
    BY <1>2, <1>5, <2>1 DEF trackMember, Types
  <2>3. retries' \in [Rows -> Nat]
    BY <1>5, MapsType DEF trackMember, Types
  <2>4. [inits[i] EXCEPT !.todo = @ \ {r}] \in InitRecs
    BY <1>1 DEF InitRecs
  <2>5. inits' \in [InitIds -> InitRecs] /\ InitsStarted'
    BY <1>1, <1>5, <2>4, SetInitType DEF trackMember, InitRecs
  <2>6. QED
    BY <1>5, <2>2, <2>3, <2>5 DEF trackMember, Types
<1>6. CASE resolveFailed(i)
  <2>1. [inits[i] EXCEPT !.pc = "fail", !.todo = inits[i].members] \in InitRecs
    BY <1>1 DEF InitRecs, InitPcs
  <2>2. inits' \in [InitIds -> InitRecs] /\ InitsStarted'
    BY <1>1, <1>6, <2>1, SetInitType DEF resolveFailed, InitRecs
  <2>3. calls' \in 0 .. MaxCalls
    BY <1>6, CallType DEF resolveFailed
  <2>4. QED
    BY <1>6, <2>2, <2>3 DEF resolveFailed, Types
<1>7. ASSUME NEW r \in inits[i].todo, failOrRetry(i, r)
      PROVE  TypeInv'
  <2>1. r \in Rows
    BY <1>1 DEF InitRecs
  <2>2. retries' \in [Rows -> Nat]
    BY <1>7, <2>1 DEF failOrRetry, Types
  <2>3. PICK s \in InitRecs : SetInit(i, s) /\ s.members = inits[i].members /\ s.pc # "free"
    <3>1. /\ [inits[i] EXCEPT !.todo = @ \ {r}] \in InitRecs
          /\ [inits[i] EXCEPT !.pc = "spent", !.todo = @ \ {r}, !.failing = {r}] \in InitRecs
      BY <1>1, <2>1 DEF InitRecs, InitPcs
    <3>2. /\ [inits[i] EXCEPT !.todo = @ \ {r}].members = inits[i].members
          /\ [inits[i] EXCEPT !.todo = @ \ {r}].pc = inits[i].pc
          /\ LET s == [inits[i] EXCEPT !.pc = "spent", !.todo = @ \ {r}, !.failing = {r}]
             IN  s.members = inits[i].members /\ s.pc = "spent"
      BY <1>1 DEF InitRecs
    <3>3. QED
      BY <1>7, <3>1, <3>2 DEF failOrRetry
  <2>4. inits' \in [InitIds -> InitRecs] /\ InitsStarted'
    BY <1>1, <1>7, <2>3, SetInitType DEF failOrRetry
  <2>5. QED
    BY <1>7, <2>2, <2>4 DEF failOrRetry, Types
<1>8. ASSUME NEW r \in inits[i].failing, SetError(i, r)
      PROVE  TypeInv'
  <2>1. status' \in [Rows -> Statuses]
    BY <1>8, UpdatedType DEF SetError, Statuses
  <2>2. [inits[i] EXCEPT !.failing = @ \ {r}] \in InitRecs
    BY <1>1 DEF InitRecs
  <2>3. inits' \in [InitIds -> InitRecs] /\ InitsStarted'
    BY <1>1, <1>8, <2>2, SetInitType DEF SetError, InitRecs
  <2>4. QED
    BY <1>8, <2>1, <2>3 DEF SetError, Types
<1>11. CASE noFiles(i)
  <2>1. live' \subseteq Torrents
    BY <1>2, <1>11 DEF noFiles, Types
  <2>2. [inits[i] EXCEPT !.pc = "fail", !.failing = inits[i].members] \in InitRecs
    BY <1>1 DEF InitRecs, InitPcs
  <2>3. inits' \in [InitIds -> InitRecs] /\ InitsStarted'
    BY <1>1, <1>11, <2>2, SetInitType DEF noFiles, InitRecs
  <2>4. calls' \in 0 .. MaxCalls
    BY <1>11, CallType DEF noFiles
  <2>5. QED
    BY <1>11, <2>1, <2>3, <2>4 DEF noFiles, Types
<1>12. CASE deleteRetries(i)
  <2>1. retries' \in [Rows -> Nat]
    BY <1>12, MapsType DEF deleteRetries
  <2>2. [inits[i] EXCEPT !.pc = "fail"] \in InitRecs
    BY <1>1 DEF InitRecs, InitPcs
  <2>3. inits' \in [InitIds -> InitRecs] /\ InitsStarted'
    BY <1>1, <1>12, <2>2, SetInitType DEF deleteRetries, InitRecs
  <2>4. QED
    BY <1>12, <2>1, <2>3 DEF deleteRetries, Types
<1>9. CASE initExit(i)
  <2>1. pending' \in [Rows -> InitIds \cup {None}]
    BY <1>9, MapsType DEF initExit
  <2>2. inits' \in [InitIds -> InitRecs] /\ InitsStarted'
    BY <1>9, FreeRecs, SetInitType DEF initExit, FreeInit
  <2>3. QED
    BY <1>9, <2>1, <2>2 DEF initExit, Types
<1>10. QED
  BY <1>3, <1>4, <1>5, <1>6, <1>7, <1>8, <1>9, <1>11, <1>12 DEF InitStep

LEMMA MoveKeepsType ==
    ASSUME TypeInv, NEW j \in MoveIds, MoveStep(j)
    PROVE  TypeInv'
<1> USE DEF TypeInv, GroupsListed, InitsStarted, storeVars, mapVars, clientVars, outside
<1>1. moves[j] \in MoveRecs
  BY DEF Types
<1>2. ASSUME NEW s \in MoveRecs, SetMove(j, s)
      PROVE  moves' \in [MoveIds -> MoveRecs]
  BY <1>2 DEF SetMove, Types
<1>3. ASSUME NEW pc \in MovePcs, NEW n \in Nat
      PROVE  /\ [moves[j] EXCEPT !.pc = pc] \in MoveRecs
             /\ [moves[j] EXCEPT !.pc = pc, !.tries = n] \in MoveRecs
  BY <1>1 DEF MoveRecs
<1>4. CASE attemptCompletionMove(j)
  <2>1. moves' \in [MoveIds -> MoveRecs]
    BY <1>2, <1>3, <1>4 DEF attemptCompletionMove, MovePcs
  <2>2. QED
    BY <1>4, <2>1 DEF attemptCompletionMove, Types
<1>5. CASE storeCompleted(j)
  <2>1. moves' \in [MoveIds -> MoveRecs]
    BY <1>2, <1>3, <1>5 DEF storeCompleted, MovePcs
  <2>2. status' \in [Rows -> Statuses]
    BY <1>5, UpdatedType DEF storeCompleted, Statuses
  <2>3. QED
    BY <1>5, <2>1, <2>2 DEF storeCompleted, Types
<1>6. CASE storeFailed(j)
  <2>1. moves' \in [MoveIds -> MoveRecs]
    BY <1>2, <1>3, <1>6 DEF storeFailed, MovePcs
  <2>2. calls' \in 0 .. MaxCalls
    BY <1>6, CallType DEF storeFailed
  <2>3. QED
    BY <1>6, <2>1, <2>2 DEF storeFailed, Types
<1>7. CASE reseedAfterCompletion(j)
  <2>1. moves' \in [MoveIds -> MoveRecs]
    BY <1>2, <1>7, FreeRecs DEF reseedAfterCompletion
  <2>2. live' \subseteq Torrents /\ movingActive' \subseteq Rows
    BY <1>7 DEF reseedAfterCompletion, dropTorrents, clearMovingState, Types
  <2>3. QED
    BY <1>7, <2>1, <2>2 DEF reseedAfterCompletion, Types
<1>8. CASE attemptFailed(j)
  <2>1. moves[j].tries + 1 \in Nat
    BY <1>1 DEF MoveRecs
  <2>2. moves' \in [MoveIds -> MoveRecs]
    BY <1>2, <1>3, <1>8, <2>1 DEF attemptFailed, MovePcs
  <2>3. calls' \in 0 .. MaxCalls
    BY <1>8, CallType DEF attemptFailed
  <2>4. QED
    BY <1>8, <2>2, <2>3 DEF attemptFailed, Types
<1>9. CASE retryMove(j)
  <2>1. moves' \in [MoveIds -> MoveRecs]
    BY <1>2, <1>3, <1>9 DEF retryMove, MovePcs
  <2>2. QED
    BY <1>9, <2>1 DEF retryMove, Types
<1>10. ASSUME abandon(j), status' \in [Rows -> Statuses], calls' \in 0 .. MaxCalls
       PROVE  TypeInv'
  <2>1. moves' \in [MoveIds -> MoveRecs]
    BY <1>2, <1>10, FreeRecs DEF abandon
  <2>2. movingActive' \subseteq Rows /\ protected' \subseteq Torrents
    BY <1>10 DEF abandon, clearMovingState, unregisterLocked, Types
  <2>3. QED
    BY <1>10, <2>1, <2>2 DEF abandon, Types
<1>11. ASSUME recordFailure(j)
       PROVE  abandon(j) /\ status' \in [Rows -> Statuses]
  BY <1>11, UpdatedType DEF recordFailure, Statuses
<1>12. CASE giveUp(j)
  <2>1. CASE Call("moveFail") /\ recordFailure(j)
    BY <1>10, <1>11, <2>1, CallType
  <2>2. CASE Call("dbFail") /\ abandon(j) /\ UNCHANGED status
    BY <1>10, <2>2, CallType DEF Types
  <2>3. QED
    BY <1>12, <2>1, <2>2 DEF giveUp
<1>13. CASE abortOnStop(j)
  <2>1. CASE ~moves[j].group
    BY <1>10, <1>11, <1>13, <2>1 DEF abortOnStop, Types
  <2>2. CASE moves[j].group
    <3>1. moves' \in [MoveIds -> MoveRecs]
      BY <1>2, <1>13, <2>2, FreeRecs DEF abortOnStop
    <3>2. QED
      BY <1>13, <2>2, <3>1 DEF abortOnStop, Types
  <2>3. QED
    BY <2>1, <2>2
<1>14. QED
  BY <1>4, <1>5, <1>6, <1>7, <1>8, <1>9, <1>12, <1>13 DEF MoveStep

LEMMA OutsideKeepsType ==
    ASSUME TypeInv, Outside
    PROVE  TypeInv'
<1> USE DEF TypeInv, GroupsListed, InitsStarted, storeVars, mapVars, clientVars, outside
<1>1. ASSUME NEW r \in Rows,
             NEW name, NEW from, NEW to \in Statuses, Call(name), Write(r, from, to)
      PROVE  TypeInv'
  BY <1>1, CallType DEF Write, Types
<1>2. ASSUME NEW r \in Rows, Pause(r) \/ Requeue(r) \/ RequeueByID(r)
      PROVE  TypeInv'
  BY <1>1, <1>2 DEF Pause, Requeue, RequeueByID, Statuses
<1>3. ASSUME NEW r \in Rows, Recheck(r)
      PROVE  TypeInv'
  <2>1. live' \subseteq Torrents
    BY <1>3 DEF Recheck, Torrents, Types
  <2>2. calls' \in 0 .. MaxCalls
    BY <1>3, CallType DEF Recheck
  <2>3. QED
    BY <1>3, <2>1, <2>2 DEF Recheck, Types, Statuses
<1>4. ASSUME NEW r \in Rows, DeleteScoped(r)
      PROVE  TypeInv'
  <2>1. calls' \in 0 .. MaxCalls
    BY <1>4, CallType DEF DeleteScoped
  <2>2. QED
    BY <1>4, <2>1 DEF DeleteScoped, Types, Statuses
<1>5. ASSUME NEW r \in Rows, Remove(r)
      PROVE  TypeInv'
  <2>1. /\ pending' \in [Rows -> InitIds \cup {None}]
        /\ retries' \in [Rows -> Nat]
    BY <1>5, MapsType DEF Remove
  <2>2. live' \subseteq Torrents /\ protected' \subseteq Torrents
    BY <1>5 DEF Remove, unregisterLocked, Types
  <2>3. QED
    BY <1>5, <2>1, <2>2 DEF Remove, Types
<1>6. ASSUME NEW r \in Rows, Fetch(r)
      PROVE  TypeInv'
  BY <1>6 DEF Fetch, Types
<1>7. ASSUME NEW t \in Torrents, Evict(t)
      PROVE  TypeInv'
  <2>1. calls' \in 0 .. MaxCalls
    BY <1>7, CallType DEF Evict
  <2>2. QED
    BY <1>7, <2>1 DEF Evict, Types
<1>8. CASE Stop
  <2>1. calls' \in 0 .. MaxCalls
    BY <1>8, CallType DEF Stop
  <2>2. QED
    BY <1>8, <2>1 DEF Stop, Types
<1>9. CASE Restart
  <2>1. status' \in [Rows -> Statuses]
    BY <1>9 DEF Restart, Statuses, Types
  <2>2. protected' \subseteq Torrents
    <3>1. PICK orphans \in SUBSET Having("completed") : \E named \in SUBSET Rows :
            protected' = TorrentsOf(Having("moving") \cup orphans \cup
              (named \ (Having("failed") \cup Having("completed") \cup Having("deleted"))))
      BY <1>9 DEF Restart
    <3>2. Having("moving") \subseteq Rows /\ orphans \subseteq Rows
      BY DEF Having
    <3>3. QED
      BY <3>1, <3>2 DEF TorrentsOf, Torrents
  <2>3. calls' \in 0 .. MaxCalls
    BY <1>9, CallType DEF Restart
  <2>4. retries' \in [Rows -> Nat]
    BY <1>9, WorkerNumbers DEF Restart
  <2>5. tick' \in TickRecs /\ inits' \in [InitIds -> InitRecs] /\ moves' \in [MoveIds -> MoveRecs]
    BY <1>9, FreeRecs DEF Restart
  <2>6. GroupsListed' /\ InitsStarted'
    BY <1>9 DEF Restart, IdleTick, FreeInit
  <2>7. QED
    BY <1>9, <2>1, <2>2, <2>3, <2>4, <2>5, <2>6 DEF Restart, Types
<1>10. QED
  BY <1>2, <1>3, <1>4, <1>5, <1>6, <1>7, <1>8, <1>9 DEF Outside

LEMMA TypeInvHolds == Spec => []TypeInv
<1>1. Init => TypeInv
  <2> SUFFICES ASSUME Init PROVE TypeInv
    OBVIOUS
  <2>1. retries \in [Rows -> Nat] /\ calls \in 0 .. MaxCalls
    BY WorkerNumbers DEF Init, Begun
  <2>2. tick \in TickRecs /\ inits \in [InitIds -> InitRecs] /\ moves \in [MoveIds -> MoveRecs]
    BY FreeRecs DEF Init, Begun
  <2>3. GroupsListed /\ InitsStarted
    BY DEF Init, Begun, GroupsListed, InitsStarted, IdleTick, FreeInit
  <2>4. QED
    BY <2>1, <2>2, <2>3 DEF Init, Begun, TypeInv, Types, Statuses
<1>2. TypeInv /\ [Next]_vars => TypeInv'
  <2> SUFFICES ASSUME TypeInv, [Next]_vars PROVE TypeInv'
    OBVIOUS
  <2>1. CASE UNCHANGED vars
    BY <2>1 DEF vars, TypeInv, Types, GroupsListed, InitsStarted
  <2>2. QED
    BY <2>1, TickKeepsType, InitKeepsType, MoveKeepsType, OutsideKeepsType DEF Next
<1>3. QED
  BY <1>1, <1>2, PTL DEF Spec

\* Stalls: what their steps may write, and all that they leave alone.
LEMMA StallsWrite ==
    ASSUME TypeInv, StallStep
    PROVE  /\ UNCHANGED <<done, pending, removed, movingActive, live, inits, moves, stopping>>
           /\ tracked' \subseteq tracked
           /\ \A r \in Rows :
                /\ retries'[r] \in {retries[r], 0}
                /\ \/ status'[r] = status[r]
                   \/ status[r] = "downloading" /\ status'[r] = "queued"
                   \/ status[r] # "deleted" /\ status'[r] = "paused"
<1> USE DEF TypeInv, Types, storeVars, mapVars, clientVars, outside
<1>1. ASSUME NEW victims, detectStalls(victims)
      PROVE  UNCHANGED <<status, retries, tracked, done, pending, removed, movingActive,
                         live, inits, moves, stopping>>
  BY <1>1 DEF detectStalls
<1>2. ASSUME NEW g, NoneDemoted(g)
      PROVE  UNCHANGED <<status, retries, tracked, done, pending, removed, movingActive,
                         live, inits, moves, stopping>>
  BY <1>2 DEF NoneDemoted
<1>3. ASSUME NEW g, DemoteGroup(g)
      PROVE  /\ UNCHANGED <<retries, tracked, done, pending, removed, movingActive,
                            live, inits, moves, stopping>>
             /\ \A r \in Rows : \/ status'[r] = status[r]
                                \/ status[r] = "downloading" /\ status'[r] = "queued"
  BY <1>3 DEF DemoteGroup, Updated
<1>4. ASSUME NEW g, untrackStalled(g)
      PROVE  /\ UNCHANGED <<status, done, pending, removed, movingActive,
                            live, inits, moves, stopping>>
             /\ tracked' \subseteq tracked
             /\ \A r \in Rows : retries'[r] \in {retries[r], 0}
  BY <1>4 DEF untrackStalled, forgetRetries
<1>5. CASE pauseStalled
  <2>1. UNCHANGED <<retries, tracked, done, pending, removed, movingActive,
                    live, inits, moves, stopping>>
    BY <1>5 DEF pauseStalled
  <2>2. \A r \in Rows : \/ status'[r] = status[r]
                        \/ status[r] # "deleted" /\ status'[r] = "paused"
    BY <1>5 DEF pauseStalled, Updated, Stored
  <2>3. QED
    BY <2>1, <2>2
<1>6. QED
  BY <1>1, <1>2, <1>3, <1>4, <1>5 DEF StallStep

\* The other steps of a tick forget counts or leave them alone.
LEMMA TickCounts ==
    ASSUME TypeInv, TickStep
    PROVE  \A r \in Rows : retries'[r] \in {retries[r], 0}
<1> USE DEF mapVars, forgetRetries
<1>1. CASE StallStep
  BY <1>1, StallsWrite
<1>2. CASE tickUntrack \/ tickDrop \/ applySchedule \/ sweepList \/ sweepPrune \/ sweepRescue
  BY <1>2 DEF tickUntrack, tickDrop, applySchedule, sweepList, sweepPrune, sweepRescue
<1>3. ASSUME NEW g, \/ StartInit(g) \/ AwaitInit(g) \/ adoptSiblings(g) \/ sampleGroup(g)
                    \/ checkCompletion(g) \/ completeGroup(g)
      PROVE  \A r \in Rows : retries'[r] \in {retries[r], 0}
  BY <1>3
     DEF StartInit, AwaitInit, adoptSiblings, sampleGroup, checkCompletion, completeGroup
<1>4. QED
  BY <1>1, <1>2, <1>3 DEF TickStep

\* An init begins in a free slot, and no step of a tick touches one that runs.
LEMMA TickLeavesInits ==
    ASSUME TypeInv, TickStep
    PROVE  \A i \in InitIds : inits[i].pc # "free" => inits'[i] = inits[i]
<1> USE DEF TypeInv, Types
<1>1. CASE StallStep
  BY <1>1, StallsWrite
<1>2. CASE tickUntrack \/ tickDrop \/ applySchedule \/ sweepList \/ sweepPrune \/ sweepRescue
  BY <1>2 DEF tickUntrack, tickDrop, applySchedule, sweepList, sweepPrune, sweepRescue
<1>3. ASSUME NEW g, \/ AwaitInit(g) \/ adoptSiblings(g) \/ sampleGroup(g)
                    \/ checkCompletion(g) \/ completeGroup(g)
      PROVE  UNCHANGED inits
  BY <1>3 DEF AwaitInit, adoptSiblings, sampleGroup, checkCompletion, completeGroup
<1>4. ASSUME NEW g, StartInit(g)
      PROVE  \A i \in InitIds : inits[i].pc # "free" => inits'[i] = inits[i]
  BY <1>4 DEF StartInit, FreeInits
<1>5. QED
  BY <1>1, <1>2, <1>3, <1>4 DEF TickStep

\* What charging a failure makes of the init: it goes on, or holds the row
\* whose count reached the limit.
LEMMA FailureCharged ==
    ASSUME Types, NEW i \in InitIds, NEW r, failOrRetry(i, r)
    PROVE  \E s : /\ SetInit(i, s) /\ s.members = inits[i].members
                  /\ s.todo = inits[i].todo \ {r}
                  /\ \/ s.pc = "fail" /\ s.failing = inits[i].failing
                     \/ s.pc = "spent" /\ s.failing = {r}
<1> DEFINE on    == [inits[i] EXCEPT !.todo = @ \ {r}]
           spent == [inits[i] EXCEPT !.pc = "spent", !.todo = @ \ {r}, !.failing = {r}]
<1>1. inits[i] \in InitRecs /\ inits[i].pc = "fail"
  BY DEF Types, failOrRetry
<1>2. /\ on.members = inits[i].members /\ on.todo = inits[i].todo \ {r}
      /\ on.pc = "fail" /\ on.failing = inits[i].failing
  BY <1>1 DEF InitRecs
<1>3. /\ spent.members = inits[i].members /\ spent.todo = inits[i].todo \ {r}
      /\ spent.pc = "spent" /\ spent.failing = {r}
  BY <1>1 DEF InitRecs
<1>4. SetInit(i, on) \/ SetInit(i, spent)
  BY DEF failOrRetry
<1> HIDE DEF on, spent
<1>5. QED
  BY <1>2, <1>3, <1>4

\* A count grows when a failure is charged, and the init that reaches the limit
\* holds it until it has forgotten it.
LEMMA InitKeepsCounts ==
    ASSUME TypeInv, CountsSpent, NEW i \in InitIds, InitStep(i)
    PROVE  CountsSpent'
<1> USE DEF TypeInv, Types
<1>1. /\ inits \in [InitIds -> InitRecs] /\ retries \in [Rows -> Nat]
      /\ MaxInitRetries \in Nat /\ 0 < MaxInitRetries
  BY WorkerNumbers
<1>2. ASSUME NEW s, SetInit(i, s)
      PROVE  inits'[i] = s /\ \A k \in InitIds \ {i} : inits'[k] = inits[k]
  BY <1>1, <1>2 DEF SetInit
<1>3. ASSUME inits[i].pc # "spent", NEW s, SetInit(i, s),
             \A r \in Rows : retries'[r] \in {retries[r], 0}
      PROVE  CountsSpent'
  BY <1>1, <1>2, <1>3 DEF CountsSpent
<1>4. CASE resolve(i) \/ noFiles(i) \/ resolveFailed(i) \/ initExit(i)
  <2>1. /\ inits[i].pc # "spent" /\ UNCHANGED retries
        /\ \E s : SetInit(i, s)
    BY <1>4 DEF resolve, noFiles, resolveFailed, initExit, mapVars
  <2>2. QED
    BY <1>3, <2>1
<1>5. CASE promoteOrAbort(i)
  <2>1. /\ inits[i].pc # "spent"
        /\ \E s : SetInit(i, s)
        /\ \A r \in Rows : retries'[r] \in {retries[r], 0}
    BY <1>5 DEF promoteOrAbort, forgetRetries
  <2>2. QED
    BY <1>3, <2>1
<1>6. ASSUME NEW r, trackMember(i, r) \/ SetError(i, r)
      PROVE  CountsSpent'
  <2>1. /\ inits[i].pc # "spent"
        /\ \E s : SetInit(i, s)
        /\ \A q \in Rows : retries'[q] \in {retries[q], 0}
    BY <1>6 DEF trackMember, SetError, forgetRetries, mapVars
  <2>2. QED
    BY <1>3, <2>1
<1>7. CASE deleteRetries(i)
  <2>1. \A k \in InitIds \ {i} : inits'[k] = inits[k]
    BY <1>2, <1>7 DEF deleteRetries
  <2>2. \A r \in Rows : retries'[r] = IF r \in inits[i].failing THEN 0 ELSE retries[r]
    BY <1>7 DEF deleteRetries, forgetRetries
  <2>3. QED
    BY <1>1, <2>1, <2>2 DEF CountsSpent
<1>8. ASSUME NEW r \in inits[i].todo, failOrRetry(i, r)
      PROVE  CountsSpent'
  <2>1. inits[i].pc = "fail" /\ inits[i] \in InitRecs /\ r \in Rows
    BY <1>1, <1>8 DEF failOrRetry, InitRecs
  <2>2. CASE pending[r] = None
    BY <1>3, <1>8, <2>1, <2>2 DEF failOrRetry
  <2>3. CASE pending[r] # None
    <3>1. \A q \in Rows : retries'[q] = IF q = r THEN retries[r] + 1 ELSE retries[q]
      BY <1>1, <1>8, <2>3 DEF failOrRetry
    <3>2. \A k \in InitIds \ {i} : inits'[k] = inits[k]
      BY <1>2, <1>8, <2>3 DEF failOrRetry
    <3>3. CASE capped(r)
      <4>1. inits'[i].pc = "spent" /\ inits'[i].failing = {r}
        <5> DEFINE s == [inits[i] EXCEPT !.pc = "spent", !.todo = @ \ {r}, !.failing = {r}]
        <5>1. SetInit(i, s)
          BY <1>8, <2>3, <3>3 DEF failOrRetry
        <5>2. s.pc = "spent" /\ s.failing = {r}
          BY <2>1 DEF InitRecs
        <5> HIDE DEF s
        <5>3. QED
          BY <1>2, <5>1, <5>2
      <4>2. QED
        BY <2>1, <3>1, <3>2, <4>1 DEF CountsSpent
    <3>4. CASE ~capped(r)
      BY <1>1, <2>1, <3>1, <3>2, <3>4 DEF CountsSpent, capped
    <3>5. QED
      BY <3>3, <3>4
  <2>4. QED
    BY <2>2, <2>3
<1>9. QED
  BY <1>4, <1>5, <1>6, <1>7, <1>8 DEF InitStep

(* Type correctness, and the counts: a failed attempt brings a row's count  *)
(* to its limit only in the hand of an init that goes on to forget it, also *)
(* when several inits of the row, canceled ones among them, charge it.      *)
THEOREM TypeCorrect == Spec => []TypeOK
<1>1. Init => CountsSpent
  BY WorkerNumbers DEF Init, Begun, CountsSpent
<1>2. TypeInv /\ CountsSpent /\ [Next]_vars => CountsSpent'
  <2> SUFFICES ASSUME TypeInv, CountsSpent, [Next]_vars PROVE CountsSpent'
    OBVIOUS
  <2>1. CASE TickStep
    <3>1. retries \in [Rows -> Nat] /\ MaxInitRetries \in Nat /\ 0 < MaxInitRetries
      BY WorkerNumbers DEF TypeInv, Types
    <3>2. QED
      BY <2>1, <3>1, TickCounts, TickLeavesInits DEF CountsSpent
  <2>2. ASSUME NEW j \in MoveIds, MoveStep(j) PROVE CountsSpent'
    <3>1. UNCHANGED <<retries, inits>>
      BY <2>2 DEF MoveStep, attemptCompletionMove, storeCompleted, storeFailed,
         reseedAfterCompletion, attemptFailed, retryMove, giveUp, abortOnStop,
         recordFailure, abandon, mapVars
    <3>2. QED
      BY <3>1 DEF CountsSpent
  <2>3. CASE Outside
    <3>1. ASSUME NEW r \in Rows, Remove(r) PROVE CountsSpent'
      BY <3>1, WorkerNumbers DEF Remove, forgetRetries, CountsSpent
    <3>2. CASE Restart
      BY <3>2, WorkerNumbers DEF Restart, CountsSpent
    <3>3. CASE Stop \/ \E t \in Torrents : Evict(t)
      BY <3>3 DEF Stop, Evict, mapVars, CountsSpent
    <3>4. ASSUME NEW r \in Rows, Pause(r) \/ Requeue(r) \/ RequeueByID(r) \/ Recheck(r)
                                 \/ DeleteScoped(r) \/ Fetch(r)
          PROVE  UNCHANGED <<retries, inits>>
      BY <3>4 DEF Pause, Requeue, RequeueByID, Write, Recheck, DeleteScoped, Fetch, mapVars
    <3>5. QED
      BY <2>3, <3>1, <3>2, <3>3, <3>4 DEF Outside, CountsSpent
  <2>4. CASE UNCHANGED vars
    BY <2>4 DEF vars, CountsSpent
  <2>5. QED
    BY <2>1, <2>2, <2>3, <2>4, InitKeepsCounts DEF Next
<1>3. TypeInv /\ CountsSpent => TypeOK
  BY DEF TypeInv, TypeOK
<1>4. QED
  BY <1>1, <1>2, <1>3, TypeInvHolds, PTL DEF Spec

-----------------------------------------------------------------------------
(* Pending entries.  PendingHasInit is inductive: only StartInit makes an   *)
(* entry, for a goroutine it starts, and a goroutine that ends clears the   *)
(* entries of all its members.                                              *)

LEMMA PendingKept ==
    ASSUME PendingHasInit,
           \A r \in Rows : pending'[r] \in {pending[r], None},
           \A r \in Rows : pending'[r] # None =>
               /\ inits'[pending[r]].pc # "free"
               /\ inits'[pending[r]].members = inits[pending[r]].members
    PROVE  PendingHasInit'
BY DEF PendingHasInit

LEMMA PendingUnchanged ==
    ASSUME PendingHasInit, UNCHANGED <<pending, inits>>
    PROVE  PendingHasInit'
BY DEF PendingHasInit

LEMMA TickKeepsPending ==
    ASSUME TypeInv, PendingHasInit, TickStep
    PROVE  PendingHasInit'
<1> USE DEF TypeInv, mapVars
<1>1. ASSUME NEW S, pending' = clearPending(S), UNCHANGED inits
      PROVE  PendingHasInit'
  BY <1>1 DEF PendingHasInit, clearPending
<1>2. CASE tickUntrack
  BY <1>1, <1>2 DEF tickUntrack
<1>3. CASE applySchedule
  BY <1>1, <1>3 DEF applySchedule
<1>4. ASSUME NEW g \in tick.todo, StartInit(g)
      PROVE  PendingHasInit'
  <2>1. PICK i \in FreeInits :
          /\ inits' = [inits EXCEPT ![i] =
                         [FreeInit EXCEPT !.pc = "resolve", !.members = g]]
          /\ pending' = [r \in Rows |-> IF r \in g THEN i ELSE pending[r]]
    BY <1>4 DEF StartInit
  <2>2. i \in InitIds /\ inits[i].pc = "free"
    BY DEF FreeInits
  <2>3. ASSUME NEW r \in Rows, pending'[r] # None
        PROVE  inits'[pending'[r]].pc # "free" /\ r \in inits'[pending'[r]].members
    <3>1. CASE r \in g
      BY <2>1, <2>2, <3>1 DEF Types, FreeInit
    <3>2. CASE r \notin g
      <4>1. pending'[r] = pending[r] /\ pending[r] # i
        BY <2>1, <2>2, <2>3, <3>2 DEF PendingHasInit
      <4>2. pending[r] \in InitIds
        BY <2>3, <4>1 DEF Types
      <4>3. inits'[pending[r]] = inits[pending[r]]
        BY <2>1, <4>1, <4>2 DEF Types
      <4>4. QED
        BY <2>3, <4>1, <4>3 DEF PendingHasInit
    <3>3. QED
      BY <3>1, <3>2
  <2>4. QED
    BY <2>3 DEF PendingHasInit
<1>5. CASE tickDrop \/ sweepList \/ sweepPrune \/ sweepRescue
  BY <1>5, PendingUnchanged DEF tickDrop, sweepList, sweepPrune, sweepRescue
<1>6. ASSUME NEW g \in tick.todo,
             AwaitInit(g) \/ adoptSiblings(g) \/ sampleGroup(g)
             \/ checkCompletion(g) \/ completeGroup(g)
      PROVE  PendingHasInit'
  BY <1>6, PendingUnchanged
     DEF AwaitInit, adoptSiblings, sampleGroup, checkCompletion, completeGroup
<1>7. CASE StallStep
  BY <1>7, PendingUnchanged, StallsWrite
<1>8. QED
  BY <1>2, <1>3, <1>4, <1>5, <1>6, <1>7 DEF TickStep

LEMMA InitKeepsPending ==
    ASSUME TypeInv, PendingHasInit, NEW i \in InitIds, InitStep(i)
    PROVE  PendingHasInit'
<1> USE DEF TypeInv, mapVars
<1>1. inits \in [InitIds -> InitRecs] /\ \A r \in Rows : pending[r] \in InitIds \cup {None}
  BY DEF Types
<1>2. ASSUME NEW s, SetInit(i, s), s.pc # "free", s.members = inits[i].members,
             UNCHANGED pending
      PROVE  PendingHasInit'
  BY <1>1, <1>2, PendingKept DEF SetInit, PendingHasInit
<1>3. CASE resolve(i)
  BY <1>1, <1>2, <1>3 DEF resolve, InitRecs
<1>4. CASE promoteOrAbort(i)
  BY <1>1, <1>2, <1>4 DEF promoteOrAbort, InitRecs
<1>5. ASSUME NEW r \in inits[i].todo, trackMember(i, r)
      PROVE  PendingHasInit'
  BY <1>1, <1>2, <1>5 DEF trackMember, InitRecs
<1>6. CASE resolveFailed(i)
  BY <1>1, <1>2, <1>6 DEF resolveFailed, InitRecs
<1>7. ASSUME NEW r \in inits[i].todo, failOrRetry(i, r)
      PROVE  PendingHasInit'
  <2>1. PICK s : SetInit(i, s) /\ s.pc # "free" /\ s.members = inits[i].members
    BY <1>7, FailureCharged
  <2>2. QED
    BY <1>2, <1>7, <2>1 DEF failOrRetry
<1>8. ASSUME NEW r \in inits[i].failing, SetError(i, r)
      PROVE  PendingHasInit'
  BY <1>1, <1>2, <1>8 DEF SetError, InitRecs
<1>11. CASE noFiles(i) \/ deleteRetries(i)
  BY <1>1, <1>2, <1>11 DEF noFiles, deleteRetries, InitRecs
<1>9. CASE initExit(i)
  <2>1. ASSUME NEW r \in Rows, pending'[r] # None
        PROVE  pending'[r] = pending[r] /\ pending[r] # i
    BY <1>9, <2>1 DEF initExit, clearPending, PendingHasInit
  <2>2. \A k \in InitIds : k # i => inits'[k] = inits[k]
    BY <1>1, <1>9 DEF initExit, SetInit
  <2>3. QED
    BY <1>1, <2>1, <2>2 DEF PendingHasInit
<1>10. QED
  BY <1>3, <1>4, <1>5, <1>6, <1>7, <1>8, <1>9, <1>11 DEF InitStep

(* A pending entry belongs to a goroutine that will clear it, so no group   *)
(* waits for an init that is not there (reconcileGroup returns as long as   *)
(* the entry exists).                                                       *)
THEOREM PendingOwned == Spec => []PendingHasInit
<1>1. Init => PendingHasInit
  BY DEF Init, Begun, PendingHasInit
<1>2. TypeInv /\ PendingHasInit /\ [Next]_vars => PendingHasInit'
  <2> SUFFICES ASSUME TypeInv, PendingHasInit, [Next]_vars PROVE PendingHasInit'
    OBVIOUS
  <2> USE DEF mapVars
  <2>1. ASSUME NEW j \in MoveIds, MoveStep(j) PROVE PendingHasInit'
    <3>1. UNCHANGED <<pending, inits>>
      BY <2>1 DEF MoveStep, attemptCompletionMove, storeCompleted, storeFailed,
         reseedAfterCompletion, attemptFailed, retryMove, giveUp, abortOnStop,
         recordFailure, abandon
    <3>2. QED
      BY <3>1, PendingUnchanged
  <2>2. CASE Outside
    <3>1. ASSUME NEW r \in Rows, Remove(r) PROVE PendingHasInit'
      BY <3>1 DEF Remove, clearPending, PendingHasInit
    <3>2. CASE Restart
      BY <3>2 DEF Restart, PendingHasInit
    <3>3. ASSUME NEW r \in Rows, Pause(r) \/ Requeue(r) \/ RequeueByID(r) \/ Recheck(r)
                                 \/ DeleteScoped(r) \/ Fetch(r)
          PROVE  PendingHasInit'
      BY <3>3, PendingUnchanged
         DEF Pause, Requeue, RequeueByID, Write, Recheck, DeleteScoped, Fetch
    <3>4. ASSUME NEW t \in Torrents, Evict(t) PROVE PendingHasInit'
      BY <3>4, PendingUnchanged DEF Evict
    <3>5. CASE Stop
      BY <3>5, PendingUnchanged DEF Stop
    <3>6. QED
      BY <2>2, <3>1, <3>2, <3>3, <3>4, <3>5 DEF Outside
  <2>3. CASE UNCHANGED vars
    BY <2>3, PendingUnchanged DEF vars
  <2>4. QED
    BY <2>1, <2>2, <2>3, TickKeepsPending, InitKeepsPending DEF Next
<1>3. QED
  BY <1>1, <1>2, TypeInvHolds, PTL DEF Spec

-----------------------------------------------------------------------------
(* Dispatch records.                                                        *)

LEMMA NoMoveInTick ==
    ASSUME NEW g, StartInit(g) \/ AwaitInit(g) \/ adoptSiblings(g) \/ sampleGroup(g)
    PROVE  UNCHANGED <<status, done, movingActive, moves, stopping>>
BY DEF StartInit, AwaitInit, adoptSiblings, sampleGroup, storeVars, mapVars, outside

LEMMA NoMoveInInit ==
    ASSUME NEW i \in InitIds, InitStep(i)
    PROVE  UNCHANGED <<done, movingActive, moves, stopping>>
BY DEF InitStep, resolve, promoteOrAbort, noFiles, resolveFailed, deleteRetries,
       SetError, initExit, trackMember,
       failOrRetry, mapVars, outside

LEMMA DispatchFree ==
    ASSUME Types, NEW g, NEW group, Dispatch(g, group)
    PROVE  \E j \in MoveIds :
             /\ moves[j].pc = "free"
             /\ moves'[j].pc = "move" /\ moves'[j].members = g /\ moves'[j].group = group
             /\ \A k \in MoveIds \ {j} : moves'[k] = moves[k]
<1>1. PICK j \in FreeMoves :
        moves' = [moves EXCEPT ![j] =
                    [FreeMove EXCEPT !.pc = "move", !.members = g, !.group = group]]
  BY DEF Dispatch
<1>2. QED
  BY <1>1 DEF Types, FreeMoves, FreeMove

LEMMA RecordsKept ==
    ASSUME DispatchHasMove, movingActive' \subseteq movingActive,
           \A k \in MoveIds : moves[k].pc # "free" /\ ~moves[k].group =>
               \/ /\ moves'[k].pc # "free" /\ ~moves'[k].group
                  /\ moves'[k].members = moves[k].members
               \/ movingActive' \cap moves[k].members = {}
    PROVE  DispatchHasMove'
<1>1. ASSUME NEW r \in movingActive'
      PROVE  \E k \in MoveIds : /\ moves'[k].pc # "free" /\ ~moves'[k].group
                                /\ moves'[k].members = {r}
  <2>1. PICK k \in MoveIds : moves[k].pc # "free" /\ ~moves[k].group /\ moves[k].members = {r}
    BY DEF DispatchHasMove
  <2>2. QED
    BY <2>1
<1>2. QED
  BY <1>1 DEF DispatchHasMove

LEMMA MoveKeepsRecords ==
    ASSUME TypeInv, DispatchHasMove, NEW j \in MoveIds, MoveStep(j)
    PROVE  DispatchHasMove'
<1> USE DEF TypeInv, mapVars
<1>1. moves \in [MoveIds -> MoveRecs]
  BY DEF Types
<1>2. ASSUME NEW s, SetMove(j, s), s.pc # "free", s.members = moves[j].members,
             s.group = moves[j].group, UNCHANGED movingActive
      PROVE  DispatchHasMove'
  BY <1>1, <1>2, RecordsKept DEF SetMove
<1>3. CASE attemptCompletionMove(j)
  BY <1>1, <1>2, <1>3 DEF attemptCompletionMove, MoveRecs
<1>4. CASE storeCompleted(j)
  BY <1>1, <1>2, <1>4 DEF storeCompleted, MoveRecs
<1>5. CASE storeFailed(j)
  BY <1>1, <1>2, <1>5 DEF storeFailed, MoveRecs
<1>6. CASE attemptFailed(j)
  <2>1. PICK n : SetMove(j, [moves[j] EXCEPT !.pc = "backoff", !.tries = n])
    BY <1>6 DEF attemptFailed
  <2>2. QED
    BY <1>1, <1>2, <1>6, <2>1 DEF attemptFailed, MoveRecs
<1>7. CASE retryMove(j)
  BY <1>1, <1>2, <1>7 DEF retryMove, MoveRecs
<1>8. ASSUME SetMove(j, FreeMove), movingActive' = clearMovingState(j)
      PROVE  DispatchHasMove'
  <2>1. \A k \in MoveIds : k # j => moves'[k] = moves[k]
    BY <1>1, <1>8 DEF SetMove
  <2>2. movingActive' \subseteq movingActive
    BY <1>8 DEF clearMovingState
  <2>3. ~moves[j].group => movingActive' \cap moves[j].members = {}
    BY <1>8 DEF clearMovingState
  <2>4. QED
    BY <2>1, <2>2, <2>3, RecordsKept
<1>9. CASE reseedAfterCompletion(j)
  BY <1>8, <1>9 DEF reseedAfterCompletion
<1>10. CASE giveUp(j)
  BY <1>8, <1>10 DEF giveUp, recordFailure, abandon
<1>11. CASE abortOnStop(j)
  BY <1>8, <1>11 DEF abortOnStop, recordFailure, abandon, clearMovingState
<1>12. QED
  BY <1>3, <1>4, <1>5, <1>6, <1>7, <1>9, <1>10, <1>11 DEF MoveStep

LEMMA TickKeepsRecords ==
    ASSUME TypeInv, DispatchHasMove, TickStep
    PROVE  DispatchHasMove'
<1> USE DEF TypeInv, mapVars
<1>1. ASSUME NEW g \in tick.todo, checkCompletion(g)
      PROVE  DispatchHasMove'
  <2>1. Dispatch(g, FALSE) /\ movingActive' = movingActive \cup g /\ Cardinality(g) = 1
    BY <1>1 DEF checkCompletion
  <2>2. \A r \in g : g = {r}
    <3>1. IsFiniteSet(g)
      BY RowsAssumption, FS_Subset DEF Types, TickRecs
    <3>2. QED
      BY <2>1, <3>1, FS_Singleton
  <2>3. PICK j \in MoveIds :
          /\ moves[j].pc = "free"
          /\ moves'[j].pc = "move" /\ moves'[j].members = g /\ ~moves'[j].group
          /\ \A k \in MoveIds \ {j} : moves'[k] = moves[k]
    <3>1. PICK b \in BOOLEAN : Dispatch(g, b) /\ ~b
      BY <2>1
    <3>2. QED
      BY <3>1, DispatchFree
  <2>4. ASSUME NEW r \in movingActive'
        PROVE  \E k \in MoveIds : /\ moves'[k].pc # "free" /\ ~moves'[k].group
                                  /\ moves'[k].members = {r}
    <3>1. CASE r \in g
      BY <2>2, <2>3, <3>1
    <3>2. CASE r \notin g
      <4>1. PICK k \in MoveIds : moves[k].pc # "free" /\ ~moves[k].group /\ moves[k].members = {r}
        BY <2>1, <3>2 DEF DispatchHasMove
      <4>2. QED
        BY <2>3, <4>1
    <3>3. QED
      BY <3>1, <3>2
  <2>5. QED
    BY <2>4 DEF DispatchHasMove
<1>2. ASSUME NEW g \in tick.todo, completeGroup(g)
      PROVE  DispatchHasMove'
  <2>1. UNCHANGED movingActive
    BY <1>2 DEF completeGroup
  <2>2. CASE UNCHANGED moves
    BY <2>1, <2>2 DEF DispatchHasMove
  <2>3. CASE ~UNCHANGED moves
    <3>1. PICK S : Dispatch(S, TRUE)
      BY <1>2, <2>3 DEF completeGroup
    <3>2. QED
      BY <2>1, <3>1, DispatchFree, RecordsKept
  <2>4. QED
    BY <2>2, <2>3
<1>3. ASSUME NEW g \in tick.todo,
             StartInit(g) \/ AwaitInit(g) \/ adoptSiblings(g) \/ sampleGroup(g)
      PROVE  DispatchHasMove'
  BY <1>3, NoMoveInTick DEF DispatchHasMove
<1>4. CASE tickUntrack \/ tickDrop \/ applySchedule \/ sweepList \/ sweepPrune \/ sweepRescue
  BY <1>4, RecordsKept
     DEF tickUntrack, tickDrop, applySchedule, sweepList, sweepPrune, sweepRescue
<1>5. CASE StallStep
  BY <1>5, RecordsKept, StallsWrite
<1>6. QED
  BY <1>1, <1>2, <1>3, <1>4, <1>5 DEF TickStep

(* A recorded dispatch belongs to a running single-row move that will clear *)
(* it, so the sweep never passes over a row that nobody moves.              *)
THEOREM DispatchOwned == Spec => []DispatchHasMove
<1>1. Init => DispatchHasMove
  BY DEF Init, Begun, DispatchHasMove
<1>2. TypeInv /\ DispatchHasMove /\ [Next]_vars => DispatchHasMove'
  <2> SUFFICES ASSUME TypeInv, DispatchHasMove, [Next]_vars PROVE DispatchHasMove'
    OBVIOUS
  <2>1. ASSUME NEW i \in InitIds, InitStep(i) PROVE DispatchHasMove'
    BY <2>1, NoMoveInInit DEF DispatchHasMove
  <2>2. CASE Outside
    BY <2>2 DEF Outside, Pause, Requeue, RequeueByID, Write, Recheck, DeleteScoped, Remove,
       Fetch, Evict, Stop, Restart, mapVars, DispatchHasMove
  <2>3. CASE UNCHANGED vars
    BY <2>3 DEF vars, DispatchHasMove
  <2>4. QED
    BY <2>1, <2>2, <2>3, TickKeepsRecords, MoveKeepsRecords DEF Next
<1>3. QED
  BY <1>1, <1>2, TypeInvHolds, PTL DEF Spec

-----------------------------------------------------------------------------
(* Complete files.  A row gets into a move only when it is complete, and a  *)
(* move calls completed what it was given.                                  *)

MovesWhole == "recheck" \in Calls \/
    \A j \in MoveIds : moves[j].pc # "free" => moves[j].members \subseteq done
WholeInv   == FinishedIsWhole /\ MovesWhole

(* The status of no row outside S becomes moving or completed. *)
StartsNoMove(S) == \A r \in Rows :
    status'[r] \in {"moving", "completed"} => status'[r] = status[r] \/ r \in S

LEMMA UpdatedStarts ==
    ASSUME NEW S, NEW from, NEW to, status' = Updated(S, from, to)
    PROVE  /\ StartsNoMove(S)
           /\ to \notin {"moving", "completed"} => StartsNoMove({})
BY DEF Updated, StartsNoMove

LEMMA WholeKept ==
    ASSUME WholeInv, StartsNoMove(done), "recheck" \in Calls \/ done \subseteq done',
           \A k \in MoveIds : moves'[k].pc # "free" =>
               \/ moves[k].pc # "free" /\ moves'[k].members = moves[k].members
               \/ moves'[k].members \subseteq done
    PROVE  WholeInv'
BY DEF WholeInv, FinishedIsWhole, MovesWhole, StartsNoMove

LEMMA TickKeepsWhole ==
    ASSUME TypeInv, WholeInv, TickStep
    PROVE  WholeInv'
<1> USE DEF TypeInv, storeVars
<1>1. ASSUME NEW g \in tick.todo, NEW S \in SUBSET g, NEW from, NEW group,
             g \subseteq done, status' = Updated(S, from, "moving"), UNCHANGED done,
             Dispatch(S, group) \/ UNCHANGED moves
      PROVE  WholeInv'
  <2>1. StartsNoMove(done)
    BY <1>1, UpdatedStarts DEF StartsNoMove
  <2>2. \A k \in MoveIds : moves'[k].pc # "free" =>
           \/ moves[k].pc # "free" /\ moves'[k].members = moves[k].members
           \/ moves'[k].members \subseteq done
    <3>1. CASE UNCHANGED moves
      BY <3>1
    <3>2. CASE Dispatch(S, group)
      BY <1>1, <3>2, DispatchFree
    <3>3. QED
      BY <1>1, <3>1, <3>2
  <2>3. QED
    BY <1>1, <2>1, <2>2, WholeKept
<1>2. ASSUME NEW g \in tick.todo, checkCompletion(g)
      PROVE  WholeInv'
  <2>1. PICK b \in BOOLEAN : Dispatch(g, b)
    BY <1>2 DEF checkCompletion
  <2>2. QED
    BY <1>1, <1>2, <2>1 DEF checkCompletion, groupCompletionEligible
<1>3. ASSUME NEW g \in tick.todo, completeGroup(g)
      PROVE  WholeInv'
  <2>1. g \subseteq done /\ UNCHANGED done
    BY <1>3 DEF completeGroup, groupCompletionEligible
  <2>2. PICK S \in SUBSET g : /\ status' = Updated(S, {"downloading"}, "moving")
                              /\ UNCHANGED moves \/ Dispatch(S, TRUE)
    BY <1>3 DEF completeGroup
  <2>3. QED
    BY <1>1, <2>1, <2>2
<1>4. ASSUME NEW g \in tick.todo,
             StartInit(g) \/ AwaitInit(g) \/ adoptSiblings(g) \/ sampleGroup(g)
      PROVE  WholeInv'
  BY <1>4, NoMoveInTick DEF WholeInv, FinishedIsWhole, MovesWhole
<1>5. CASE tickUntrack \/ tickDrop \/ sweepList \/ sweepPrune
  BY <1>5 DEF tickUntrack, tickDrop, sweepList, sweepPrune,
              WholeInv, FinishedIsWhole, MovesWhole
<1>6. CASE applySchedule
  <2>1. StartsNoMove(done) /\ UNCHANGED <<done, moves>>
    BY <1>6 DEF applySchedule, StartsNoMove
  <2>2. QED
    BY <2>1, WholeKept
<1>7. CASE sweepRescue
  <2>1. StartsNoMove(done) /\ UNCHANGED <<done, moves>>
    BY <1>7 DEF sweepRescue, Updated, StartsNoMove
  <2>2. QED
    BY <2>1, WholeKept
<1>8. CASE StallStep
  <2>1. StartsNoMove(done) /\ UNCHANGED <<done, moves>>
    BY <1>8, StallsWrite DEF StartsNoMove
  <2>2. QED
    BY <2>1, WholeKept
<1>9. QED
  BY <1>2, <1>3, <1>4, <1>5, <1>6, <1>7, <1>8 DEF TickStep

LEMMA MoveKeepsWhole ==
    ASSUME TypeInv, WholeInv, NEW j \in MoveIds, MoveStep(j)
    PROVE  WholeInv'
<1> USE DEF TypeInv, storeVars
<1>1. moves \in [MoveIds -> MoveRecs]
  BY DEF Types
<1>2. UNCHANGED done
  BY DEF MoveStep, attemptCompletionMove, storeCompleted, storeFailed, reseedAfterCompletion,
     attemptFailed, retryMove, giveUp, abortOnStop, recordFailure, abandon
<1>3. \A k \in MoveIds : moves'[k].pc # "free" =>
         moves[k].pc # "free" /\ moves'[k].members = moves[k].members
  <2>1. ASSUME NEW s, SetMove(j, s), s.pc # "free" =>
                      moves[j].pc # "free" /\ s.members = moves[j].members
        PROVE  \A k \in MoveIds : moves'[k].pc # "free" =>
                  moves[k].pc # "free" /\ moves'[k].members = moves[k].members
    BY <1>1, <2>1 DEF SetMove
  <2>2. CASE attemptCompletionMove(j) \/ storeCompleted(j) \/ storeFailed(j) \/ retryMove(j)
    <3>1. PICK pc : SetMove(j, [moves[j] EXCEPT !.pc = pc]) /\ moves[j].pc # "free"
      BY <2>2 DEF attemptCompletionMove, storeCompleted, storeFailed, retryMove
    <3>2. QED
      BY <1>1, <2>1, <3>1 DEF MoveRecs
  <2>3. CASE attemptFailed(j)
    <3>1. PICK n : SetMove(j, [moves[j] EXCEPT !.pc = "backoff", !.tries = n])
      BY <2>3 DEF attemptFailed
    <3>2. QED
      BY <1>1, <2>1, <2>3, <3>1 DEF attemptFailed, MoveRecs
  <2>4. CASE SetMove(j, FreeMove)
    BY <2>1, <2>4 DEF FreeMove
  <2>5. QED
    BY <2>2, <2>3, <2>4
       DEF MoveStep, reseedAfterCompletion, giveUp, abortOnStop, recordFailure, abandon
<1>4. "recheck" \in Calls \/ StartsNoMove(done)
  <2>1. CASE storeCompleted(j)
    BY <2>1, UpdatedStarts DEF storeCompleted, WholeInv, MovesWhole, StartsNoMove
  <2>2. ASSUME recordFailure(j) PROVE StartsNoMove(done)
    BY <2>2 DEF recordFailure, Updated, StartsNoMove
  <2>3. ASSUME UNCHANGED status PROVE StartsNoMove(done)
    BY <2>3 DEF StartsNoMove
  <2>4. QED
    BY <2>1, <2>2, <2>3
       DEF MoveStep, attemptCompletionMove, storeFailed, reseedAfterCompletion,
           attemptFailed, retryMove, giveUp, abortOnStop
<1>5. QED
  BY <1>2, <1>3, <1>4, WholeKept DEF WholeInv, FinishedIsWhole, MovesWhole

LEMMA OutsideKeepsWhole ==
    ASSUME TypeInv, WholeInv, Outside
    PROVE  WholeInv'
<1> USE DEF TypeInv, storeVars
<1>1. ASSUME StartsNoMove(done), done \subseteq done', UNCHANGED moves
      PROVE  WholeInv'
  BY <1>1, WholeKept
<1>2. ASSUME NEW r \in Rows,
             \/ Pause(r) \/ Requeue(r) \/ RequeueByID(r)
             \/ DeleteScoped(r) \/ Remove(r) \/ Fetch(r)
      PROVE  WholeInv'
  <2>1. StartsNoMove(done)
    BY <1>2 DEF Pause, Requeue, RequeueByID, Write, DeleteScoped, Remove, Fetch,
                StartsNoMove, Types
  <2>2. done \subseteq done' /\ UNCHANGED moves
    BY <1>2 DEF Pause, Requeue, RequeueByID, Write, DeleteScoped, Remove, Fetch
  <2>3. QED
    BY <1>1, <2>1, <2>2
<1>3. ASSUME NEW r \in Rows, Recheck(r)
      PROVE  WholeInv'
  <2>1. "recheck" \in Calls
    BY <1>3 DEF Recheck, Call
  <2>2. QED
    BY <2>1 DEF WholeInv, FinishedIsWhole, MovesWhole
<1>4. CASE Restart
  <2>1. StartsNoMove(done)
    BY <1>4 DEF Restart, Updated, StartsNoMove
  <2>2. UNCHANGED done /\ \A k \in MoveIds : moves'[k].pc = "free"
    BY <1>4 DEF Restart, FreeMove
  <2>3. QED
    BY <2>1, <2>2, WholeKept
<1>5. ASSUME NEW t \in Torrents, Evict(t)
      PROVE  WholeInv'
  BY <1>5 DEF Evict, WholeInv, FinishedIsWhole, MovesWhole
<1>6. CASE Stop
  BY <1>6 DEF Stop, WholeInv, FinishedIsWhole, MovesWhole
<1>7. QED
  BY <1>2, <1>3, <1>4, <1>5, <1>6 DEF Outside

(* Only complete files are moved and called completed, however the tick,    *)
(* the handlers, the sweep, retries and restarts interleave.                *)
THEOREM FinishedWhole == Spec => []FinishedIsWhole
<1>1. Init => WholeInv
  BY DEF Init, Begun, WholeInv, FinishedIsWhole, MovesWhole, FreeMove
<1>2. TypeInv /\ WholeInv /\ [Next]_vars => WholeInv'
  <2> SUFFICES ASSUME TypeInv, WholeInv, [Next]_vars PROVE WholeInv'
    OBVIOUS
  <2>1. ASSUME NEW i \in InitIds, InitStep(i) PROVE WholeInv'
    <3>1. StartsNoMove(done)
      BY <2>1 DEF InitStep, resolve, promoteOrAbort, noFiles, resolveFailed,
         deleteRetries, SetError, initExit, trackMember, failOrRetry, storeVars, Updated, StartsNoMove
    <3>2. QED
      BY <2>1, <3>1, NoMoveInInit, WholeKept
  <2>2. CASE UNCHANGED vars
    BY <2>2 DEF vars, WholeInv, FinishedIsWhole, MovesWhole
  <2>3. QED
    BY <2>1, <2>2, TickKeepsWhole, MoveKeepsWhole, OutsideKeepsWhole DEF Next
<1>3. WholeInv => FinishedIsWhole
  BY DEF WholeInv
<1>4. QED
  BY <1>1, <1>2, <1>3, TypeInvHolds, PTL DEF Spec

-----------------------------------------------------------------------------
(* Moving rows.  MovingOwned is inductive: a row becomes moving in the step *)
(* that starts its move, and a move lets go of its rows only when they are  *)
(* moving no more.                                                          *)

LEMMA OwnedKept ==
    ASSUME MovingOwned, stopping => stopping',
           \A r \in Rows : status'[r] = "moving" => status[r] = "moving",
           \A r \in Rows, k \in MoveIds :
               status'[r] = "moving" /\ Owns(k, r) => Owns(k, r)'
    PROVE  MovingOwned'
BY DEF MovingOwned

LEMMA TickKeepsOwned ==
    ASSUME TypeInv, MovingOwned, TickStep
    PROVE  MovingOwned'
<1> USE DEF TypeInv, storeVars, outside
<1>1. ASSUME NEW S \in SUBSET Rows, NEW from, NEW group,
             status' = Updated(S, from, "moving"), UNCHANGED stopping, Dispatch(S, group)
      PROVE  MovingOwned'
  <2>1. PICK j \in MoveIds :
          /\ moves[j].pc = "free"
          /\ moves'[j].pc = "move" /\ moves'[j].members = S
          /\ \A k \in MoveIds \ {j} : moves'[k] = moves[k]
    BY <1>1, DispatchFree
  <2>2. \A r \in S : Owns(j, r)'
    BY <2>1 DEF Owns
  <2>3. \A r \in Rows, k \in MoveIds : Owns(k, r) => Owns(k, r)'
    BY <2>1 DEF Owns
  <2>4. \A r \in Rows : status'[r] = "moving" => r \in S \/ status[r] = "moving"
    BY <1>1 DEF Updated
  <2>5. QED
    BY <1>1, <2>2, <2>3, <2>4 DEF MovingOwned
<1>2. ASSUME NEW g \in tick.todo, checkCompletion(g)
      PROVE  MovingOwned'
  <2>1. PICK b \in BOOLEAN : Dispatch(g, b)
    BY <1>2 DEF checkCompletion
  <2>2. g \in SUBSET Rows
    BY DEF Types, TickRecs
  <2>3. QED
    BY <1>1, <1>2, <2>1, <2>2 DEF checkCompletion
<1>3. ASSUME NEW g \in tick.todo, completeGroup(g)
      PROVE  MovingOwned'
  <2> DEFINE moved == g \cap Having("downloading")
  <2>1. /\ status' = Updated(moved, {"downloading"}, "moving") /\ UNCHANGED stopping
        /\ IF moved = {} THEN UNCHANGED moves ELSE Dispatch(moved, TRUE)
    BY <1>3 DEF completeGroup
  <2>2. CASE moved = {}
    <3>1. \A r \in Rows : status'[r] = "moving" => status[r] = "moving"
      BY <2>1, <2>2 DEF Updated
    <3>2. QED
      BY <2>1, <2>2, <3>1, OwnedKept DEF Owns
  <2>3. CASE moved # {}
    <3>1. moved \in SUBSET Rows
      BY DEF Having
    <3>2. PICK b \in BOOLEAN : Dispatch(moved, b)
      BY <2>1, <2>3
    <3>3. QED
      BY <1>1, <2>1, <3>1, <3>2
  <2>4. QED
    BY <2>2, <2>3
<1>4. ASSUME \A r \in Rows : status'[r] = "moving" => status[r] = "moving",
             UNCHANGED <<moves, stopping>>
      PROVE  MovingOwned'
  BY <1>4, OwnedKept DEF Owns
<1>5. ASSUME NEW g \in tick.todo,
             StartInit(g) \/ AwaitInit(g) \/ adoptSiblings(g) \/ sampleGroup(g)
      PROVE  MovingOwned'
  BY <1>4, <1>5, NoMoveInTick
<1>6. CASE tickUntrack \/ tickDrop \/ applySchedule \/ sweepList \/ sweepPrune \/ sweepRescue
  <2>1. \A r \in Rows : status'[r] = "moving" => status[r] = "moving"
    BY <1>6 DEF tickUntrack, tickDrop, applySchedule, sweepList, sweepPrune, sweepRescue,
                Updated
  <2>2. QED
    BY <1>4, <1>6, <2>1
       DEF tickUntrack, tickDrop, applySchedule, sweepList, sweepPrune, sweepRescue
<1>7. CASE StallStep
  BY <1>4, <1>7, StallsWrite
<1>8. QED
  BY <1>2, <1>3, <1>5, <1>6, <1>7 DEF TickStep

LEMMA MoveKeepsOwned ==
    ASSUME TypeInv, MovingOwned, NEW j \in MoveIds, MoveStep(j)
    PROVE  MovingOwned'
<1> USE DEF TypeInv, storeVars, outside
<1>1. moves \in [MoveIds -> MoveRecs] /\ status \in [Rows -> Statuses]
  BY DEF Types
<1>2. UNCHANGED stopping
  BY DEF MoveStep, attemptCompletionMove, storeCompleted, storeFailed, reseedAfterCompletion,
     attemptFailed, retryMove, giveUp, abortOnStop, recordFailure, abandon
<1>3. ASSUME NEW s, SetMove(j, s), UNCHANGED status,
             s.pc \in {"move", "backoff", "store"}, s.members = moves[j].members
      PROVE  MovingOwned'
  BY <1>1, <1>2, <1>3, OwnedKept DEF SetMove, Owns
<1>4. CASE attemptCompletionMove(j)
  BY <1>1, <1>3, <1>4 DEF attemptCompletionMove, MoveRecs
<1>5. CASE retryMove(j)
  BY <1>1, <1>3, <1>5 DEF retryMove, MoveRecs
<1>6. CASE attemptFailed(j)
  <2>1. PICK n : SetMove(j, [moves[j] EXCEPT !.pc = "backoff", !.tries = n])
    BY <1>6 DEF attemptFailed
  <2>2. QED
    BY <1>1, <1>3, <1>6, <2>1 DEF attemptFailed, MoveRecs
<1>7. ASSUME NEW s, SetMove(j, s),
             \A r \in Rows : status'[r] = "moving" => status[r] = "moving" /\ ~Owns(j, r)
      PROVE  MovingOwned'
  BY <1>1, <1>2, <1>7, OwnedKept DEF SetMove, Owns
<1>8. CASE storeCompleted(j)
  <2>1. \A r \in Rows : status'[r] = "moving" => status[r] = "moving" /\ ~Owns(j, r)
    <3>1. PICK from : /\ status' = Updated(moves[j].members, from, "completed")
                      /\ "moving" \in from
      BY <1>8 DEF storeCompleted, Stored, Statuses
    <3>2. QED
      BY <1>1, <3>1 DEF Updated, Owns
  <2>2. QED
    BY <1>7, <1>8, <2>1 DEF storeCompleted
<1>9. ASSUME recordFailure(j)
      PROVE  MovingOwned'
  <2>1. \A r \in Rows : status'[r] = "moving" => status[r] = "moving" /\ ~Owns(j, r)
    BY <1>1, <1>9 DEF recordFailure, Updated, Stored, Statuses, Owns
  <2>2. QED
    BY <1>7, <1>9, <2>1 DEF recordFailure, abandon
<1>10. CASE reseedAfterCompletion(j)
  BY <1>1, <1>2, <1>10, OwnedKept DEF reseedAfterCompletion, SetMove, Owns
<1>11. ASSUME Call("dbFail")
       PROVE  MovingOwned'
  BY <1>11 DEF Call, MovingOwned
<1>12. CASE stopping
  BY <1>2, <1>12 DEF MovingOwned
<1>13. QED
  BY <1>4, <1>5, <1>6, <1>8, <1>9, <1>10, <1>11, <1>12
     DEF MoveStep, storeFailed, giveUp, abortOnStop

LEMMA OutsideKeepsOwned ==
    ASSUME TypeInv, MovingOwned, Outside
    PROVE  MovingOwned'
<1> USE DEF TypeInv, storeVars, outside
<1>1. ASSUME \A r \in Rows : status'[r] = "moving" => status[r] = "moving",
             stopping => stopping', UNCHANGED moves
      PROVE  MovingOwned'
  BY <1>1, OwnedKept DEF Owns
<1>2. ASSUME NEW r \in Rows,
             \/ Pause(r) \/ Requeue(r) \/ RequeueByID(r) \/ Recheck(r)
             \/ DeleteScoped(r) \/ Remove(r) \/ Fetch(r)
      PROVE  MovingOwned'
  <2>1. \A s \in Rows : status'[s] = "moving" => status[s] = "moving"
    BY <1>2 DEF Pause, Requeue, RequeueByID, Write, Recheck, DeleteScoped, Remove, Fetch, Types
  <2>2. UNCHANGED <<moves, stopping>>
    BY <1>2 DEF Pause, Requeue, RequeueByID, Write, Recheck, DeleteScoped, Remove, Fetch
  <2>3. QED
    BY <1>1, <2>1, <2>2
<1>3. ASSUME NEW t \in Torrents, Evict(t)
      PROVE  MovingOwned'
  BY <1>1, <1>3 DEF Evict
<1>4. CASE Stop
  BY <1>1, <1>4 DEF Stop
<1>5. CASE Restart
  <2>1. \A r \in Rows : status'[r] # "moving"
    BY <1>5 DEF Restart, Updated, Having
  <2>2. QED
    BY <2>1 DEF MovingOwned
<1>6. QED
  BY <1>2, <1>3, <1>4, <1>5 DEF Outside

(* A moving row has a goroutine that takes it out of that state, so nothing *)
(* is wedged in it but by a database error or by Stop: not by a handler     *)
(* that writes while the move runs, nor by a sweep or a second move.        *)
THEOREM MovesOwned == Spec => []MovingOwned
<1>1. Init => MovingOwned
  BY DEF Init, Begun, MovingOwned
<1>2. TypeInv /\ MovingOwned /\ [Next]_vars => MovingOwned'
  <2> SUFFICES ASSUME TypeInv, MovingOwned, [Next]_vars PROVE MovingOwned'
    OBVIOUS
  <2>1. ASSUME NEW i \in InitIds, InitStep(i) PROVE MovingOwned'
    <3>1. \A r \in Rows : status'[r] = "moving" => status[r] = "moving"
      BY <2>1 DEF InitStep, resolve, promoteOrAbort, noFiles, resolveFailed,
         deleteRetries, SetError, initExit, trackMember, failOrRetry, storeVars, Updated
    <3>2. QED
      BY <2>1, <3>1, NoMoveInInit, OwnedKept DEF Owns
  <2>2. CASE UNCHANGED vars
    BY <2>2 DEF vars, MovingOwned, Owns
  <2>3. QED
    BY <2>1, <2>2, TickKeepsOwned, MoveKeepsOwned, OutsideKeepsOwned DEF Next
<1>3. QED
  BY <1>1, <1>2, TypeInvHolds, PTL DEF Spec
-----------------------------------------------------------------------------
(* One move at a time.  It is not so for the files of a group, whose move   *)
(* is not on record, nor when a handler puts a row back to the queue        *)
(* while it is moved: what is left are rows with a torrent of their own     *)
(* and every other call.                                                    *)

RowsAlone == \A r \in Rows : Siblings(r) = {r}

MovesSingle == \A j \in MoveIds :
    IF moves[j].pc = "free" THEN moves[j].members = {}
    ELSE ~moves[j].group /\ \E r \in Rows : moves[j].members = {r}
Listing     == tick.pc \in {"drop", "groups"}
TodoSingle  == Listing => \A g \in tick.todo : \E r \in Rows : g = {r}

(* The tick does not take a row up again while a move has it, and the sweep *)
(* passes over it.                                                          *)
LeftAlone(r) ==
    /\ status[r] \notin {"queued", "downloading"}
    /\ status[r] = "moving" => r \in movingActive
    /\ Listing => \A g \in tick.todo : r \notin g
    /\ tick.pc = "prune" => /\ status[r] = "moving" => r \in tick.rows
                            /\ r \in tick.rows => r \in movingActive
    /\ tick.pc = "rescue" => r \notin tick.rows

ApartInv == /\ MovesSingle /\ TodoSingle /\ OneMovePerRow
            /\ \A r \in Rows : BeingMoved(r) => LeftAlone(r)

LEMMA ApartKept ==
    ASSUME ApartInv, TodoSingle',
           \A k \in MoveIds :
               \/ moves'[k] = moves[k] \/ moves'[k] = FreeMove
               \/ /\ moves[k].pc # "free" /\ moves'[k].pc # "free"
                  /\ moves'[k].members = moves[k].members /\ moves'[k].group = moves[k].group,
           \A r \in Rows : BeingMoved(r) /\ LeftAlone(r) => LeftAlone(r)' \/ ~BeingMoved(r)'
    PROVE  ApartInv'
<1>1. \A r \in Rows : BeingMoved(r)' => BeingMoved(r)
  BY DEF BeingMoved, FreeMove
<1>2. MovesSingle' /\ OneMovePerRow'
  BY DEF ApartInv, MovesSingle, OneMovePerRow, FreeMove
<1>3. QED
  BY <1>1, <1>2 DEF ApartInv

(* The tick and the records untouched, and no row put back. *)
LEMMA QuietKept ==
    ASSUME ApartInv, UNCHANGED <<tick, moves, movingActive>>,
           \A r \in Rows : \/ status'[r] = status[r] \/ ~BeingMoved(r)
                           \/ status'[r] \in {"paused", "failed", "deleted"}
    PROVE  ApartInv'
<1>1. TodoSingle'
  BY DEF ApartInv, Listing, TodoSingle
<1>2. \A r \in Rows : BeingMoved(r) /\ LeftAlone(r) => LeftAlone(r)'
  BY DEF Listing, LeftAlone
<1>3. QED
  BY <1>1, <1>2, ApartKept

LEMMA TickKeepsApart ==
    ASSUME TypeInv, ApartInv, RowsAlone, TickStep
    PROVE  ApartInv'
<1> USE DEF TypeInv, storeVars, mapVars, outside
<1>1. /\ status \in [Rows -> Statuses] /\ tick \in TickRecs /\ moves \in [MoveIds -> MoveRecs]
      /\ tick.todo \subseteq SUBSET Rows
  BY DEF Types, TickRecs
<1>2. ASSUME NEW g \in tick.todo, checkCompletion(g)
      PROVE  ApartInv'
  <2>11. Listing
    BY <1>2 DEF checkCompletion, Listing
  <2>1. PICK r \in Rows : g = {r}
    BY <2>11 DEF ApartInv, TodoSingle
  <2>2. PICK j \in MoveIds :
          /\ moves[j].pc = "free"
          /\ moves'[j].pc = "move" /\ moves'[j].members = g /\ ~moves'[j].group
          /\ \A k \in MoveIds \ {j} : moves'[k] = moves[k]
    <3>1. PICK b \in BOOLEAN : Dispatch(g, b) /\ ~b
      BY <1>2 DEF checkCompletion
    <3>2. QED
      BY <3>1, DispatchFree
  <2>3. ~BeingMoved(r)
    BY <2>1, <2>11 DEF ApartInv, LeftAlone
  <2>4. /\ tick.pc = "groups" /\ tick'.pc = "groups" /\ tick'.todo = tick.todo \ {g}
        /\ movingActive' = movingActive \cup {r}
        /\ \A q \in Rows \ {r} : status'[q] = status[q]
        /\ status'[r] \in {"moving", "deleted"}
    BY <1>1, <1>2, <2>1 DEF checkCompletion, Reconciled, Updated, Stored, TickRecs
  <2>5. MovesSingle' /\ TodoSingle'
    BY <2>1, <2>2, <2>4 DEF ApartInv, MovesSingle, Listing, TodoSingle
  <2>10. OneMovePerRow'
    <3>1. \A k \in MoveIds : r \notin moves[k].members
      BY <2>3 DEF ApartInv, MovesSingle, BeingMoved
    <3>2. QED
      BY <2>1, <2>2, <3>1 DEF ApartInv, OneMovePerRow
  <2>6. LeftAlone(r)'
    BY <2>1, <2>4 DEF LeftAlone, ApartInv, Listing, TodoSingle
  <2>7. \A q \in Rows \ {r} : BeingMoved(q)' => BeingMoved(q)
    BY <2>1, <2>2 DEF BeingMoved
  <2>8. \A q \in Rows \ {r} : LeftAlone(q) => LeftAlone(q)'
    BY <2>4 DEF Listing, LeftAlone
  <2>9. QED
    BY <2>5, <2>6, <2>7, <2>8, <2>10 DEF ApartInv
<1>3. ASSUME NEW g \in tick.todo, completeGroup(g) PROVE FALSE
  <2>1. PICK r \in Rows : g = {r}
    BY <1>3 DEF ApartInv, Listing, TodoSingle, completeGroup
  <2>2. Cardinality(g) = 1
    BY <2>1, FS_Singleton
  <2>3. QED
    BY <1>3, <2>2 DEF completeGroup
<1>4. ASSUME NEW g \in tick.todo,
             StartInit(g) \/ AwaitInit(g) \/ adoptSiblings(g) \/ sampleGroup(g)
      PROVE  ApartInv'
  <2>1. UNCHANGED <<status, movingActive, moves>>
    BY <1>4, NoMoveInTick
  <2>2. tick.pc = "groups" /\ tick'.pc = "groups" /\ tick'.todo = tick.todo \ {g}
    BY <1>1, <1>4 DEF StartInit, AwaitInit, adoptSiblings, sampleGroup, Reconciled, TickRecs
  <2>3. TodoSingle' /\ \A r \in Rows : LeftAlone(r) => LeftAlone(r)'
    BY <2>1, <2>2 DEF ApartInv, TodoSingle, Listing, LeftAlone
  <2>4. QED
    BY <2>1, <2>3, ApartKept
<1>5. CASE tickUntrack
  <2>1. UNCHANGED <<status, movingActive, moves>> /\ tick'.pc \in {"groups", "drop"}
        /\ tick'.todo = {Driven(g) : g \in GroupRows(Having("downloading"))}
    BY <1>5 DEF tickUntrack, IdleTick
  <2>2. \A g \in GroupRows(Having("downloading")) :
          \E r \in Rows : status[r] = "downloading" /\ Driven(g) = {r}
    <3>1. TAKE g \in GroupRows(Having("downloading"))
    <3>2. PICK r \in Rows : status[r] = "downloading" /\ g = {r}
      BY DEF GroupRows, RowsAlone, Having
    <3>3. Driven(g) # {} /\ (Driven(g) = g \/ Driven(g) = {CHOOSE q \in g \cap Whole : TRUE})
      BY DrivenRows DEF Driven, Having
    <3>4. Driven(g) = {r}
      BY <3>2 DEF Driven
    <3>5. QED
      BY <3>2, <3>4
  <2>3. TodoSingle'
    BY <2>1, <2>2 DEF Listing, TodoSingle
  <2>4. \A r \in Rows : LeftAlone(r) => LeftAlone(r)'
    BY <2>1, <2>2 DEF Listing, LeftAlone
  <2>5. QED
    BY <2>1, <2>3, <2>4, ApartKept
<1>6. CASE tickDrop
  <2>1. /\ UNCHANGED <<status, movingActive, moves>>
        /\ tick.pc = "drop" /\ tick'.pc = "groups" /\ tick'.todo = tick.todo
    BY <1>1, <1>6 DEF tickDrop, TickRecs
  <2>2. TodoSingle' /\ \A r \in Rows : LeftAlone(r) => LeftAlone(r)'
    BY <2>1 DEF ApartInv, TodoSingle, Listing, LeftAlone
  <2>3. QED
    BY <2>1, <2>2, ApartKept
<1>7. CASE StallStep
  <2>1. UNCHANGED <<movingActive, moves>> /\ tick'.pc \in {"stalls", "untrack", "pause"}
    BY <1>1, <1>7, StallsWrite
       DEF StallStep, detectStalls, DemoteGroup, NoneDemoted, untrackStalled, pauseStalled,
           Reconciled, TickRecs
  <2>2. \A r \in Rows : status[r] \notin {"queued", "downloading"} =>
                          status'[r] = status[r] \/ status'[r] = "paused"
    BY <1>7, StallsWrite
  <2>3. TodoSingle' /\ \A r \in Rows : LeftAlone(r) => LeftAlone(r)'
    BY <2>1, <2>2 DEF TodoSingle, Listing, LeftAlone
  <2>4. QED
    BY <2>1, <2>3, ApartKept
<1>8. CASE applySchedule
  <2>1. UNCHANGED <<movingActive, moves>> /\ tick'.pc \in {"idle", "sweep"} /\ tick'.todo = {}
    BY <1>8 DEF applySchedule, IdleTick
  <2>2. \A r \in Rows : status[r] \notin {"queued", "downloading"} => status'[r] = status[r]
    <3> DEFINE downloading == Having("downloading")
               groups == GroupRows(downloading \cup Having("queued"))
    <3>1. PICK plan \in SUBSET groups :
            status' = [r \in Rows |-> IF r \in (UNION plan) \ downloading THEN "downloading"
                                      ELSE IF r \in downloading \ UNION plan THEN "queued"
                                      ELSE status[r]]
      BY <1>8 DEF applySchedule
    <3>2. \A r \in UNION plan : r \in Having("downloading") \cup Having("queued")
      BY GroupsOfRows DEF Having
    <3>3. QED
      BY <3>1, <3>2 DEF Having
  <2>3. TodoSingle' /\ \A r \in Rows : LeftAlone(r) => LeftAlone(r)'
    BY <2>1, <2>2 DEF TodoSingle, Listing, LeftAlone
  <2>4. QED
    BY <2>1, <2>3, ApartKept
<1>9. CASE sweepList
  <2>1. UNCHANGED <<status, movingActive, moves>> /\ tick'.pc = "prune" /\ tick'.todo = {}
        /\ tick'.rows = Having("moving")
    BY <1>9 DEF sweepList, IdleTick
  <2>2. TodoSingle' /\ \A r \in Rows : LeftAlone(r) => LeftAlone(r)'
    BY <2>1 DEF TodoSingle, Listing, LeftAlone, Having
  <2>3. QED
    BY <2>1, <2>2, ApartKept
<1>10. CASE sweepPrune
  <2>1. UNCHANGED <<status, moves>> /\ tick.pc = "prune" /\ tick'.pc = "rescue"
        /\ tick'.todo = tick.todo /\ tick'.rows = tick.rows \ movingActive
        /\ movingActive' = movingActive \cap tick.rows
    BY <1>1, <1>10 DEF sweepPrune, Stuck, TickRecs
  <2>2. TodoSingle' /\ \A r \in Rows : LeftAlone(r) => LeftAlone(r)'
    BY <2>1 DEF ApartInv, TodoSingle, Listing, LeftAlone
  <2>3. QED
    BY <2>1, <2>2, ApartKept
<1>11. CASE sweepRescue
  <2>1. UNCHANGED moves /\ tick.pc = "rescue" /\ tick'.pc = "idle" /\ tick'.todo = {}
        /\ movingActive' = movingActive \ tick.rows
        /\ \A r \in Rows \ tick.rows : status'[r] = status[r]
    BY <1>1, <1>11 DEF sweepRescue, IdleTick, Updated
  <2>2. TodoSingle' /\ \A r \in Rows : LeftAlone(r) => LeftAlone(r)'
    BY <2>1 DEF TodoSingle, Listing, LeftAlone
  <2>3. QED
    BY <2>1, <2>2, ApartKept
<1>12. QED
  BY <1>2, <1>3, <1>4, <1>5, <1>6, <1>7, <1>8, <1>9, <1>10, <1>11 DEF TickStep

LEMMA MoveKeepsApart ==
    ASSUME TypeInv, ApartInv, NEW j \in MoveIds, MoveStep(j)
    PROVE  ApartInv'
<1> USE DEF TypeInv, storeVars, mapVars, outside
<1>1. moves \in [MoveIds -> MoveRecs] /\ status \in [Rows -> Statuses]
  BY DEF Types
<1>2. UNCHANGED tick
  BY DEF MoveStep, attemptCompletionMove, storeCompleted, storeFailed, reseedAfterCompletion,
     attemptFailed, retryMove, giveUp, abortOnStop, recordFailure, abandon
<1>3. TodoSingle'
  BY <1>2 DEF ApartInv, Listing, TodoSingle
<1>4. ASSUME NEW s, SetMove(j, s), s.members = moves[j].members, s.group = moves[j].group,
             moves[j].pc # "free", s.pc # "free", UNCHANGED movingActive,
             \A r \in Rows : status'[r] = status[r] \/ status'[r] = "completed"
      PROVE  ApartInv'
  <2>1. \A r \in Rows : LeftAlone(r) => LeftAlone(r)'
    BY <1>2, <1>4 DEF Listing, LeftAlone
  <2>2. QED
    BY <1>1, <1>3, <1>4, <2>1, ApartKept DEF SetMove
<1>5. CASE attemptCompletionMove(j)
  BY <1>1, <1>4, <1>5 DEF attemptCompletionMove, MoveRecs
<1>6. CASE storeCompleted(j)
  <2>1. \A r \in Rows : status'[r] = status[r] \/ status'[r] = "completed"
    BY <1>6 DEF storeCompleted, Updated
  <2>2. QED
    BY <1>1, <1>4, <1>6, <2>1 DEF storeCompleted, MoveRecs
<1>7. CASE storeFailed(j)
  <2> DEFINE s == [moves[j] EXCEPT !.pc = "reseed"]
  <2>1. SetMove(j, s) /\ moves[j].pc # "free" /\ UNCHANGED <<movingActive, status>>
    BY <1>7 DEF storeFailed
  <2>2. s.members = moves[j].members /\ s.group = moves[j].group /\ s.pc # "free"
    BY <1>1 DEF MoveRecs
  <2>3. QED
    BY <1>4, <2>1, <2>2
<1>8. CASE attemptFailed(j)
  <2> DEFINE s == [moves[j] EXCEPT !.pc = "backoff", !.tries = @ + 1]
  <2>1. SetMove(j, s) /\ moves[j].pc # "free" /\ UNCHANGED <<movingActive, status>>
    BY <1>8 DEF attemptFailed
  <2>2. s.members = moves[j].members /\ s.group = moves[j].group /\ s.pc # "free"
    BY <1>1 DEF MoveRecs
  <2>3. QED
    BY <1>4, <2>1, <2>2
<1>9. CASE retryMove(j)
  BY <1>1, <1>4, <1>9 DEF retryMove, MoveRecs
<1>10. ASSUME SetMove(j, FreeMove), moves[j].pc # "free", movingActive' = clearMovingState(j),
              \A r \in Rows : status'[r] = status[r] \/ status'[r] = "failed"
       PROVE  ApartInv'
  <2>1. \A k \in MoveIds \ {j} : moves'[k] = moves[k]
    BY <1>1, <1>10 DEF SetMove
  <2>2. moves'[j] = FreeMove
    BY <1>1, <1>10 DEF SetMove
  <2>3. ASSUME NEW r \in Rows, BeingMoved(r)', LeftAlone(r)
        PROVE  LeftAlone(r)'
    <3>1. r \notin moves[j].members
      BY <1>10, <2>1, <2>2, <2>3 DEF BeingMoved, ApartInv, OneMovePerRow, FreeMove
    <3>2. r \in movingActive <=> r \in movingActive'
      BY <1>10, <3>1 DEF clearMovingState
    <3>3. QED
      BY <1>2, <1>10, <2>3, <3>2 DEF Listing, LeftAlone
  <2>4. QED
    BY <1>3, <2>1, <2>2, <2>3, ApartKept
<1>11. CASE reseedAfterCompletion(j)
  BY <1>10, <1>11 DEF reseedAfterCompletion
<1>12. ASSUME recordFailure(j), moves[j].pc # "free"
       PROVE  ApartInv'
  <2>1. \A r \in Rows : status'[r] = status[r] \/ status'[r] = "failed"
    BY <1>12 DEF recordFailure, Updated
  <2>2. QED
    BY <1>10, <1>12, <2>1 DEF recordFailure, abandon
<1>13. CASE giveUp(j)
  BY <1>10, <1>12, <1>13 DEF giveUp, abandon
<1>14. CASE abortOnStop(j)
  <2>1. ~moves[j].group
    BY <1>14 DEF ApartInv, MovesSingle, abortOnStop
  <2>2. QED
    BY <1>12, <1>14, <2>1 DEF abortOnStop
<1>15. QED
  BY <1>5, <1>6, <1>7, <1>8, <1>9, <1>11, <1>13, <1>14 DEF MoveStep

LEMMA OthersKeepApart ==
    ASSUME TypeInv, ApartInv, ~PutBackMoving,
           Outside \/ \E i \in InitIds : InitStep(i)
    PROVE  ApartInv'
<1> USE DEF TypeInv, storeVars, mapVars, outside
<1>1. status \in [Rows -> Statuses]
  BY DEF Types
<1>2. ASSUME NEW i \in InitIds, InitStep(i) PROVE ApartInv'
  <2>1. ASSUME NEW r, SetError(i, r) PROVE ApartInv'
    <3>1. /\ UNCHANGED tick
          /\ \A q \in Rows : status'[q] = status[q] \/ status'[q] = "failed"
      BY <2>1 DEF SetError, Updated
    <3>2. QED
      BY <1>2, <3>1, NoMoveInInit, QuietKept
  <2>2. CASE \/ resolve(i) \/ promoteOrAbort(i) \/ noFiles(i) \/ resolveFailed(i)
             \/ deleteRetries(i) \/ initExit(i)
    <3>1. UNCHANGED <<status, tick>>
      BY <2>2 DEF resolve, promoteOrAbort, noFiles, resolveFailed, deleteRetries, initExit
    <3>2. QED
      BY <1>2, <3>1, NoMoveInInit, QuietKept
  <2>3. ASSUME NEW r, trackMember(i, r) \/ failOrRetry(i, r) PROVE ApartInv'
    <3>1. UNCHANGED <<status, tick>>
      BY <2>3 DEF trackMember, failOrRetry
    <3>2. QED
      BY <1>2, <3>1, NoMoveInInit, QuietKept
  <2>4. QED
    BY <1>2, <2>1, <2>2, <2>3 DEF InitStep
<1>3. ASSUME NEW r \in Rows, Pause(r) \/ DeleteScoped(r) \/ Remove(r) \/ Fetch(r)
      PROVE  ApartInv'
  <2>1. /\ UNCHANGED <<tick, moves, movingActive>>
        /\ \A q \in Rows : status'[q] = status[q] \/ status'[q] \in {"paused", "deleted"}
    BY <1>1, <1>3 DEF Pause, Write, DeleteScoped, Remove, Fetch
  <2>2. QED
    BY <2>1, QuietKept
<1>4. ASSUME NEW r \in Rows, Requeue(r) \/ RequeueByID(r) \/ Recheck(r)
      PROVE  ApartInv'
  <2>1. ~BeingMoved(r)
    BY <1>4 DEF PutBackMoving
  <2>2. UNCHANGED <<tick, moves, movingActive>> /\ \A q \in Rows \ {r} : status'[q] = status[q]
    BY <1>1, <1>4 DEF Requeue, RequeueByID, Write, Recheck
  <2>3. QED
    BY <2>1, <2>2, QuietKept
<1>5. ASSUME (\E t \in Torrents : Evict(t)) \/ Stop PROVE ApartInv'
  <2>1. UNCHANGED <<tick, moves, movingActive, status>>
    BY <1>5 DEF Evict, Stop
  <2>2. QED
    BY <2>1, QuietKept
<1>6. CASE Restart
  <2>1. \A k \in MoveIds : moves'[k] = FreeMove
    BY <1>6 DEF Restart
  <2>2. tick'.todo = {}
    BY <1>6 DEF Restart, IdleTick
  <2>3. QED
    BY <2>1, <2>2 DEF ApartInv, MovesSingle, Listing, TodoSingle, OneMovePerRow, BeingMoved, FreeMove
<1>7. QED
  BY <1>2, <1>3, <1>4, <1>5, <1>6 DEF Outside

(* The files of a row with a torrent of its own are moved by one goroutine  *)
(* at a time, as long as no handler puts it back to the queue: neither the  *)
(* sweep nor a tick that works on an old list sends it off a second time,   *)
(* through pauses, deletions, failures, Stop and restarts.                  *)
THEOREM MovesApart ==
    ASSUME RowsAlone
    PROVE  Spec /\ [][~PutBackMoving]_vars => []OneMovePerRow
<1>1. Init => ApartInv
  BY DEF Init, Begun, ApartInv, MovesSingle, Listing, TodoSingle, OneMovePerRow, BeingMoved, FreeMove, IdleTick
<1>2. TypeInv /\ ApartInv /\ [Next]_vars /\ [~PutBackMoving]_vars => ApartInv'
  <2> SUFFICES ASSUME TypeInv, ApartInv, [Next]_vars, [~PutBackMoving]_vars PROVE ApartInv'
    OBVIOUS
  <2>1. CASE UNCHANGED vars
    BY <2>1, QuietKept DEF vars
  <2>2. QED
    BY <2>1, TickKeepsApart, MoveKeepsApart, OthersKeepApart DEF Next
<1>3. ApartInv => OneMovePerRow
  BY DEF ApartInv
<1>4. QED
  BY <1>1, <1>2, <1>3, TypeInvHolds, PTL DEF Spec

-----------------------------------------------------------------------------
(* The limit on concurrent downloads.  Fewer rows make no more groups, and  *)
(* the groups that a schedule leaves downloading are those of its plan.     *)

LEMMA GroupsFinite ==
    ASSUME NEW S \in SUBSET Rows
    PROVE  IsFiniteSet(GroupRows(S)) /\ Cardinality(GroupRows(S)) \in Nat
<1> DEFINE f == [r \in S |-> Siblings(r) \cap S]
<1>1. IsFiniteSet(S)
  BY RowsAssumption, FS_Subset
<1>2. f \in Surjection(S, GroupRows(S))
  BY DEF Surjection, GroupRows
<1>3. IsFiniteSet(GroupRows(S))
  BY <1>1, <1>2, FS_Surjection
<1>4. QED
  BY <1>3, FS_CardinalityType

LEMMA FewerRowsFewerGroups ==
    ASSUME NEW S \in SUBSET Rows, NEW T \in SUBSET S
    PROVE  Cardinality(GroupRows(T)) <= Cardinality(GroupRows(S))
<1> DEFINE G == {g \in GroupRows(S) : g \cap T # {}}
<1> DEFINE f == [g \in G |-> g \cap T]
<1>1. /\ IsFiniteSet(G) /\ Cardinality(G) <= Cardinality(GroupRows(S))
      /\ Cardinality(G) \in Nat /\ Cardinality(GroupRows(S)) \in Nat
  BY GroupsFinite, FS_Subset, FS_CardinalityType
<1>2. f \in [G -> GroupRows(T)]
  <2>1. ASSUME NEW g \in G
        PROVE  g \cap T \in GroupRows(T)
    <3>1. PICK r \in S : g = Siblings(r) \cap S
      BY <2>1 DEF GroupRows
    <3>2. PICK t \in T : t \in g
      BY <2>1
    <3>3. Siblings(t) = Siblings(r)
      BY <3>1, <3>2 DEF Siblings
    <3>4. g \cap T = Siblings(t) \cap T
      BY <3>1, <3>3
    <3>5. QED
      BY <3>4 DEF GroupRows
  <2>2. QED
    BY <2>1
<1>3. ASSUME NEW h \in GroupRows(T)
      PROVE  \E g \in G : f[g] = h
  <2>1. PICK t \in T : h = Siblings(t) \cap T
    BY DEF GroupRows
  <2>2. Siblings(t) \cap S \in G
    BY DEF GroupRows, Siblings
  <2>3. f[Siblings(t) \cap S] = h
    BY <2>1, <2>2
  <2>4. QED
    BY <2>2, <2>3
<1>4. f \in Surjection(G, GroupRows(T))
  BY <1>2, <1>3 DEF Surjection
<1>5. Cardinality(GroupRows(T)) <= Cardinality(G)
  BY <1>1, <1>4, FS_Surjection
<1>6. Cardinality(GroupRows(T)) \in Nat
  BY GroupsFinite
<1>7. QED
  BY <1>1, <1>5, <1>6

(* The groups of the rows of some groups are those groups.                  *)
LEMMA GroupsOfPlan ==
    ASSUME NEW S \in SUBSET Rows, NEW plan \in SUBSET GroupRows(S)
    PROVE  UNION plan \subseteq S /\ GroupRows(UNION plan) = plan
<1>1. UNION plan \subseteq S
  BY GroupsOfRows
<1>2. ASSUME NEW g \in plan, NEW r \in g
      PROVE  Siblings(r) \cap UNION plan = g
  <2>1. PICK s \in S : g = Siblings(s) \cap S
    BY DEF GroupRows
  <2>2. Siblings(r) = Siblings(s)
    BY <2>1 DEF Siblings
  <2>3. QED
    BY <1>1, <2>1, <2>2
<1>3. GroupRows(UNION plan) \subseteq plan
  BY <1>2 DEF GroupRows
<1>4. ASSUME NEW g \in plan
      PROVE  g \in GroupRows(UNION plan)
  <2>1. PICK r \in g : TRUE
    BY GroupsOfRows
  <2>2. g = Siblings(r) \cap UNION plan /\ r \in UNION plan
    BY <1>2, <2>1
  <2>3. QED
    BY <2>2 DEF GroupRows
<1>5. QED
  BY <1>1, <1>3, <1>4

StartsNone == \A r \in Rows : status'[r] = "downloading" => status[r] = "downloading"

LEMMA NoNewGroup ==
    ASSUME StartsNone
    PROVE  ActiveGroups' <= ActiveGroups
<1>1. Having("downloading")' \subseteq Having("downloading")
  BY DEF StartsNone, Having
<1>2. QED
  BY <1>1, FewerRowsFewerGroups DEF ActiveGroups, Having

LEMMA WrittenStartsNone ==
    ASSUME Types, NEW S, NEW from, NEW to, to # "downloading",
           status' = Updated(S, from, to) \/ \E r \in Rows : status' = [status EXCEPT ![r] = to]
    PROVE  StartsNone
BY DEF Types, Updated, StartsNone

LEMMA UntouchedStartsNone ==
    ASSUME UNCHANGED status
    PROVE  StartsNone
BY DEF StartsNone

LEMMA ScheduleWithinSlots ==
    ASSUME Types, applySchedule
    PROVE  ActiveGroups' <= MaxActive
<1> DEFINE D == Having("downloading")
<1> DEFINE all == D \cup Having("queued")
<1>1. PICK plan \in SUBSET GroupRows(all) :
        /\ Cardinality(plan) <= MaxActive
        /\ status' = [r \in Rows |-> IF r \in (UNION plan) \ D THEN "downloading"
                                     ELSE IF r \in D \ UNION plan THEN "queued"
                                     ELSE status[r]]
  BY DEF applySchedule, AdmissiblePlan, WithinLimits
<1>2. UNION plan \subseteq all /\ GroupRows(UNION plan) = plan
  BY GroupsOfPlan DEF Having
<1>3. Having("downloading")' = UNION plan
  BY <1>1, <1>2 DEF Having
<1>4. QED
  BY <1>1, <1>2, <1>3 DEF ActiveGroups

LEMMA TickKeepsSlots ==
    ASSUME TypeInv, TickStep
    PROVE  StartsNone \/ ActiveGroups' <= MaxActive \/ sweepRescue
<1>1. CASE tickUntrack \/ tickDrop \/ sweepList \/ sweepPrune
  BY <1>1, UntouchedStartsNone DEF tickUntrack, tickDrop, sweepList, sweepPrune, storeVars
<1>2. ASSUME NEW g \in tick.todo,
             StartInit(g) \/ AwaitInit(g) \/ adoptSiblings(g) \/ sampleGroup(g)
      PROVE  StartsNone
  BY <1>2, UntouchedStartsNone DEF StartInit, AwaitInit, adoptSiblings, sampleGroup, storeVars
<1>3. ASSUME NEW g \in tick.todo, checkCompletion(g) \/ completeGroup(g)
      PROVE  StartsNone
  BY <1>3, WrittenStartsNone DEF checkCompletion, completeGroup, TypeInv
<1>4. CASE StallStep
  BY <1>4, StallsWrite DEF StartsNone
<1>5. CASE applySchedule
  BY <1>5, ScheduleWithinSlots DEF TypeInv
<1>6. QED
  BY <1>1, <1>2, <1>3, <1>4, <1>5 DEF TickStep

LEMMA InitKeepsSlots ==
    ASSUME TypeInv, NEW i \in InitIds, InitStep(i)
    PROVE  StartsNone
<1>1. CASE \/ resolve(i) \/ promoteOrAbort(i) \/ noFiles(i) \/ resolveFailed(i)
           \/ deleteRetries(i) \/ initExit(i)
  BY <1>1, UntouchedStartsNone
     DEF resolve, promoteOrAbort, noFiles, resolveFailed, deleteRetries, initExit, storeVars
<1>2. ASSUME NEW r, SetError(i, r) PROVE StartsNone
  BY <1>2, WrittenStartsNone DEF SetError, TypeInv
<1>3. ASSUME NEW r \in inits[i].todo, trackMember(i, r) \/ failOrRetry(i, r)
      PROVE  StartsNone
  BY <1>3, UntouchedStartsNone DEF trackMember, failOrRetry, storeVars
<1>4. QED
  BY <1>1, <1>2, <1>3 DEF InitStep

LEMMA MoveKeepsSlots ==
    ASSUME TypeInv, NEW j \in MoveIds, MoveStep(j)
    PROVE  StartsNone
<1>1. CASE \/ attemptCompletionMove(j) \/ storeFailed(j) \/ reseedAfterCompletion(j)
           \/ attemptFailed(j) \/ retryMove(j)
  BY <1>1, UntouchedStartsNone
     DEF attemptCompletionMove, storeFailed, reseedAfterCompletion, attemptFailed, retryMove,
         storeVars
<1>2. CASE storeCompleted(j)
  BY <1>2, WrittenStartsNone DEF storeCompleted, TypeInv
<1>3. CASE recordFailure(j)
  BY <1>3, WrittenStartsNone DEF recordFailure, TypeInv
<1>4. CASE giveUp(j) \/ abortOnStop(j)
  BY <1>3, <1>4, UntouchedStartsNone DEF giveUp, abortOnStop, storeVars
<1>5. QED
  BY <1>1, <1>2, <1>4 DEF MoveStep

LEMMA OutsideKeepsSlots ==
    ASSUME TypeInv, Outside
    PROVE  StartsNone \/ Restart
<1>1. ASSUME NEW r \in Rows, Pause(r) \/ Requeue(r) \/ RequeueByID(r)
      PROVE  StartsNone
  BY <1>1, WrittenStartsNone DEF Pause, Requeue, RequeueByID, Write, TypeInv
<1>2. ASSUME NEW r \in Rows, Recheck(r) \/ DeleteScoped(r)
      PROVE  StartsNone
  BY <1>2, WrittenStartsNone DEF Recheck, DeleteScoped, TypeInv
<1>3. ASSUME NEW r \in Rows, Remove(r) \/ Fetch(r)
      PROVE  StartsNone
  BY <1>3, UntouchedStartsNone DEF Remove, Fetch, storeVars
<1>4. ASSUME NEW t \in Torrents, Evict(t)
      PROVE  StartsNone
  BY <1>4, UntouchedStartsNone DEF Evict, storeVars
<1>5. CASE Stop
  BY <1>5, UntouchedStartsNone DEF Stop, storeVars
<1>6. QED
  BY <1>1, <1>2, <1>3, <1>4, <1>5 DEF Outside

(* Whatever handlers and goroutines do, in whatever order, more than        *)
(* MaxActive groups come to download only by a rescue of interrupted moves. *)
THEOREM SlotsKept == Spec => SlotsHeld
<1>1. ASSUME TypeInv, [Next]_vars
      PROVE  ActiveGroups' <= MaxActive \/ ActiveGroups' <= ActiveGroups
             \/ sweepRescue \/ Restart
  <2>1. CASE TickStep
    BY <1>1, <2>1, TickKeepsSlots, NoNewGroup
  <2>2. ASSUME NEW i \in InitIds, InitStep(i)
        PROVE  ActiveGroups' <= ActiveGroups
    BY <1>1, <2>2, InitKeepsSlots, NoNewGroup
  <2>3. ASSUME NEW j \in MoveIds, MoveStep(j)
        PROVE  ActiveGroups' <= ActiveGroups
    BY <1>1, <2>3, MoveKeepsSlots, NoNewGroup
  <2>4. CASE Outside
    BY <1>1, <2>4, OutsideKeepsSlots, NoNewGroup
  <2>5. CASE UNCHANGED vars
    BY <2>5, UntouchedStartsNone, NoNewGroup DEF vars
  <2>6. QED
    BY <1>1, <2>1, <2>2, <2>3, <2>4, <2>5 DEF Next
<1>2. QED
  BY <1>1, TypeInvHolds, PTL DEF Spec, SlotsHeld

-----------------------------------------------------------------------------
(* Deleted rows.  What could still bring one back is a snapshot that names  *)
(* it: the groups the tick has yet to reconcile, and the goroutines that    *)
(* resolve a torrent for it.  Once none does, none ever will.               *)

NamedByInit(i, r) == r \in inits[i].members \cup inits[i].todo \cup inits[i].failing
Unnamed(r) == /\ \A g \in tick.todo : r \notin g
              /\ \A i \in InitIds : ~NamedByInit(i, r)
GoneForGood(r) == status[r] = "deleted" /\ r \notin tracked /\ pending[r] = None /\ Unnamed(r)

LEMMA DeletedNotUpdated ==
    ASSUME NEW r \in Rows, status[r] = "deleted", NEW S, NEW from \in SUBSET Stored, NEW to,
           status' = Updated(S, from, to)
    PROVE  status'[r] = "deleted"
BY DEF Updated, Stored

LEMMA MapsOfOthers ==
    ASSUME NEW r \in Rows, pending[r] = None, NEW S
    PROVE  clearPending(S)[r] = None
BY DEF clearPending

LEMMA DeletedNotListed ==
    ASSUME NEW r, status[r] = "deleted"
    PROVE  r \notin Having("downloading") /\ r \notin Having("queued")
BY DEF Having

LEMMA DrivenOfGroup ==
    ASSUME NEW g
    PROVE  Driven(g) \subseteq g
<1>1. CASE g \cap Whole = {}
  BY <1>1 DEF Driven
<1>2. CASE g \cap Whole # {}
  <2>1. PICK r \in g \cap Whole : r = CHOOSE s \in g \cap Whole : TRUE
    BY <1>2
  <2>2. QED
    BY <1>2, <2>1 DEF Driven
<1>3. QED
  BY <1>1, <1>2

\* The tick reads the rows anew, or goes on with fewer groups.
LEMMA TickKeepsGone ==
    ASSUME TypeInv, NEW r \in Rows, GoneForGood(r), TickStep
    PROVE  GoneForGood(r)'
<1> USE DEF GoneForGood, Unnamed, NamedByInit, TypeInv, mapVars, storeVars
<1>1. tick \in TickRecs
  BY DEF Types
<1>2. CASE tickUntrack
  <2>1. \A g \in GroupRows(Having("downloading")) : r \notin Driven(g)
    <3>1. Having("downloading") \subseteq Rows
      BY DEF Having
    <3>2. QED
      BY <3>1, DeletedNotListed, GroupsOfRows, DrivenOfGroup
  <2>2. tick'.todo = {Driven(g) : g \in GroupRows(Having("downloading"))}
    BY <1>2 DEF tickUntrack, IdleTick
  <2>3. QED
    BY <1>2, <2>1, <2>2, MapsOfOthers DEF tickUntrack
<1>3. CASE tickDrop
  <2>1. tick'.todo = tick.todo
    BY <1>1, <1>3 DEF tickDrop, TickRecs
  <2>2. QED
    BY <1>3, <2>1 DEF tickDrop
<1>4. ASSUME NEW g \in tick.todo, Reconciled(g)
      PROVE  \A h \in tick'.todo : r \notin h
  BY <1>1, <1>4 DEF Reconciled, TickRecs
<1>5. ASSUME NEW g \in tick.todo, StartInit(g) PROVE GoneForGood(r)'
  <2>1. PICK i \in FreeInits :
          /\ inits' = [inits EXCEPT ![i] =
                         [FreeInit EXCEPT !.pc = "resolve", !.members = g]]
          /\ pending' = [s \in Rows |-> IF s \in g THEN i ELSE pending[s]]
    BY <1>5 DEF StartInit
  <2>2. \A k \in InitIds : ~NamedByInit(k, r)'
    BY <2>1 DEF FreeInits, FreeInit, Types
  <2>3. \A h \in tick'.todo : r \notin h
    BY <1>4, <1>5 DEF StartInit
  <2>4. QED
    BY <1>5, <2>1, <2>2, <2>3 DEF StartInit
<1>6. ASSUME NEW g \in tick.todo, AwaitInit(g) \/ adoptSiblings(g) \/ sampleGroup(g)
      PROVE  GoneForGood(r)'
  <2>1. \A h \in tick'.todo : r \notin h
    BY <1>4, <1>6 DEF AwaitInit, adoptSiblings, sampleGroup
  <2>2. QED
    BY <1>6, <2>1 DEF AwaitInit, adoptSiblings, sampleGroup
<1>7. ASSUME NEW g \in tick.todo, checkCompletion(g) \/ completeGroup(g)
      PROVE  GoneForGood(r)'
  <2>1. \A h \in tick'.todo : r \notin h
    BY <1>4, <1>7 DEF checkCompletion, completeGroup
  <2>2. status'[r] = "deleted"
    <3>1. CASE checkCompletion(g)
      BY <3>1, DeletedNotUpdated DEF checkCompletion
    <3>2. CASE completeGroup(g)
      BY <3>2, DeletedNotUpdated DEF completeGroup, Stored, Statuses
    <3>3. QED
      BY <1>7, <3>1, <3>2
  <2>3. QED
    BY <1>7, <2>1, <2>2 DEF checkCompletion, completeGroup
<1>8. CASE StallStep
  <2>1. ASSUME NEW victims \in SUBSET tracked, detectStalls(victims)
        PROVE  \A g \in tick'.todo : r \notin g
    <3>1. tick'.todo = GroupRows(victims)
      BY <1>1, <2>1 DEF detectStalls, TickRecs
    <3>2. r \notin victims /\ victims \subseteq Rows
      BY DEF Types
    <3>3. QED
      BY <3>1, <3>2, GroupsOfRows
  <2>2. ASSUME NEW g \in tick.todo, DemoteGroup(g) \/ NoneDemoted(g) \/ untrackStalled(g)
        PROVE  \A h \in tick'.todo : r \notin h
    <3>1. tick'.todo = tick.todo \/ tick'.todo = tick.todo \ {g}
      BY <1>1, <2>2 DEF DemoteGroup, NoneDemoted, untrackStalled, Reconciled, TickRecs
    <3>2. QED
      BY <3>1
  <2>3. ASSUME pauseStalled PROVE \A h \in tick'.todo : r \notin h
    <3>1. tick'.todo = tick.todo
      BY <1>1, <2>3 DEF pauseStalled, TickRecs
    <3>2. QED
      BY <3>1
  <2>4. \A h \in tick'.todo : r \notin h
    BY <1>8, <2>1, <2>2, <2>3 DEF StallStep
  <2>5. QED
    BY <1>8, <2>4, StallsWrite
<1>9. CASE applySchedule
  <2> DEFINE listed == Having("downloading") \cup Having("queued")
  <2>1. r \notin listed /\ listed \subseteq Rows
    BY DeletedNotListed DEF Having
  <2>2. \A plan \in SUBSET GroupRows(listed) : r \notin UNION plan
    BY <2>1, GroupsOfRows
  <2>3. status'[r] = "deleted" /\ pending'[r] = None
    BY <1>9, <2>1, <2>2, MapsOfOthers DEF applySchedule
  <2>4. tick'.todo = {} /\ tracked' \subseteq tracked /\ UNCHANGED inits
    BY <1>9 DEF applySchedule, IdleTick
  <2>5. QED
    BY <2>3, <2>4
<1>10. CASE sweepList \/ sweepPrune
  <2>1. tick'.todo \subseteq tick.todo
    BY <1>1, <1>10 DEF sweepList, sweepPrune, IdleTick, TickRecs
  <2>2. QED
    BY <1>10, <2>1 DEF sweepList, sweepPrune
<1>11. CASE sweepRescue
  <2>1. status'[r] = "deleted" /\ tick'.todo = {}
    BY <1>11, DeletedNotUpdated DEF sweepRescue, IdleTick
  <2>2. QED
    BY <1>11, <2>1 DEF sweepRescue
<1>12. QED
  BY <1>2, <1>3, <1>5, <1>6, <1>7, <1>8, <1>9, <1>10, <1>11 DEF TickStep

LEMMA InitKeepsGone ==
    ASSUME TypeInv, NEW r \in Rows, GoneForGood(r), NEW i \in InitIds, InitStep(i)
    PROVE  GoneForGood(r)'
<1> USE DEF GoneForGood, Unnamed, TypeInv, mapVars, storeVars
<1>1. inits[i] \in InitRecs /\ inits \in [InitIds -> InitRecs]
  BY DEF Types
<1>2. ASSUME NEW s, SetInit(i, s), UNCHANGED tick, r \notin s.members \cup s.todo \cup s.failing
      PROVE  Unnamed(r)'
  BY <1>1, <1>2 DEF SetInit, NamedByInit
<1>3. r \notin inits[i].members \cup inits[i].todo \cup inits[i].failing
  BY DEF NamedByInit
<1>4. CASE resolve(i)
  BY <1>1, <1>2, <1>3, <1>4 DEF resolve, InitRecs
<1>5. CASE promoteOrAbort(i)
  <2>1. PICK x \in inits[i].todo : x = CHOOSE y \in inits[i].todo : TRUE
    BY <1>5 DEF promoteOrAbort
  <2>2. tracked' \subseteq tracked \cup {x}
    BY <1>5, <2>1 DEF promoteOrAbort
  <2>3. Unnamed(r)'
    BY <1>1, <1>2, <1>3, <1>5 DEF promoteOrAbort, InitRecs
  <2>4. QED
    BY <1>3, <1>5, <2>2, <2>3 DEF promoteOrAbort
<1>6. ASSUME NEW x \in inits[i].todo, trackMember(i, x) PROVE GoneForGood(r)'
  <2>1. Unnamed(r)'
    BY <1>1, <1>2, <1>3, <1>6 DEF trackMember, InitRecs
  <2>2. QED
    BY <1>3, <1>6, <2>1 DEF trackMember
<1>7. CASE resolveFailed(i)
  BY <1>1, <1>2, <1>3, <1>7 DEF resolveFailed, InitRecs
<1>8. ASSUME NEW x \in inits[i].todo, failOrRetry(i, x) PROVE GoneForGood(r)'
  <2>1. PICK s : /\ SetInit(i, s) /\ s.members = inits[i].members
                 /\ s.todo \subseteq inits[i].todo /\ s.failing \subseteq inits[i].failing \cup {x}
    <3>1. PICK s : /\ SetInit(i, s) /\ s.members = inits[i].members
                   /\ s.todo = inits[i].todo \ {x}
                   /\ s.failing = inits[i].failing \/ s.failing = {x}
      BY <1>8, FailureCharged
    <3>2. QED
      BY <3>1
  <2>2. Unnamed(r)'
    BY <1>1, <1>2, <1>3, <1>8, <2>1 DEF failOrRetry, InitRecs
  <2>3. QED
    BY <1>8, <2>2 DEF failOrRetry
<1>9. ASSUME NEW x \in inits[i].failing, SetError(i, x) PROVE GoneForGood(r)'
  <2>1. Unnamed(r)'
    BY <1>1, <1>2, <1>3, <1>9 DEF SetError, InitRecs
  <2>2. status'[r] = "deleted"
    BY <1>9, DeletedNotUpdated DEF SetError
  <2>3. QED
    BY <1>9, <2>1, <2>2 DEF SetError
<1>12. CASE noFiles(i) \/ deleteRetries(i)
  BY <1>1, <1>2, <1>3, <1>12 DEF noFiles, deleteRetries, InitRecs
<1>10. CASE initExit(i)
  <2>1. Unnamed(r)'
    BY <1>2, <1>10 DEF initExit, FreeInit
  <2>2. QED
    BY <1>10, <2>1, MapsOfOthers DEF initExit
<1>11. QED
  BY <1>4, <1>5, <1>6, <1>7, <1>8, <1>9, <1>10, <1>12 DEF InitStep

LEMMA MoveKeepsGone ==
    ASSUME NEW r \in Rows, GoneForGood(r), NEW j \in MoveIds, MoveStep(j)
    PROVE  GoneForGood(r)'
<1> USE DEF GoneForGood, Unnamed, NamedByInit, mapVars, storeVars
<1>1. UNCHANGED <<tracked, pending, tick, inits>>
  BY DEF MoveStep, attemptCompletionMove, storeCompleted, storeFailed, reseedAfterCompletion,
     attemptFailed, retryMove, giveUp, abortOnStop, recordFailure, abandon
<1>2. status'[r] = "deleted"
  <2>1. CASE storeCompleted(j)
    BY <2>1, DeletedNotUpdated DEF storeCompleted, Stored, Statuses
  <2>2. CASE recordFailure(j)
    BY <2>2, DeletedNotUpdated DEF recordFailure
  <2>3. CASE \/ attemptCompletionMove(j) \/ storeFailed(j) \/ reseedAfterCompletion(j)
             \/ attemptFailed(j) \/ retryMove(j)
    BY <2>3 DEF attemptCompletionMove, storeFailed, reseedAfterCompletion, attemptFailed, retryMove
  <2>4. CASE giveUp(j) \/ abortOnStop(j)
    BY <2>2, <2>4 DEF giveUp, abortOnStop
  <2>5. QED
    BY <2>1, <2>2, <2>3, <2>4 DEF MoveStep
<1>3. QED
  BY <1>1, <1>2

LEMMA OutsideKeepsGone ==
    ASSUME TypeInv, NEW r \in Rows, GoneForGood(r), Outside
    PROVE  GoneForGood(r)'
<1> USE DEF GoneForGood, Unnamed, NamedByInit, mapVars, storeVars
<1>1. ASSUME NEW x \in Rows, Pause(x) \/ Requeue(x) \/ RequeueByID(x) PROVE GoneForGood(r)'
  BY <1>1 DEF Pause, Requeue, RequeueByID, Write, TypeInv, Types
<1>2. ASSUME NEW x \in Rows, Recheck(x) \/ DeleteScoped(x) PROVE GoneForGood(r)'
  BY <1>2 DEF Recheck, DeleteScoped, Stored, TypeInv, Types
<1>3. ASSUME NEW x \in Rows, Remove(x) PROVE GoneForGood(r)'
  BY <1>3, MapsOfOthers DEF Remove
<1>4. ASSUME NEW x \in Rows, Fetch(x) PROVE GoneForGood(r)'
  BY <1>4 DEF Fetch
<1>5. ASSUME NEW t \in Torrents, Evict(t) PROVE GoneForGood(r)'
  BY <1>5 DEF Evict
<1>6. CASE Stop
  BY <1>6 DEF Stop
<1>7. CASE Restart
  <2>1. status'[r] = "deleted"
    BY <1>7 DEF Restart, Having
  <2>2. tick'.todo = {} /\ \A i \in InitIds : ~NamedByInit(i, r)'
    BY <1>7 DEF Restart, IdleTick, FreeInit
  <2>3. QED
    BY <1>7, <2>1, <2>2 DEF Restart
<1>8. QED
  BY <1>1, <1>2, <1>3, <1>4, <1>5, <1>6, <1>7 DEF Outside

DeletedForGood == [][\A r \in Rows : GoneForGood(r) => GoneForGood(r)']_vars

(* A deleted row that is forgotten, and that no snapshot of the tick or of  *)
(* an init names any more, is never tracked or resolved again, whatever the *)
(* handlers call, the goroutines write late or a restart reads: the         *)
(* tombstones of Remove need not outlive the inits they were set for.       *)
THEOREM DeletedStayGone == Spec => DeletedForGood
<1>1. TypeInv /\ [Next]_vars => [\A r \in Rows : GoneForGood(r) => GoneForGood(r)']_vars
  <2> SUFFICES ASSUME TypeInv, Next, NEW r \in Rows, GoneForGood(r) PROVE GoneForGood(r)'
    OBVIOUS
  <2>1. QED
    BY TickKeepsGone, InitKeepsGone, MoveKeepsGone, OutsideKeepsGone DEF Next
<1>2. QED
  BY <1>1, TypeInvHolds, PTL DEF Spec, DeletedForGood

-----------------------------------------------------------------------------
(* Termination.  What a tick, an init and a move still have to do is a      *)
(* number of steps, and each of their steps lowers it.                      *)

MostGroups == 3 * Cardinality(SUBSET Rows)

TickRank ==
    CASE tick.pc = "idle"    -> 0
      [] tick.pc = "rescue"  -> 1
      [] tick.pc = "prune"   -> 2
      [] tick.pc = "sweep"   -> 3
      [] tick.pc = "stalls"  -> 4 + 3 * Cardinality(tick.todo)
      [] tick.pc = "untrack" -> 3 + 3 * Cardinality(tick.todo)
      [] tick.pc = "pause"   -> 5 + 3 * Cardinality(tick.todo)
      [] tick.pc = "groups"  -> 5 + MostGroups + Cardinality(tick.todo)
      [] tick.pc = "drop"    -> 6 + MostGroups + Cardinality(tick.todo)

InitRank(i) ==
    3 * Cardinality(inits[i].todo) + Cardinality(inits[i].failing)
    + CASE inits[i].pc = "free"              -> 0
        [] inits[i].pc \in {"track", "fail"} -> 1
        [] inits[i].pc = "spent"             -> 2
        [] inits[i].pc = "resolve"           -> 2 + 3 * Cardinality(inits[i].members)

TriesLeft(j) == MoveMaxAttempts - moves[j].tries
MoveRank(j) ==
    CASE moves[j].pc = "free"    -> 0
      [] moves[j].pc = "reseed"  -> 1
      [] moves[j].pc = "store"   -> 2
      [] moves[j].pc = "move"    -> 1 + 2 * TriesLeft(j)
      [] moves[j].pc = "backoff" -> 2 + 2 * TriesLeft(j)

TriesWithin == \A j \in MoveIds : moves[j].tries < MoveMaxAttempts

TickGoesOn == tick.pc = "idle" \/ tick' = tick \/ TickRank' < TickRank
InitsGoOn  == \A i \in InitIds :
    inits[i].pc = "free" \/ inits'[i] = inits[i] \/ InitRank(i)' < InitRank(i)
MovesGoOn  == \A j \in MoveIds :
    moves[j].pc = "free" \/ moves'[j] = moves[j] \/ MoveRank(j)' < MoveRank(j)

LEMMA OneLess ==
    ASSUME NEW S, IsFiniteSet(S), NEW x \in S
    PROVE  Cardinality(S \ {x}) \in Nat /\ Cardinality(S) = Cardinality(S \ {x}) + 1
<1>1. Cardinality(S \ {x}) = Cardinality(S) - 1 /\ IsFiniteSet(S \ {x})
  BY FS_RemoveElement
<1>2. QED
  BY <1>1, FS_CardinalityType

LEMMA FewAtHand ==
    ASSUME Types
    PROVE  /\ IsFiniteSet(tick.todo) /\ Cardinality(tick.todo) \in Nat /\ MostGroups \in Nat
           /\ \A S \in SUBSET Rows : IsFiniteSet(S) /\ Cardinality(S) \in Nat
           /\ \A G \in SUBSET (SUBSET Rows) :
                Cardinality(G) \in Nat /\ 3 * Cardinality(G) <= MostGroups
<1>1. \A S \in SUBSET Rows : IsFiniteSet(S)
  BY RowsAssumption, FS_Subset
<1>2. IsFiniteSet(SUBSET Rows) /\ tick.todo \subseteq SUBSET Rows
  BY RowsAssumption, FS_SUBSET DEF Types, TickRecs
<1>3. \A G \in SUBSET (SUBSET Rows) : IsFiniteSet(G) /\ Cardinality(G) <= Cardinality(SUBSET Rows)
  BY <1>2, FS_Subset
<1>4. Cardinality(SUBSET Rows) \in Nat
  BY <1>2, FS_CardinalityType
<1>5. ASSUME NEW G \in SUBSET (SUBSET Rows)
      PROVE  IsFiniteSet(G) /\ Cardinality(G) \in Nat /\ 3 * Cardinality(G) <= MostGroups
  <2>1. IsFiniteSet(G) /\ Cardinality(G) <= Cardinality(SUBSET Rows)
    BY <1>3
  <2>2. Cardinality(G) \in Nat
    BY <2>1, FS_CardinalityType
  <2>3. \A m, n \in Nat : m <= n => 3 * m <= 3 * n
    OBVIOUS
  <2>4. QED
    BY <1>4, <2>1, <2>2, <2>3 DEF MostGroups
<1>6. \A S \in SUBSET Rows : IsFiniteSet(S) /\ Cardinality(S) \in Nat
  BY <1>1, FS_CardinalityType
<1>7. MostGroups \in Nat
  BY <1>4 DEF MostGroups
<1>8. QED
  BY <1>2, <1>5, <1>6, <1>7

LEMMA TickRunsDown ==
    ASSUME TypeInv, TickStep
    PROVE  TickGoesOn
<1>1. tick \in TickRecs /\ Cardinality(tick.todo) \in Nat /\ MostGroups \in Nat
  BY FewAtHand DEF TypeInv, Types
<1>2. CASE tickUntrack
  BY <1>2 DEF tickUntrack, TickGoesOn
<1>3. CASE tickDrop
  <2>1. tick'.todo = tick.todo /\ tick'.pc = "groups" /\ tick.pc = "drop"
    BY <1>1, <1>3 DEF tickDrop, TickRecs
  <2>2. QED
    BY <1>1, <2>1 DEF TickGoesOn, TickRank
<1>4. ASSUME NEW g \in tick.todo, tick.pc = "groups", Reconciled(g)
      PROVE  TickGoesOn
  <2>1. tick'.todo = tick.todo \ {g} /\ tick'.pc = "groups"
    BY <1>1, <1>4 DEF Reconciled, TickRecs
  <2>2. Cardinality(tick.todo) = Cardinality(tick'.todo) + 1 /\ Cardinality(tick'.todo) \in Nat
    BY <2>1, FewAtHand, OneLess DEF TypeInv
  <2>3. /\ TickRank = 5 + MostGroups + Cardinality(tick.todo)
        /\ TickRank' = 5 + MostGroups + Cardinality(tick'.todo)
    BY <1>4, <2>1 DEF TickRank, MostGroups
  <2>4. QED
    BY <1>1, <2>2, <2>3 DEF TickGoesOn
<1>5. ASSUME NEW g \in tick.todo,
             StartInit(g) \/ AwaitInit(g) \/ adoptSiblings(g) \/ sampleGroup(g)
             \/ checkCompletion(g) \/ completeGroup(g)
      PROVE  TickGoesOn
  BY <1>4, <1>5
     DEF StartInit, AwaitInit, adoptSiblings, sampleGroup, checkCompletion, completeGroup
<1>6. CASE StallStep
  <2>1. ASSUME NEW victims \in SUBSET tracked, detectStalls(victims)
        PROVE  TickGoesOn
    <3>1. tick'.todo = GroupRows(victims) /\ tick'.pc = "stalls"
          /\ tick.pc = "groups" /\ tick.todo = {}
      BY <1>1, <2>1 DEF detectStalls, GroupsReconciled, TickRecs
    <3>2. victims \in SUBSET Rows
      BY DEF TypeInv, Types
    <3>3. tick'.todo \in SUBSET (SUBSET Rows)
      BY <3>1, <3>2, GroupsOfRows
    <3>4. Cardinality(tick'.todo) \in Nat /\ 3 * Cardinality(tick'.todo) <= MostGroups
      BY <3>3, FewAtHand DEF TypeInv
    <3>5. TickRank' = 4 + 3 * Cardinality(tick'.todo)
      BY <3>1 DEF TickRank
    <3>6. TickRank = 5 + MostGroups + Cardinality(tick.todo)
      BY <3>1 DEF TickRank
    <3>7. QED
      BY <1>1, <3>4, <3>5, <3>6 DEF TickGoesOn
  <2>2. ASSUME NEW g \in tick.todo, DemoteGroup(g)
        PROVE  TickGoesOn
    <3>1. tick'.todo = tick.todo /\ tick'.pc = "untrack" /\ tick.pc = "stalls"
      BY <1>1, <2>2 DEF DemoteGroup, TickRecs
    <3>2. QED
      BY <1>1, <3>1 DEF TickGoesOn, TickRank
  <2>3. ASSUME NEW g \in tick.todo, NoneDemoted(g) \/ untrackStalled(g)
        PROVE  TickGoesOn
    <3>1. /\ tick'.todo = tick.todo \ {g}
          /\ \/ tick'.pc = "stalls" /\ tick.pc = "stalls"
             \/ tick'.pc = "pause" /\ tick.pc = "untrack"
      BY <1>1, <2>3 DEF NoneDemoted, untrackStalled, Reconciled, TickRecs
    <3>2. Cardinality(tick.todo) = Cardinality(tick'.todo) + 1 /\ Cardinality(tick'.todo) \in Nat
      BY <3>1, FewAtHand, OneLess DEF TypeInv
    <3>3. QED
      BY <3>1, <3>2 DEF TickGoesOn, TickRank
  <2>4. CASE pauseStalled
    <3>1. tick'.todo = tick.todo /\ tick'.pc = "stalls" /\ tick.pc = "pause"
      BY <1>1, <2>4 DEF pauseStalled, TickRecs
    <3>2. QED
      BY <1>1, <3>1 DEF TickGoesOn, TickRank
  <2>5. QED
    BY <1>6, <2>1, <2>2, <2>3, <2>4 DEF StallStep
<1>7. CASE applySchedule
  <2>1. tick.pc \in {"groups", "stalls"} /\ tick'.pc \in {"idle", "sweep"}
    BY <1>7 DEF applySchedule, IdleTick
  <2>2. QED
    BY <1>1, <2>1 DEF TickGoesOn, TickRank
<1>8. CASE sweepList
  <2>1. tick.pc = "sweep" /\ tick'.pc = "prune"
    BY <1>8 DEF sweepList, IdleTick
  <2>2. QED
    BY <2>1 DEF TickGoesOn, TickRank
<1>9. CASE sweepPrune
  <2>1. tick.pc = "prune" /\ tick'.pc = "rescue"
    BY <1>1, <1>9 DEF sweepPrune, TickRecs
  <2>2. QED
    BY <2>1 DEF TickGoesOn, TickRank
<1>10. CASE sweepRescue
  <2>1. tick.pc = "rescue" /\ tick'.pc = "idle"
    BY <1>10 DEF sweepRescue, IdleTick
  <2>2. QED
    BY <2>1 DEF TickGoesOn, TickRank
<1>11. QED
  BY <1>2, <1>3, <1>5, <1>6, <1>7, <1>8, <1>9, <1>10 DEF TickStep

LEMMA InitRunsDown ==
    ASSUME TypeInv, NEW i \in InitIds, InitStep(i)
    PROVE  InitsGoOn
<1> DEFINE todo == Cardinality(inits[i].todo)
           failing == Cardinality(inits[i].failing)
           members == Cardinality(inits[i].members)
<1>1. /\ inits[i] \in InitRecs /\ inits[i].pc \in InitPcs
      /\ inits \in [InitIds -> InitRecs]
  BY DEF TypeInv, Types, InitRecs
<1>2. todo \in Nat /\ failing \in Nat /\ members \in Nat
  BY <1>1, FewAtHand DEF TypeInv, InitRecs
<1>3. ASSUME InitRank(i)' < InitRank(i) PROVE InitsGoOn
  <2>1. \E s : SetInit(i, s)
    <3>1. ASSUME NEW r, trackMember(i, r) \/ failOrRetry(i, r) PROVE \E s : SetInit(i, s)
      BY <3>1 DEF trackMember, failOrRetry
    <3>2. CASE \/ resolve(i) \/ promoteOrAbort(i) \/ noFiles(i) \/ resolveFailed(i)
               \/ deleteRetries(i) \/ initExit(i) \/ \E r \in inits[i].failing : SetError(i, r)
      BY <3>2 DEF resolve, promoteOrAbort, noFiles, resolveFailed, deleteRetries, SetError, initExit
    <3>3. QED
      BY <3>1, <3>2 DEF InitStep
  <2>2. QED
    BY <1>1, <1>3, <2>1 DEF InitsGoOn, SetInit
<1>4. ASSUME inits[i].pc \in {"track", "fail"}, inits'[i].pc = inits[i].pc,
             NEW t, NEW f, Cardinality(inits'[i].todo) = t, Cardinality(inits'[i].failing) = f,
             3 * t + f < 3 * todo + failing, t \in Nat, f \in Nat
      PROVE  InitsGoOn
  <2>1. InitRank(i)' = 3 * t + f + 1
    BY <1>4 DEF InitRank
  <2>2. InitRank(i) = 3 * todo + failing + 1
    BY <1>4 DEF InitRank
  <2>3. QED
    BY <1>2, <1>3, <1>4, <2>1, <2>2
<1>5. CASE resolve(i) \/ resolveFailed(i)
  <2>1. PICK pc \in {"track", "fail"} :
          inits' = [inits EXCEPT ![i] = [inits[i] EXCEPT !.pc = pc, !.todo = inits[i].members]]
    BY <1>5 DEF resolve, resolveFailed, SetInit
  <2>2. /\ inits'[i].todo = inits[i].members /\ inits'[i].failing = inits[i].failing
        /\ inits'[i].pc \in {"track", "fail"} /\ inits[i].pc = "resolve"
    BY <1>1, <1>5, <2>1 DEF resolve, resolveFailed, InitRecs
  <2>3. InitRank(i)' = 3 * members + failing + 1
    BY <2>2 DEF InitRank
  <2>4. InitRank(i) = 3 * todo + failing + (2 + 3 * members)
    BY <2>2 DEF InitRank
  <2>5. QED
    BY <1>2, <1>3, <2>3, <2>4
<1>6. CASE promoteOrAbort(i)
  <2>1. /\ inits'[i].todo = {} /\ inits'[i].failing = inits[i].failing
        /\ inits'[i].pc = "track" /\ inits[i].pc = "track" /\ inits[i].todo # {}
    BY <1>1, <1>6 DEF promoteOrAbort, SetInit, InitRecs
  <2>2. todo # 0
    BY <1>1, <2>1, FewAtHand, FS_EmptySet DEF TypeInv, InitRecs
  <2>3. Cardinality(inits'[i].todo) = 0 /\ Cardinality(inits'[i].failing) = failing
    BY <2>1, FS_EmptySet
  <2>4. 3 * 0 + failing < 3 * todo + failing
    BY <1>2, <2>2
  <2>5. QED
    BY <1>2, <1>4, <2>1, <2>3, <2>4
<1>7. ASSUME NEW r \in inits[i].todo, inits'[i].todo = inits[i].todo \ {r}
      PROVE  \E t \in Nat : Cardinality(inits'[i].todo) = t /\ todo = t + 1
  BY <1>1, <1>7, FewAtHand, OneLess DEF TypeInv, InitRecs
<1>8. ASSUME NEW r \in inits[i].todo, trackMember(i, r) PROVE InitsGoOn
  <2>1. /\ inits'[i].todo = inits[i].todo \ {r} /\ inits'[i].failing = inits[i].failing
        /\ inits'[i].pc = "track" /\ inits[i].pc = "track"
    BY <1>1, <1>8 DEF trackMember, SetInit, InitRecs
  <2>2. PICK t \in Nat : Cardinality(inits'[i].todo) = t /\ todo = t + 1
    BY <1>7, <2>1
  <2>3. Cardinality(inits'[i].failing) = failing
    BY <2>1
  <2>4. 3 * t + failing < 3 * todo + failing
    BY <1>2, <2>2
  <2>5. QED
    BY <1>2, <1>4, <2>1, <2>2, <2>3, <2>4
<1>9. ASSUME NEW r \in inits[i].todo, failOrRetry(i, r) PROVE InitsGoOn
  <2>1. inits[i].pc = "fail" /\ inits[i].failing = {}
    BY <1>9 DEF failOrRetry
  <2>2. /\ inits'[i].todo = inits[i].todo \ {r}
        /\ \/ inits'[i].pc = "fail" /\ inits'[i].failing = inits[i].failing
           \/ inits'[i].pc = "spent" /\ inits'[i].failing = {r}
    BY <1>1, <1>9, FailureCharged DEF SetInit, TypeInv
  <2>3. PICK t \in Nat : Cardinality(inits'[i].todo) = t /\ todo = t + 1
    BY <1>7, <2>2
  <2>4. failing = 0 /\ InitRank(i) = 3 * todo + failing + 1
    BY <2>1, FS_EmptySet DEF InitRank
  <2>5. CASE inits'[i].pc = "fail"
    <3>1. InitRank(i)' = 3 * t + failing + 1
      BY <2>2, <2>3, <2>5 DEF InitRank
    <3>2. QED
      BY <1>2, <1>3, <2>3, <2>4, <3>1
  <2>6. CASE inits'[i].pc = "spent"
    <3>1. Cardinality(inits'[i].failing) = 1
      BY <2>2, <2>6, FS_Singleton
    <3>2. InitRank(i)' = 3 * t + 1 + 2
      BY <2>3, <2>6, <3>1 DEF InitRank
    <3>3. QED
      BY <1>2, <1>3, <2>3, <2>4, <3>2
  <2>7. QED
    BY <2>2, <2>5, <2>6
<1>10. ASSUME NEW r \in inits[i].failing, SetError(i, r) PROVE InitsGoOn
  <2>1. /\ inits'[i].todo = inits[i].todo /\ inits'[i].failing = inits[i].failing \ {r}
        /\ inits'[i].pc = "fail" /\ inits[i].pc = "fail"
    BY <1>1, <1>10 DEF SetError, SetInit, InitRecs
  <2>2. PICK f \in Nat : Cardinality(inits'[i].failing) = f /\ failing = f + 1
    BY <1>1, <2>1, FewAtHand, OneLess DEF TypeInv, InitRecs
  <2>3. Cardinality(inits'[i].todo) = todo /\ 3 * todo + f < 3 * todo + failing
    BY <1>2, <2>1, <2>2
  <2>4. QED
    BY <1>2, <1>4, <2>1, <2>2, <2>3
<1>13. CASE deleteRetries(i)
  <2>1. /\ inits'[i].todo = inits[i].todo /\ inits'[i].failing = inits[i].failing
        /\ inits'[i].pc = "fail" /\ inits[i].pc = "spent"
    BY <1>1, <1>13 DEF deleteRetries, SetInit, InitRecs
  <2>2. InitRank(i)' = 3 * todo + failing + 1 /\ InitRank(i) = 3 * todo + failing + 2
    BY <2>1 DEF InitRank
  <2>3. QED
    BY <1>2, <1>3, <2>2
<1>14. CASE noFiles(i)
  <2>1. /\ inits'[i].todo = inits[i].todo /\ inits'[i].failing = inits[i].members
        /\ inits'[i].pc = "fail" /\ inits[i].pc = "resolve"
    BY <1>1, <1>14 DEF noFiles, SetInit, InitRecs
  <2>2. InitRank(i)' = 3 * todo + members + 1
    BY <2>1 DEF InitRank
  <2>3. InitRank(i) = 3 * todo + failing + (2 + 3 * members)
    BY <2>1 DEF InitRank
  <2>4. QED
    BY <1>2, <1>3, <2>2, <2>3
<1>11. CASE initExit(i)
  <2>1. inits'[i] = FreeInit /\ inits[i].pc \in {"track", "fail"}
    BY <1>1, <1>11 DEF initExit, SetInit
  <2>2. InitRank(i)' = 0
    BY <2>1, FS_EmptySet DEF InitRank, FreeInit
  <2>3. InitRank(i) = 3 * todo + failing + 1
    BY <2>1 DEF InitRank
  <2>4. QED
    BY <1>2, <1>3, <2>2, <2>3
<1>12. QED
  BY <1>5, <1>6, <1>8, <1>9, <1>10, <1>11, <1>13, <1>14 DEF InitStep

LEMMA MoveRunsDown ==
    ASSUME TypeInv, TriesWithin, NEW j \in MoveIds, MoveStep(j)
    PROVE  MovesGoOn /\ TriesWithin'
<1>1. /\ moves[j] \in MoveRecs /\ moves \in [MoveIds -> MoveRecs]
      /\ moves[j].tries \in Nat /\ moves[j].tries < MoveMaxAttempts
      /\ MoveMaxAttempts \in Nat \ {0}
  BY WorkerNumbers DEF TypeInv, Types, MoveRecs, TriesWithin
<1>2. ASSUME moves'[j].tries < MoveMaxAttempts, MoveRank(j)' < MoveRank(j)
      PROVE  MovesGoOn /\ TriesWithin'
  <2>1. PICK s : moves' = [moves EXCEPT ![j] = s]
    BY DEF MoveStep, SetMove, attemptCompletionMove, storeCompleted, storeFailed,
       reseedAfterCompletion, attemptFailed, retryMove, giveUp, abortOnStop, recordFailure, abandon
  <2>2. QED
    BY <1>1, <1>2, <2>1 DEF MovesGoOn, TriesWithin
<1>3. CASE attemptCompletionMove(j)
  <2>1. /\ moves[j].pc = "move" /\ moves'[j].pc = "store"
        /\ moves'[j].tries = moves[j].tries
    BY <1>1, <1>3 DEF attemptCompletionMove, SetMove, MoveRecs
  <2>2. MoveRank(j)' = 2
    BY <2>1 DEF MoveRank
  <2>3. MoveRank(j) = 1 + 2 * (MoveMaxAttempts - moves[j].tries)
    BY <2>1 DEF MoveRank, TriesLeft
  <2>4. QED
    BY <1>1, <1>2, <2>1, <2>2, <2>3
<1>4. CASE storeCompleted(j) \/ storeFailed(j)
  <2>1. /\ moves[j].pc = "store" /\ moves'[j].pc = "reseed"
        /\ moves'[j].tries = moves[j].tries
    BY <1>1, <1>4 DEF storeCompleted, storeFailed, SetMove, MoveRecs
  <2>2. MoveRank(j)' = 1 /\ MoveRank(j) = 2
    BY <2>1 DEF MoveRank
  <2>3. QED
    BY <1>1, <1>2, <2>1, <2>2
<1>5. CASE attemptFailed(j)
  <2>1. /\ moves'[j].tries = moves[j].tries + 1 /\ moves[j].tries + 1 < MoveMaxAttempts
        /\ moves[j].pc = "move" /\ moves'[j].pc = "backoff"
    BY <1>1, <1>5 DEF attemptFailed, SetMove, MoveRecs
  <2>2. MoveRank(j) = 1 + 2 * (MoveMaxAttempts - moves[j].tries)
    BY <2>1 DEF MoveRank, TriesLeft
  <2>3. MoveRank(j)' = 2 + 2 * (MoveMaxAttempts - (moves[j].tries + 1))
    BY <2>1 DEF MoveRank, TriesLeft
  <2>4. QED
    BY <1>1, <1>2, <2>1, <2>2, <2>3
<1>6. CASE retryMove(j)
  <2>1. /\ moves'[j].tries = moves[j].tries
        /\ moves[j].pc = "backoff" /\ moves'[j].pc = "move"
    BY <1>1, <1>6 DEF retryMove, SetMove, MoveRecs
  <2>2. MoveRank(j) = 2 + 2 * (MoveMaxAttempts - moves[j].tries)
    BY <2>1 DEF MoveRank, TriesLeft
  <2>3. MoveRank(j)' = 1 + 2 * (MoveMaxAttempts - moves[j].tries)
    BY <2>1 DEF MoveRank, TriesLeft
  <2>4. QED
    BY <1>1, <1>2, <2>1, <2>2, <2>3
<1>7. ASSUME SetMove(j, FreeMove), moves[j].pc \in {"move", "backoff", "reseed"}
      PROVE  MovesGoOn /\ TriesWithin'
  <2>1. moves'[j] = FreeMove
    BY <1>1, <1>7 DEF SetMove
  <2>2. MoveRank(j)' = 0 /\ moves'[j].tries = 0
    BY <2>1 DEF MoveRank, FreeMove
  <2>3. MoveRank(j) > 0
    BY <1>1, <1>7 DEF MoveRank, TriesLeft
  <2>4. QED
    BY <1>1, <1>2, <2>2, <2>3
<1>8. CASE reseedAfterCompletion(j) \/ giveUp(j) \/ abortOnStop(j)
  BY <1>7, <1>8 DEF reseedAfterCompletion, giveUp, abortOnStop, recordFailure, abandon
<1>9. QED
  BY <1>3, <1>4, <1>5, <1>6, <1>8 DEF MoveStep

\* Nothing else touches a goroutine that runs, but a restart, which ends them all.
LEMMA NewWorkIsFree ==
    ASSUME TypeInv, TriesWithin, TickStep
    PROVE  InitsGoOn /\ MovesGoOn /\ TriesWithin'
<1>1. inits \in [InitIds -> InitRecs] /\ moves \in [MoveIds -> MoveRecs] /\ 0 < MoveMaxAttempts
  BY WorkerNumbers DEF TypeInv, Types
<1> DEFINE Begins == \E i \in FreeInits : \E s : inits' = [inits EXCEPT ![i] = s]
           Dispatched == \E members, group : Dispatch(members, group)
<1>2. UNCHANGED inits \/ Begins
  <2>1. ASSUME NEW g, StartInit(g) PROVE Begins
    BY <2>1 DEF StartInit
  <2>2. ASSUME NEW g, AwaitInit(g) \/ adoptSiblings(g) \/ sampleGroup(g) \/ checkCompletion(g)
                      \/ completeGroup(g)
        PROVE  UNCHANGED inits
    BY <2>2 DEF AwaitInit, adoptSiblings, sampleGroup, checkCompletion, completeGroup
  <2>3. CASE tickUntrack \/ tickDrop \/ applySchedule \/ sweepList \/ sweepPrune \/ sweepRescue
    BY <2>3 DEF tickUntrack, tickDrop, applySchedule, sweepList, sweepPrune, sweepRescue
  <2>4. QED
    BY <2>1, <2>2, <2>3, StallsWrite DEF TickStep
<1>3. UNCHANGED moves \/ Dispatched
  <2>1. ASSUME NEW g, checkCompletion(g) \/ completeGroup(g) PROVE UNCHANGED moves \/ Dispatched
    BY <2>1 DEF checkCompletion, completeGroup
  <2>2. ASSUME NEW g, StartInit(g) \/ AwaitInit(g) \/ adoptSiblings(g) \/ sampleGroup(g)
        PROVE  UNCHANGED moves
    BY <2>2 DEF StartInit, AwaitInit, adoptSiblings, sampleGroup
  <2>3. CASE tickUntrack \/ tickDrop \/ applySchedule \/ sweepList \/ sweepPrune \/ sweepRescue
    BY <2>3 DEF tickUntrack, tickDrop, applySchedule, sweepList, sweepPrune, sweepRescue
  <2>4. QED
    BY <2>1, <2>2, <2>3, StallsWrite DEF TickStep
<1>4. InitsGoOn
  BY <1>1, <1>2 DEF InitsGoOn, FreeInits
<1>5. ASSUME NEW members, NEW group, Dispatch(members, group)
      PROVE  MovesGoOn /\ TriesWithin'
  <2>1. PICK j \in FreeMoves : moves' = [moves EXCEPT ![j] =
              [FreeMove EXCEPT !.pc = "move", !.members = members, !.group = group]]
    BY <1>5 DEF Dispatch
  <2>2. QED
    BY <1>1, <2>1 DEF FreeMoves, FreeMove, MovesGoOn, TriesWithin
<1>6. QED
  BY <1>3, <1>4, <1>5 DEF MovesGoOn, TriesWithin

LEMMA RestartEnds ==
    ASSUME TypeInv, TriesWithin, Restart
    PROVE  TickGoesOn /\ InitsGoOn /\ MovesGoOn /\ TriesWithin'
<1>1. TickGoesOn
  <2>1. tick'.pc = "idle" /\ tick.pc \in TickPcs /\ Cardinality(tick.todo) \in Nat
        /\ MostGroups \in Nat
    BY FewAtHand DEF Restart, IdleTick, TypeInv, Types, TickRecs
  <2>2. QED
    BY <2>1 DEF TickGoesOn, TickRank, TickPcs
<1>2. InitsGoOn
  <2>1. SUFFICES ASSUME NEW i \in InitIds, inits[i].pc # "free"
                 PROVE  InitRank(i)' < InitRank(i)
    BY DEF InitsGoOn
  <2>2. inits'[i] = FreeInit
    BY DEF Restart
  <2>3. InitRank(i)' = 0
    BY <2>2, FS_EmptySet DEF InitRank, FreeInit
  <2>4. inits[i] \in InitRecs
    BY DEF TypeInv, Types
  <2>5. /\ inits[i].pc \in {"resolve", "track", "fail", "spent"}
        /\ Cardinality(inits[i].todo) \in Nat /\ Cardinality(inits[i].failing) \in Nat
        /\ Cardinality(inits[i].members) \in Nat
    BY <2>1, <2>4, FewAtHand DEF TypeInv, InitRecs, InitPcs
  <2>6. InitRank(i) > 0
    <3>1. CASE inits[i].pc = "resolve"
      BY <2>5, <3>1 DEF InitRank
    <3>2. CASE inits[i].pc \in {"track", "fail"}
      <4>1. InitRank(i) = 3 * Cardinality(inits[i].todo) + Cardinality(inits[i].failing) + 1
        BY <3>2 DEF InitRank
      <4>2. QED
        BY <2>5, <4>1
    <3>4. CASE inits[i].pc = "spent"
      BY <2>5, <3>4 DEF InitRank
    <3>3. QED
      BY <2>5, <3>1, <3>2, <3>4
  <2>7. QED
    BY <2>3, <2>6
<1>3. MovesGoOn /\ TriesWithin'
  <2>1. \A j \in MoveIds : moves'[j] = FreeMove
    BY DEF Restart
  <2>2. TriesWithin'
    BY <2>1, WorkerNumbers DEF TriesWithin, FreeMove
  <2>3. ASSUME NEW j \in MoveIds, moves[j].pc # "free"
        PROVE  MoveRank(j)' < MoveRank(j)
    <3>1. MoveRank(j)' = 0
      BY <2>1 DEF MoveRank, FreeMove
    <3>2. /\ moves[j].pc \in MovePcs /\ moves[j].tries \in Nat
          /\ moves[j].tries < MoveMaxAttempts /\ MoveMaxAttempts \in Nat
      BY WorkerNumbers DEF TypeInv, Types, MoveRecs, TriesWithin
    <3>3. MoveRank(j) > 0
      BY <2>3, <3>2 DEF MoveRank, TriesLeft, MovePcs
    <3>4. QED
      BY <3>1, <3>3
  <2>4. QED
    BY <2>2, <2>3 DEF MovesGoOn
<1>4. QED
  BY <1>1, <1>2, <1>3

LEMMA StepGoesOn ==
    ASSUME TypeInv, TriesWithin, [Next]_vars
    PROVE  TickGoesOn /\ InitsGoOn /\ MovesGoOn /\ TriesWithin'
<1> USE DEF outside
<1>1. CASE TickStep
  BY <1>1, TickRunsDown, NewWorkIsFree
<1>2. ASSUME NEW i \in InitIds, InitStep(i)
      PROVE  TickGoesOn /\ InitsGoOn /\ MovesGoOn /\ TriesWithin'
  <2>1. UNCHANGED <<tick, moves>>
    <3>1. ASSUME NEW r, trackMember(i, r) \/ failOrRetry(i, r) PROVE UNCHANGED <<tick, moves>>
      BY <3>1 DEF trackMember, failOrRetry
    <3>2. CASE \/ resolve(i) \/ promoteOrAbort(i) \/ noFiles(i) \/ resolveFailed(i)
               \/ deleteRetries(i) \/ initExit(i) \/ \E r \in inits[i].failing : SetError(i, r)
      BY <3>2 DEF resolve, promoteOrAbort, noFiles, resolveFailed, deleteRetries, SetError, initExit
    <3>3. QED
      BY <1>2, <3>1, <3>2 DEF InitStep
  <2>2. QED
    BY <1>2, <2>1, InitRunsDown DEF TickGoesOn, MovesGoOn, TriesWithin
<1>3. ASSUME NEW j \in MoveIds, MoveStep(j)
      PROVE  TickGoesOn /\ InitsGoOn /\ MovesGoOn /\ TriesWithin'
  <2>1. UNCHANGED <<tick, inits>>
    BY <1>3 DEF MoveStep, attemptCompletionMove, storeCompleted, storeFailed,
       reseedAfterCompletion, attemptFailed, retryMove, giveUp, abortOnStop, recordFailure, abandon
  <2>2. QED
    BY <1>3, <2>1, MoveRunsDown DEF TickGoesOn, InitsGoOn
<1>4. CASE Outside \/ UNCHANGED vars
  <2>1. CASE Restart
    BY <2>1, RestartEnds
  <2>2. CASE ~Restart
    <3>1. UNCHANGED <<tick, inits, moves>>
      BY <1>4, <2>2 DEF Outside, Pause, Requeue, RequeueByID, Write, Recheck, DeleteScoped,
                        Remove, Fetch, Evict, Stop, vars
    <3>2. QED
      BY <3>1 DEF TickGoesOn, InitsGoOn, MovesGoOn, TriesWithin
  <2>3. QED
    BY <2>1, <2>2
<1>5. QED
  BY <1>1, <1>2, <1>3, <1>4 DEF Next

WorkRunsDown == [][TickGoesOn /\ InitsGoOn /\ MovesGoOn]_vars

(* A tick, an init and a move end by themselves: whatever the others do,    *)
(* only its own steps or a restart change one that runs, and each leaves it *)
(* less to do.  Once it has its list a tick takes a step for each group, at *)
(* most three for each group that stalled, and six more; an init at most    *)
(* three for each member and two more; a move two for each of               *)
(* moveMaxAttempts and one more.                                            *)
THEOREM WorkEnds == Spec => WorkRunsDown
<1>1. Init => TriesWithin
  BY WorkerNumbers DEF Init, Begun, FreeMove, TriesWithin
<1>2. TypeInv /\ TriesWithin /\ [Next]_vars => TriesWithin'
  BY StepGoesOn
<1>3. TypeInv /\ TriesWithin /\ [Next]_vars => [TickGoesOn /\ InitsGoOn /\ MovesGoOn]_vars
  BY StepGoesOn
<1>4. QED
  BY <1>1, <1>2, <1>3, TypeInvHolds, PTL DEF Spec, WorkRunsDown
=============================================================================
