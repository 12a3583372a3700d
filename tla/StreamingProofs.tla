--------------------------- MODULE StreamingProofs ---------------------------
(* What a player streams from: a torrent and the paths that tear it down, for  *)
(* any players, adders and bounds; and the encoders, GPU slots and builds of   *)
(* HLS sessions, for any requests, contents, sessions and slots.               *)
EXTENDS MCServer, AccountProofs, VerifyLimiterProofs, FiniteSetTheorems, TLAPS

(* The torrent.                                                                *)
Leases == {"none", "fresh", "expired"}
Accesses == {"recent", "quiet", "idle"}

EntryIds == 0..MaxEntries
HandleIds == 0..MaxHandles

EntryRecord ==
  {e \in [id : EntryIds, t : HandleIds, viewers : Nat, lease : Leases, access : Accesses] :
     e.id # 0 => e.t # 0}

AddRecord ==
  {x \in [t : HandleIds, at : {"out", "asked", "waiting", "failed", "added", "probing"}] :
     x.at \in {"waiting", "failed"} => x.t # 0}

ClientTyped == /\ client \in HandleIds /\ handles \in HandleIds
               /\ info \in BOOLEAN
EntryTyped == entry \in EntryRecord /\ entries \in EntryIds
AddsTyped == adds \in [Adders -> AddRecord] /\ probeEntry \in EntryIds
EndsTyped == grace \subseteq EntryIds \ {0} /\ dropping \subseteq HandleIds \ {0}
UserTyped == watching \subseteq Players /\ registered \in BOOLEAN /\ seedTracker \in BOOLEAN
DiskTyped == bytes \in BOOLEAN /\ sweep \in {"off", "listed", "checked"} /\ checkedAt \in EntryIds
HistoryTyped == lastEnd \in {"never", "teardown", "wipe"} /\ stale \in BOOLEAN

LifetimeTypes == /\ ClientTyped /\ EntryTyped /\ AddsTyped /\ EndsTyped
         /\ UserTyped /\ DiskTyped /\ HistoryTyped

LEMMA Numbers ==
  /\ 0 \in EntryIds /\ 0 \in HandleIds
  /\ \A n \in EntryIds : n \in Nat /\ (n # 0 => n \in 1..MaxEntries)
       /\ (n < MaxEntries => n + 1 \in EntryIds /\ n + 1 # 0)
  /\ \A n \in HandleIds : n \in Nat /\ (n # 0 => n \in 1..MaxHandles)
       /\ (n < MaxHandles => n + 1 \in HandleIds /\ n + 1 # 0)
BY LifetimeAssumption DEF EntryIds, HandleIds

LEMMA EntrySteps ==
  ASSUME NEW e \in EntryRecord
  PROVE  /\ e.id \in EntryIds /\ e.t \in HandleIds /\ e.viewers \in Nat
         /\ e.lease \in Leases /\ e.access \in Accesses /\ (e.id # 0 => e.t # 0)
         /\ \A t \in HandleIds \ {0} : [e EXCEPT !.t = t, !.access = "recent"] \in EntryRecord
         /\ \A n \in Nat : /\ [[e EXCEPT !.viewers = n, !.lease = "fresh"] EXCEPT !.access = "recent"] \in EntryRecord
                            /\ [e EXCEPT !.viewers = n] \in EntryRecord
         /\ \A l \in Leases : /\ [[e EXCEPT !.lease = l] EXCEPT !.access = "recent"] \in EntryRecord
                              /\ [e EXCEPT !.lease = l] \in EntryRecord
         /\ \A x \in Accesses : [e EXCEPT !.access = x] \in EntryRecord
BY DEF EntryRecord, Leases, Accesses

LEMMA NewEntries ==
  /\ NoEntry \in EntryRecord
  /\ \A i \in EntryIds, t \in HandleIds \ {0} :
       [NoEntry EXCEPT !.id = i, !.t = t, !.access = "recent"] \in EntryRecord
BY Numbers DEF EntryRecord, NoEntry, Leases, Accesses

LEMMA AddSteps ==
  ASSUME NEW x \in AddRecord
  PROVE  /\ x.t \in HandleIds /\ (x.at \in {"waiting", "failed"} => x.t # 0)
         /\ x.t # 0 => [x EXCEPT !.at = "failed"] \in AddRecord
         /\ \A at \in {"asked", "probing"} : [x EXCEPT !.at = at] \in AddRecord
BY DEF AddRecord

LEMMA NewAdds ==
  /\ IdleAdd \in AddRecord
  /\ [at |-> "added", t |-> 0] \in AddRecord
  /\ \A t \in HandleIds \ {0} : [at |-> "waiting", t |-> t] \in AddRecord
BY Numbers DEF AddRecord, IdleAdd

LEMMA InitLifetimeTyped == LifetimeInit => LifetimeTypes
<1> SUFFICES ASSUME LifetimeInit PROVE LifetimeTypes
  OBVIOUS
<1> USE NewEntries, NewAdds, Numbers DEF LifetimeInit
<1>1. ClientTyped /\ EntryTyped
  BY DEF ClientTyped, EntryTyped
<1>2. AddsTyped /\ EndsTyped /\ UserTyped
  BY DEF AddsTyped, EndsTyped, UserTyped
<1>3. DiskTyped /\ HistoryTyped
  BY DEF DiskTyped, HistoryTyped
<1>4. QED
  BY <1>1, <1>2, <1>3 DEF LifetimeTypes

LEMMA CloseTyped ==
  ASSUME ClientTyped, NEW t, Close(t)
  PROVE  ClientTyped'
BY Numbers DEF ClientTyped, Close

\* The torrent leaves the active set and its handle is closed now or later.
LEMMA ForgetTyped ==
  ASSUME LifetimeTypes, NEW why \in {"teardown", "wipe"}, Active, Forget(why), CloseLater \/ CloseNow,
         grace' \subseteq EntryIds \ {0}, bytes' \in BOOLEAN
  PROVE  LifetimeTypes'
<1> USE DEF Forget, LifetimeTypes, clientVars, userVars
<1>1. EntryTyped' /\ AddsTyped' /\ UserTyped' /\ DiskTyped' /\ HistoryTyped'
  BY NewEntries DEF EntryTyped, AddsTyped, UserTyped, DiskTyped, HistoryTyped
<1>2. entry.t \in HandleIds \ {0}
  BY EntrySteps, Numbers DEF EntryTyped, Active
<1>3. CASE CloseLater
  BY <1>1, <1>2, <1>3 DEF CloseLater, ClientTyped, EndsTyped
<1>4. CASE CloseNow
  BY <1>1, <1>4, CloseTyped DEF CloseNow, EndsTyped
<1>5. QED
  BY <1>3, <1>4

AddStep == \E a \in Adders : AddResolve(a) \/ AddRegisters(a) \/ AddTimesOut(a) \/ AddCloses(a)
ViewerStep == \E p \in Players : AcquireViewer(p) \/ ReleaseViewer(p)
UseStep == Read \/ Touch \/ RegisterDownload \/ UnregisterDownload \/ SetSeedTrackers
ProbeStep == ProbeAsks \/ ProbeSnapshots \/ ProbeDrops
EndStep ==
  \/ \E explicit \in BOOLEAN : Drop(explicit)
  \/ \E id \in 1..MaxEntries : GraceFires(id)
  \/ ReapIdle \/ Clear
SweepStep == SweepLists \/ SweepChecks \/ SweepRemoves
TimeStep == GrowsIdle \/ LeaseExpires

LEMMA Steps ==
  LifetimeNext => \/ AddStep \/ ViewerStep \/ UseStep \/ ProbeStep \/ EndStep \/ SweepStep \/ TimeStep
                  \/ MetadataArrives \/ \E t \in 1..MaxHandles : FinishDrop(t)
BY DEF LifetimeNext, AddStep, ViewerStep, UseStep, ProbeStep, EndStep, SweepStep, TimeStep

LEMMA AddTyped ==
  ASSUME LifetimeTypes, AddStep
  PROVE  LifetimeTypes'
<1> USE DEF LifetimeTypes, clientVars, entryVars, addVars, userVars, diskVars
<1>1. PICK a \in Adders : AddResolve(a) \/ AddRegisters(a) \/ AddTimesOut(a) \/ AddCloses(a)
  BY DEF AddStep
<1>2. adds[a] \in AddRecord
  BY DEF AddsTyped
<1>3. CASE AddResolve(a)
  <2>1. ClientTyped'
    BY <1>3, Numbers DEF AddResolve, ClientTyped
  <2>2. client' \in HandleIds \ {0}
    BY <1>3, <2>1, Numbers DEF AddResolve, ClientTyped
  <2>3. AddsTyped'
    BY <1>3, <2>2, NewAdds DEF AddResolve, AddsTyped
  <2>4. EntryTyped' /\ EndsTyped' /\ UserTyped' /\ DiskTyped' /\ HistoryTyped'
    BY <1>3 DEF AddResolve, EntryTyped, EndsTyped, UserTyped, DiskTyped, HistoryTyped
  <2>5. QED
    BY <2>1, <2>3, <2>4
<1>4. CASE AddRegisters(a)
  <2>1. adds[a].t \in HandleIds \ {0}
    BY <1>2, <1>4, AddSteps DEF AddRegisters, GotInfo
  <2>2. EntryTyped'
    <3>1. CASE Active
      <4>1. [entry EXCEPT !.t = adds[a].t, !.access = "recent"] \in EntryRecord
        BY <2>1, EntrySteps DEF EntryTyped
      <4>2. QED
        BY <1>4, <3>1, <4>1 DEF AddRegisters, EntryTyped
    <3>2. CASE ~Active
      <4>1. PICK i \in EntryIds : i = entries + 1 /\ entries < MaxEntries
        BY <1>4, <3>2, Numbers DEF AddRegisters, EntryTyped
      <4>2. [NoEntry EXCEPT !.id = i, !.t = adds[a].t, !.access = "recent"] \in EntryRecord
        BY <2>1, NewEntries
      <4>3. QED
        BY <1>4, <3>2, <4>1, <4>2 DEF AddRegisters, EntryTyped
    <3>3. QED
      BY <3>1, <3>2
  <2>3. AddsTyped'
    BY <1>4, NewAdds, Numbers DEF AddRegisters, AddsTyped
  <2>4. ClientTyped' /\ EndsTyped' /\ UserTyped' /\ DiskTyped' /\ HistoryTyped'
    BY <1>4 DEF AddRegisters, ClientTyped, EndsTyped, UserTyped, DiskTyped, HistoryTyped
  <2>5. QED
    BY <2>2, <2>3, <2>4
<1>5. CASE AddTimesOut(a)
  <2>1. adds[a].t # 0
    BY <1>2, <1>5, AddSteps DEF AddTimesOut
  <2>2. AddsTyped'
    BY <1>2, <1>5, <2>1, AddSteps, NewAdds DEF AddTimesOut, failedAdd, AddsTyped
  <2>3. QED
    BY <1>5, <2>2 DEF AddTimesOut, ClientTyped, EntryTyped, EndsTyped, UserTyped, DiskTyped,
                      HistoryTyped
<1>6. CASE AddCloses(a)
  <2>1. ClientTyped' /\ AddsTyped'
    BY <1>6, CloseTyped, NewAdds DEF AddCloses, AddsTyped
  <2>2. QED
    BY <1>6, <2>1 DEF AddCloses, EntryTyped, EndsTyped, UserTyped, DiskTyped, HistoryTyped
<1>7. QED
  BY <1>1, <1>3, <1>4, <1>5, <1>6

LEMMA UseTyped ==
  ASSUME LifetimeTypes, ViewerStep \/ UseStep \/ TimeStep
  PROVE  LifetimeTypes'
<1> USE DEF LifetimeTypes, clientVars, entryVars, addVars, userVars, diskVars
<1>1. entry \in EntryRecord /\ entry.viewers \in Nat /\ entry.id \in EntryIds
  BY EntrySteps DEF EntryTyped
<1>2. ASSUME NEW p \in Players, AcquireViewer(p) PROVE LifetimeTypes'
  <2>1. PICK n \in Nat : n = entry.viewers + 1
    BY <1>1
  <2>2. CASE Active
    <3>1. entry' = [[entry EXCEPT !.viewers = n, !.lease = "fresh"] EXCEPT !.access = "recent"]
      BY <1>2, <2>1, <2>2 DEF AcquireViewer, Bump
    <3>2. EntryTyped' /\ AddsTyped'
      BY <1>1, <1>2, <2>2, <3>1, EntrySteps, Numbers DEF AcquireViewer, Bump, EntryTyped, AddsTyped
    <3>3. EndsTyped'
      BY <1>2, <2>2 DEF AcquireViewer, EndsTyped
    <3>4. QED
      BY <1>2, <3>2, <3>3 DEF AcquireViewer, ClientTyped, UserTyped, DiskTyped, HistoryTyped
  <2>3. CASE ~Active
    BY <1>2, <2>3 DEF AcquireViewer, ClientTyped, EntryTyped, AddsTyped, EndsTyped, UserTyped,
                      DiskTyped, HistoryTyped
  <2>4. QED
    BY <2>2, <2>3
<1>3. ASSUME NEW p \in Players, ReleaseViewer(p) PROVE LifetimeTypes'
  <2>1. PICK n \in Nat : n = IF entry.viewers > 0 THEN entry.viewers - 1 ELSE 0
    BY <1>1
  <2>2. /\ entry' = [entry EXCEPT !.viewers = n]
        /\ grace' \subseteq grace \union (IF Active THEN {entry.id} ELSE {})
    BY <1>3, <2>1 DEF ReleaseViewer
  <2>3. EntryTyped'
    <3>1. [entry EXCEPT !.viewers = n] \in EntryRecord
      BY <1>1, EntrySteps
    <3>2. QED
      BY <1>3, <2>2, <3>1 DEF ReleaseViewer, EntryTyped
  <2>4. EndsTyped'
    BY <1>1, <1>3, <2>2, Numbers DEF ReleaseViewer, EndsTyped, Active
  <2>5. QED
    BY <1>3, <2>3, <2>4 DEF ReleaseViewer, ClientTyped, AddsTyped, UserTyped, DiskTyped, HistoryTyped
<1>4. CASE Read
  <2>1. PICK l \in Leases : entry' = [[entry EXCEPT !.lease = l] EXCEPT !.access = "recent"]
    <3>1. (IF entry.viewers > 0 THEN "fresh" ELSE entry.lease) \in Leases
      BY <1>1, EntrySteps DEF Leases
    <3>2. QED
      BY <1>4, <3>1 DEF Read, Bump
  <2>2. EntryTyped' /\ AddsTyped'
    <3>1. [[entry EXCEPT !.lease = l] EXCEPT !.access = "recent"] \in EntryRecord
      BY <1>1, EntrySteps
    <3>2. QED
      BY <1>4, <2>1, <3>1, Numbers DEF Read, Bump, EntryTyped, AddsTyped
  <2>3. QED
    BY <1>4, <2>2 DEF Read, ClientTyped, EndsTyped, UserTyped, DiskTyped, HistoryTyped
<1>5. CASE Touch
  <2>1. EntryTyped' /\ AddsTyped'
    BY <1>1, <1>5, EntrySteps, Numbers DEF Touch, Bump, EntryTyped, AddsTyped, Accesses
  <2>2. QED
    BY <1>5, <2>1 DEF Touch, ClientTyped, EndsTyped, UserTyped, DiskTyped, HistoryTyped
<1>6. CASE RegisterDownload \/ UnregisterDownload \/ SetSeedTrackers
  BY <1>6 DEF RegisterDownload, UnregisterDownload, SetSeedTrackers, ClientTyped, EntryTyped,
              AddsTyped, EndsTyped, UserTyped, DiskTyped, HistoryTyped
<1>7. CASE GrowsIdle \/ LeaseExpires
  <2>1. EntryTyped'
    <3>1. CASE GrowsIdle
      <4>1. PICK x \in Accesses : entry' = [entry EXCEPT !.access = x]
        BY <3>1 DEF GrowsIdle, Accesses
      <4>2. QED
        BY <1>1, <3>1, <4>1, EntrySteps DEF GrowsIdle, EntryTyped
    <3>2. CASE LeaseExpires
      BY <1>1, <3>2, EntrySteps DEF LeaseExpires, EntryTyped, Leases
    <3>3. QED
      BY <1>7, <3>1, <3>2
  <2>2. QED
    BY <1>7, <2>1 DEF GrowsIdle, LeaseExpires, ClientTyped, AddsTyped, EndsTyped, UserTyped,
                      DiskTyped, HistoryTyped
<1>8. QED
  BY <1>2, <1>3, <1>4, <1>5, <1>6, <1>7 DEF ViewerStep, UseStep, TimeStep

LEMMA ProbeTyped ==
  ASSUME LifetimeTypes, ProbeStep
  PROVE  LifetimeTypes'
<1> USE DEF LifetimeTypes, clientVars, entryVars, addVars, userVars, diskVars
<1>1. Probe \in Adders /\ adds[Probe] \in AddRecord /\ entry.id \in EntryIds
  BY LifetimeAssumption, EntrySteps DEF AddsTyped, EntryTyped
<1>2. AddsTyped'
  BY <1>1, AddSteps, NewAdds, Numbers
     DEF ProbeStep, ProbeAsks, ProbeSnapshots, ProbeDrops, AddsTyped
<1>3. CASE ProbeAsks \/ ProbeSnapshots
  BY <1>2, <1>3 DEF ProbeAsks, ProbeSnapshots, ClientTyped, EntryTyped, EndsTyped, UserTyped,
                    DiskTyped, HistoryTyped
<1>4. CASE ProbeDrops
  <2>1. EntryTyped' /\ HistoryTyped'
    BY <1>4, NewEntries DEF ProbeDrops, EntryTyped, HistoryTyped
  <2>2. Active => entry.t \in HandleIds \ {0}
    BY EntrySteps, Numbers DEF EntryTyped, Active
  <2>3. EndsTyped' /\ ClientTyped'
    BY <1>4, <2>2 DEF ProbeDrops, CloseLater, EndsTyped, ClientTyped
  <2>4. QED
    BY <1>2, <1>4, <2>1, <2>3 DEF ProbeDrops, UserTyped, DiskTyped
<1>5. QED
  BY <1>3, <1>4 DEF ProbeStep

LEMMA EndTyped ==
  ASSUME LifetimeTypes, EndStep
  PROVE  LifetimeTypes'
<1> grace \subseteq EntryIds \ {0} /\ bytes \in BOOLEAN
  BY DEF LifetimeTypes, EndsTyped, DiskTyped
<1>1. ASSUME NEW explicit \in BOOLEAN, Drop(explicit) PROVE LifetimeTypes'
  BY <1>1, ForgetTyped DEF Drop
<1>2. ASSUME NEW id \in 1..MaxEntries, GraceFires(id) PROVE LifetimeTypes'
  <2>1. CASE StillIdle(id)
    <3>1. Active
      BY <1>2, <2>1 DEF StillIdle, Active
    <3>2. QED
      BY <1>2, <2>1, <3>1, ForgetTyped DEF GraceFires
  <2>2. CASE ~StillIdle(id)
    BY <1>2, <2>2 DEF GraceFires, LifetimeTypes, clientVars, addVars, userVars, ClientTyped, EntryTyped,
                      AddsTyped, EndsTyped, UserTyped, DiskTyped, HistoryTyped
  <2>3. QED
    BY <2>1, <2>2
<1>3. CASE ReapIdle
  BY <1>3, ForgetTyped DEF ReapIdle, Reapable
<1>4. CASE Clear
  <2>1. bytes' \in BOOLEAN /\ grace' \subseteq EntryIds \ {0}
    BY <1>4 DEF Clear
  <2>2. CASE Active
    BY <1>4, <2>1, <2>2, ForgetTyped DEF Clear
  <2>3. CASE ~Active
    BY <1>4, <2>1, <2>3 DEF Clear, LifetimeTypes, clientVars, addVars, userVars, ClientTyped, EntryTyped,
                      AddsTyped, EndsTyped, UserTyped, DiskTyped, HistoryTyped
  <2>4. QED
    BY <2>2, <2>3
<1>5. QED
  BY <1>1, <1>2, <1>3, <1>4 DEF EndStep

LEMMA LifetimeStepTyped == LifetimeTypes /\ [LifetimeNext]_lifetimeVars => LifetimeTypes'
<1> SUFFICES ASSUME LifetimeTypes, [LifetimeNext]_lifetimeVars PROVE LifetimeTypes'
  OBVIOUS
<1> USE DEF clientVars, entryVars, addVars, userVars, diskVars
<1>1. CASE SweepStep
  BY <1>1 DEF SweepStep, SweepLists, SweepChecks, SweepRemoves, LifetimeTypes, ClientTyped, EntryTyped,
              AddsTyped, EndsTyped, UserTyped, DiskTyped, HistoryTyped
<1>2. CASE MetadataArrives
  BY <1>2 DEF MetadataArrives, LifetimeTypes, ClientTyped, EntryTyped, AddsTyped, EndsTyped, UserTyped,
              DiskTyped, HistoryTyped
<1>3. ASSUME NEW t \in 1..MaxHandles, FinishDrop(t) PROVE LifetimeTypes'
  <2>1. ClientTyped'
    BY <1>3, CloseTyped DEF FinishDrop, LifetimeTypes
  <2>2. QED
    BY <1>3, <2>1 DEF FinishDrop, LifetimeTypes, EntryTyped, AddsTyped, EndsTyped, UserTyped, DiskTyped,
                      HistoryTyped
<1>4. CASE UNCHANGED lifetimeVars
  BY <1>4 DEF lifetimeVars, LifetimeTypes, ClientTyped, EntryTyped, AddsTyped, EndsTyped, UserTyped,
              DiskTyped, HistoryTyped
<1>5. QED
  BY <1>1, <1>2, <1>3, <1>4, Steps, AddTyped, UseTyped, ProbeTyped, EndTyped

LEMMA LifetimeTypesHold == LifetimeSpec => []LifetimeTypes
BY InitLifetimeTyped, LifetimeStepTyped, PTL DEF LifetimeSpec

LEMMA ViewersBounded == LifetimeSpec => [](entry.viewers <= Cardinality(watching))
<1>1. LifetimeInit => entry.viewers <= Cardinality(watching)
  <2> SUFFICES ASSUME LifetimeInit PROVE entry.viewers <= Cardinality(watching)
    OBVIOUS
  <2>1. entry.viewers = 0 /\ watching = {}
    BY DEF LifetimeInit, NoEntry
  <2>2. QED
    BY <2>1, FS_EmptySet
<1>2. /\ LifetimeTypes /\ LifetimeTypes' /\ entry.viewers <= Cardinality(watching) /\ [LifetimeNext]_lifetimeVars
      => (entry.viewers <= Cardinality(watching))'
  <2> SUFFICES ASSUME LifetimeTypes, LifetimeTypes', entry.viewers <= Cardinality(watching),
                      [LifetimeNext]_lifetimeVars
               PROVE  entry'.viewers <= Cardinality(watching')
    OBVIOUS
  <2> USE DEF clientVars, entryVars, addVars, userVars, diskVars
  <2>1. /\ IsFiniteSet(watching) /\ Cardinality(watching) \in Nat
        /\ entry \in EntryRecord /\ entry.viewers \in Nat
    BY LifetimeAssumption, FS_Subset, FS_CardinalityType, EntrySteps DEF LifetimeTypes, UserTyped, EntryTyped
  <2>2. ASSUME UNCHANGED watching, entry'.viewers = entry.viewers \/ entry'.viewers = 0
        PROVE  entry'.viewers <= Cardinality(watching')
    BY <2>1, <2>2
  <2>3. NoEntry.viewers = 0
    BY DEF NoEntry
  <2>4. CASE AddStep
    <3>1. PICK a \in Adders : AddResolve(a) \/ AddRegisters(a) \/ AddTimesOut(a) \/ AddCloses(a)
      BY <2>4 DEF AddStep
    <3>2. CASE AddRegisters(a)
      <4>1. entry'.viewers = entry.viewers \/ entry'.viewers = 0
        BY <2>1, <3>2 DEF AddRegisters, EntryRecord, NoEntry
      <4>2. QED
        BY <2>2, <3>2, <4>1 DEF AddRegisters
    <3>3. QED
      BY <2>2, <3>1, <3>2 DEF AddResolve, AddTimesOut, AddCloses
  <2>5. ASSUME NEW p \in Players, AcquireViewer(p)
        PROVE  entry'.viewers <= Cardinality(watching')
    <3>1. Cardinality(watching') = Cardinality(watching) + 1
      BY <2>1, <2>5, FS_AddElement DEF AcquireViewer
    <3>2. entry'.viewers = entry.viewers + 1 \/ entry' = entry
      BY <2>1, <2>5 DEF AcquireViewer, Bump, EntryRecord
    <3>3. QED
      BY <2>1, <3>1, <3>2
  <2>6. ASSUME NEW p \in Players, ReleaseViewer(p)
        PROVE  entry'.viewers <= Cardinality(watching')
    <3>1. Cardinality(watching') = Cardinality(watching) - 1 /\ Cardinality(watching') \in Nat
      <4>1. p \in watching /\ watching' = watching \ {p}
        BY <2>6 DEF ReleaseViewer
      <4>2. QED
        BY <2>1, <4>1, FS_RemoveElement, FS_CardinalityType
    <3>2. entry'.viewers = IF entry.viewers > 0 THEN entry.viewers - 1 ELSE 0
      BY <2>1, <2>6 DEF ReleaseViewer, EntryRecord
    <3>3. QED
      BY <2>1, <3>1, <3>2
  <2>7. CASE UseStep \/ TimeStep
    <3>1. entry'.viewers = entry.viewers /\ UNCHANGED watching
      BY <2>1, <2>7 DEF UseStep, TimeStep, Read, Touch, RegisterDownload, UnregisterDownload,
                        SetSeedTrackers, GrowsIdle, LeaseExpires, Bump, EntryRecord
    <3>2. QED
      BY <2>2, <3>1
  <2>8. CASE ProbeStep \/ EndStep
    <3>1. (entry' = entry \/ entry' = NoEntry) /\ UNCHANGED watching
      BY <2>8 DEF ProbeStep, EndStep, ProbeAsks, ProbeSnapshots, ProbeDrops, Drop, GraceFires,
                  ReapIdle, Clear, Forget
    <3>2. QED
      BY <2>2, <2>3, <3>1
  <2>9. CASE SweepStep \/ MetadataArrives \/ (\E t \in 1..MaxHandles : FinishDrop(t))
             \/ UNCHANGED lifetimeVars
    BY <2>2, <2>9 DEF SweepStep, SweepLists, SweepChecks, SweepRemoves, MetadataArrives, FinishDrop,
                      lifetimeVars
  <2>10. QED
    BY <2>4, <2>5, <2>6, <2>7, <2>8, <2>9, Steps DEF ViewerStep
<1>3. QED
  BY <1>1, <1>2, LifetimeTypesHold, PTL DEF LifetimeSpec

(* Type correctness.  An entry and an Add under way have a handle, the counters *)
(* stay within their bounds, and nobody is counted as a viewer who did not open *)
(* the player: an unmatched close never brings the count below zero.            *)
THEOREM LifetimeTyped == LifetimeSpec => []LifetimeTypeOK
<1>1. LifetimeTypes /\ entry.viewers <= Cardinality(watching) => LifetimeTypeOK
  <2> SUFFICES ASSUME LifetimeTypes, entry.viewers <= Cardinality(watching) PROVE LifetimeTypeOK
    OBVIOUS
  <2>1. /\ IsFiniteSet(Players) /\ watching \subseteq Players
        /\ Cardinality(watching) <= Cardinality(Players)
        /\ Cardinality(watching) \in Nat /\ Cardinality(Players) \in Nat
    BY LifetimeAssumption, FS_Subset, FS_CardinalityType DEF LifetimeTypes, UserTyped
  <2>2. entry.viewers \in 0..Cardinality(Players)
    <3>1. entry.viewers \in Nat
      BY EntrySteps DEF LifetimeTypes, EntryTyped
    <3>2. QED
      BY <2>1, <3>1
  <2>3. entry \in [id : 0..MaxEntries, t : 0..MaxHandles, viewers : 0..Cardinality(Players),
                   lease : {"none", "fresh", "expired"}, access : {"recent", "quiet", "idle"}]
    BY <2>2 DEF LifetimeTypes, EntryTyped, EntryRecord, EntryIds, HandleIds, Leases, Accesses
  <2>4. adds \in [Adders -> [t : 0..MaxHandles,
                             at : {"out", "asked", "waiting", "failed", "added", "probing"}]]
    BY DEF LifetimeTypes, AddsTyped, AddRecord, HandleIds
  <2>5. grace \subseteq 1..MaxEntries /\ dropping \subseteq 1..MaxHandles
    BY Numbers DEF LifetimeTypes, EndsTyped
  <2>6. {info, registered, seedTracker, bytes, stale} \subseteq BOOLEAN
    BY DEF LifetimeTypes, ClientTyped, UserTyped, DiskTyped, HistoryTyped
  <2>7. client \in 0..MaxHandles /\ probeEntry \in 0..MaxEntries /\ checkedAt \in 0..MaxEntries
    BY DEF LifetimeTypes, ClientTyped, AddsTyped, DiskTyped, EntryIds, HandleIds
  <2>8. QED
    BY <2>1, <2>3, <2>4, <2>5, <2>6, <2>7 DEF LifetimeTypeOK, LifetimeTypes, DiskTyped, HistoryTyped
<1>2. QED
  BY <1>1, LifetimeTypesHold, ViewersBounded, PTL

-----------------------------------------------------------------------------
(* The promise.  Each way of tearing the torrent down but a wipe has asked, in *)
(* the same critical section, whether anybody holds it.                        *)

ViewersHaveEntry == entry.viewers > 0 => Active

LEMMA ViewersHaveEntryHolds == LifetimeSpec => []ViewersHaveEntry
<1>1. LifetimeInit => ViewersHaveEntry
  BY DEF LifetimeInit, NoEntry, ViewersHaveEntry, Active
<1>2. LifetimeTypes /\ ViewersHaveEntry /\ [LifetimeNext]_lifetimeVars => ViewersHaveEntry'
  <2> SUFFICES ASSUME LifetimeTypes, ViewersHaveEntry, [LifetimeNext]_lifetimeVars PROVE ViewersHaveEntry'
    OBVIOUS
  <2> USE DEF clientVars, entryVars, addVars, userVars, diskVars
  <2>1. entry \in EntryRecord /\ entry.viewers \in Nat /\ NoEntry.viewers = 0
    BY EntrySteps DEF LifetimeTypes, EntryTyped, NoEntry
  <2>2. ASSUME entry' = entry \/ entry' = NoEntry PROVE ViewersHaveEntry'
    BY <2>1, <2>2 DEF ViewersHaveEntry, Active
  <2>3. CASE AddStep
    <3>1. PICK a \in Adders : AddResolve(a) \/ AddRegisters(a) \/ AddTimesOut(a) \/ AddCloses(a)
      BY <2>3 DEF AddStep
    <3>2. CASE AddRegisters(a) /\ Active
      BY <2>1, <3>2 DEF AddRegisters, EntryRecord, ViewersHaveEntry, Active
    <3>3. CASE AddRegisters(a) /\ ~Active
      <4>1. entry'.viewers = 0
        BY <2>1, <3>3, NewEntries DEF AddRegisters, EntryRecord
      <4>2. QED
        BY <4>1 DEF ViewersHaveEntry
    <3>4. QED
      BY <2>2, <3>1, <3>2, <3>3 DEF AddResolve, AddTimesOut, AddCloses
  <2>4. ASSUME NEW p \in Players, AcquireViewer(p) PROVE ViewersHaveEntry'
    BY <2>1, <2>2, <2>4 DEF AcquireViewer, Bump, EntryRecord, ViewersHaveEntry, Active
  <2>5. ASSUME NEW p \in Players, ReleaseViewer(p) PROVE ViewersHaveEntry'
    <3>1. entry'.id = entry.id /\ (entry'.viewers > 0 => entry.viewers > 0)
      BY <2>1, <2>5 DEF ReleaseViewer, EntryRecord
    <3>2. QED
      BY <3>1 DEF ViewersHaveEntry, Active
  <2>6. CASE UseStep \/ TimeStep
    <3>1. entry'.viewers = entry.viewers /\ entry'.id = entry.id
      BY <2>1, <2>6 DEF UseStep, TimeStep, Read, Touch, RegisterDownload, UnregisterDownload,
                        SetSeedTrackers, GrowsIdle, LeaseExpires, Bump, EntryRecord
    <3>2. QED
      BY <3>1 DEF ViewersHaveEntry, Active
  <2>7. CASE ProbeStep \/ EndStep
    BY <2>2, <2>7 DEF ProbeStep, EndStep, ProbeAsks, ProbeSnapshots, ProbeDrops, Drop, GraceFires,
                      ReapIdle, Clear, Forget
  <2>8. CASE SweepStep \/ MetadataArrives \/ (\E t \in 1..MaxHandles : FinishDrop(t))
             \/ UNCHANGED lifetimeVars
    BY <2>2, <2>8 DEF SweepStep, SweepLists, SweepChecks, SweepRemoves, MetadataArrives, FinishDrop,
                      lifetimeVars
  <2>9. QED
    BY <2>3, <2>4, <2>5, <2>6, <2>7, <2>8, Steps DEF ViewerStep
<1>3. QED
  BY <1>1, <1>2, LifetimeTypesHold, PTL DEF LifetimeSpec

LEMMA StepOfPromise ==
  LifetimeTypes /\ LifetimeTypes' /\ ViewersHaveEntry /\ ViewersHaveEntry' /\ [LifetimeNext]_lifetimeVars
    => [Promise!Next]_Promise!promiseVars
<1> SUFFICES ASSUME LifetimeTypes, LifetimeTypes', ViewersHaveEntry, ViewersHaveEntry', [LifetimeNext]_lifetimeVars
             PROVE  [Promise!Next]_Promise!promiseVars
  OBVIOUS
<1> USE DEF clientVars, entryVars, addVars, userVars, diskVars
<1>1. /\ entry \in EntryRecord /\ registered' \in BOOLEAN /\ NoEntry.id = 0 /\ NoEntry.viewers = 0
      /\ HeldByViewer' => Active'
      /\ HeldByViewer => Active
  BY DEF LifetimeTypes, EntryTyped, UserTyped, NoEntry, ViewersHaveEntry, HeldByViewer
\* While the torrent stays, or stays away, anything may happen to who holds it.
<1>2. ASSUME Active' = Active, UNCHANGED lastEnd
      PROVE  Promise!Next
  <2>1. (HeldByViewer' => Active) /\ HeldByViewer' \in BOOLEAN
    BY <1>1, <1>2 DEF HeldByViewer
  <2>2. QED
    BY <1>1, <1>2, <2>1 DEF Promise!Next, Promise!Use
\* Whoever ends it must have found nobody, unless it is the user's wipe.
<1>3. ASSUME NEW why \in {"teardown", "wipe"}, Active, entry' = NoEntry, lastEnd' = why,
             UNCHANGED registered, why = "teardown" => ~HeldByViewer /\ ~registered
      PROVE  Promise!Next
  <2>1. ~Active' /\ ~HeldByViewer'
    BY <1>1, <1>3 DEF Active
  <2>2. Promise!Unload(why)
    BY <1>3, <2>1 DEF Promise!Unload
  <2>3. QED
    BY <1>3, <2>2 DEF Promise!Next, Promise!Teardown, Promise!Wipe
<1>4. CASE AddStep
  <2>1. PICK a \in Adders : AddResolve(a) \/ AddRegisters(a) \/ AddTimesOut(a) \/ AddCloses(a)
    BY <1>4 DEF AddStep
  <2>2. CASE AddRegisters(a) /\ Active
    BY <1>1, <1>2, <2>2 DEF AddRegisters, EntryRecord, Active
  <2>3. CASE AddRegisters(a) /\ ~Active
    <3>1. entry'.viewers = 0 /\ entry'.id = entries + 1 /\ entries \in EntryIds /\ entries < MaxEntries
      BY <1>1, <2>3, NewEntries DEF AddRegisters, EntryRecord, LifetimeTypes, EntryTyped
    <3>2. ~HeldByViewer' /\ Active'
      BY <3>1, Numbers DEF HeldByViewer, Active
    <3>3. QED
      BY <2>3, <3>2 DEF AddRegisters, Promise!Next, Promise!Load
  <2>4. QED
    BY <1>2, <2>1, <2>2, <2>3 DEF AddResolve, AddTimesOut, AddCloses, Active
<1>5. CASE ViewerStep \/ UseStep \/ TimeStep
  <2>1. entry'.id = entry.id /\ UNCHANGED lastEnd
    BY <1>1, <1>5 DEF ViewerStep, UseStep, TimeStep, AcquireViewer, ReleaseViewer, Read, Touch,
                      RegisterDownload, UnregisterDownload, SetSeedTrackers, GrowsIdle,
                      LeaseExpires, Bump, EntryRecord
  <2>2. QED
    BY <1>2, <2>1 DEF Active
<1>6. CASE ProbeStep
  <2>1. CASE ProbeDrops /\ entry' # entry
    <3>1. /\ Active /\ entry.viewers = 0 /\ ~registered /\ entry' = NoEntry
          /\ lastEnd' = "teardown" /\ UNCHANGED registered
      BY <2>1 DEF ProbeDrops
    <3>2. QED
      BY <1>3, <3>1 DEF HeldByViewer
  <2>2. CASE ~(ProbeDrops /\ entry' # entry)
    <3>1. entry' = entry /\ UNCHANGED lastEnd
      BY <1>1, <1>6, <2>2 DEF ProbeStep, ProbeAsks, ProbeSnapshots, ProbeDrops, Active
    <3>2. QED
      BY <1>2, <3>1 DEF Active
  <2>3. QED
    BY <2>1, <2>2
<1>7. CASE EndStep
  <2>1. ASSUME NEW explicit \in BOOLEAN, Drop(explicit) PROVE Promise!Next
    BY <1>3, <2>1 DEF Drop, Forget
  <2>2. ASSUME NEW id \in 1..MaxEntries, GraceFires(id) PROVE Promise!Next
    <3>1. CASE StillIdle(id)
      <4>1. Active /\ ~HeldByViewer /\ ~registered
        BY <3>1 DEF StillIdle, Active, HeldByViewer
      <4>2. QED
        BY <1>3, <2>2, <3>1, <4>1 DEF GraceFires, Forget
    <3>2. CASE ~StillIdle(id)
      BY <1>2, <2>2, <3>2 DEF GraceFires, Active
    <3>3. QED
      BY <3>1, <3>2
  <2>3. CASE ReapIdle
    BY <1>3, <2>3 DEF ReapIdle, Reapable, Forget
  <2>4. CASE Clear
    <3>1. CASE Active
      BY <1>3, <2>4, <3>1 DEF Clear, Forget
    <3>2. CASE ~Active
      BY <1>2, <2>4, <3>2 DEF Clear, Active
    <3>3. QED
      BY <3>1, <3>2
  <2>5. QED
    BY <1>7, <2>1, <2>2, <2>3, <2>4 DEF EndStep
<1>8. CASE SweepStep \/ MetadataArrives \/ (\E t \in 1..MaxHandles : FinishDrop(t))
           \/ UNCHANGED lifetimeVars
  BY <1>2, <1>8 DEF SweepStep, SweepLists, SweepChecks, SweepRemoves, MetadataArrives, FinishDrop,
                    lifetimeVars, Active
<1>9. QED
  BY <1>4, <1>5, <1>6, <1>7, <1>8, Steps

(* The six ways of tearing a torrent down keep the promise: with a trusted     *)
(* lease or a download on it, only a wipe of the cache unloads it.             *)
THEOREM PromiseKept == LifetimeSpec => TornDownOnlyWhenFree
<1>1. LifetimeInit => Promise!Init
  <2> SUFFICES ASSUME LifetimeInit PROVE Promise!Init
    OBVIOUS
  <2>1. entry.id = 0 /\ entry.viewers = 0 /\ registered = FALSE /\ lastEnd = "never"
    BY DEF LifetimeInit, NoEntry
  <2>2. ~Active /\ ~HeldByViewer
    BY <2>1 DEF Active, HeldByViewer
  <2>3. QED
    BY <2>1, <2>2 DEF Promise!Init
<1>2. QED
  BY <1>1, StepOfPromise, LifetimeTypesHold, ViewersHaveEntryHolds, PTL
     DEF LifetimeSpec, TornDownOnlyWhenFree, Promise!Spec

-----------------------------------------------------------------------------
(* Handles.  NoOrphanHandle is inductive as it stands: whoever lets go of an    *)
(* open handle closes it, hands it to somebody who will, or is excepted.       *)

Waits(a) == adds[a].at \in {"waiting", "failed"}

\* A handle that stays open keeps whoever could close it.
LEMMA HandlesKept ==
  ASSUME NoOrphanHandle, stale' = stale,
         client' # 0 => client' = client,
         client' # 0 => (Active /\ entry.t = client =>
                           (Active' /\ entry'.t = client) \/ client \in dropping'),
         client' # 0 => (client \in dropping => client \in dropping'),
         client' # 0 => \A a \in Adders : (Waits(a) /\ adds[a].t = client) =>
                                            (Waits(a)' /\ adds'[a].t = client)
  PROVE  NoOrphanHandle'
<1> SUFFICES ASSUME client' # 0, ~stale
             PROVE  \/ Active' /\ entry'.t = client'
                    \/ client' \in dropping'
                    \/ \E a \in Adders : Waits(a)' /\ adds'[a].t = client'
  BY DEF NoOrphanHandle, Waits
<1>1. \/ Active /\ entry.t = client
      \/ client \in dropping
      \/ \E a \in Adders : Waits(a) /\ adds[a].t = client
  BY DEF NoOrphanHandle, Waits
<1>2. QED
  BY <1>1

LEMMA AddKeepsHandles ==
  ASSUME LifetimeTypes, NoOrphanHandle, NEW a \in Adders,
         AddResolve(a) \/ AddRegisters(a) \/ AddTimesOut(a) \/ AddCloses(a)
  PROVE  NoOrphanHandle'
<1> USE DEF clientVars, entryVars, addVars, userVars, diskVars
<1>1. /\ adds \in [Adders -> AddRecord] /\ adds[a] \in AddRecord /\ entry \in EntryRecord
      /\ info \in BOOLEAN /\ stale \in BOOLEAN
  BY DEF LifetimeTypes, AddsTyped, EntryTyped, ClientTyped, HistoryTyped
<1>2. CASE AddResolve(a)
  <2>1. adds'[a].at = "waiting" /\ adds'[a].t = client' /\ \A b \in Adders \ {a} : adds'[b] = adds[b]
    BY <1>1, <1>2 DEF AddResolve
  <2>2. QED
    BY <2>1 DEF NoOrphanHandle
<1>3. CASE AddRegisters(a)
  <2>1. entry'.t = adds[a].t /\ Active'
    <3>1. CASE Active
      BY <1>1, <1>3, <3>1 DEF AddRegisters, EntryRecord, Active
    <3>2. CASE ~Active
      <4>1. entry' = [NoEntry EXCEPT !.id = entries + 1, !.t = adds[a].t, !.access = "recent"]
            /\ entries < MaxEntries /\ entries \in EntryIds
        BY <1>3, <3>2 DEF AddRegisters, LifetimeTypes, EntryTyped
      <4>2. entry'.t = adds[a].t /\ entry'.id = entries + 1
        BY <4>1, NewEntries DEF EntryRecord
      <4>3. QED
        BY <4>1, <4>2, Numbers DEF Active
    <3>3. QED
      BY <3>1, <3>2
  <2>2. client' = client /\ (~stale' => adds[a].t = client)
    BY <1>1, <1>3 DEF AddRegisters
  <2>3. QED
    BY <2>1, <2>2 DEF NoOrphanHandle
\* A wait that times out is one for the open handle: the entry that spares it
\* names it too, and otherwise the Add goes on to close it.
<1>4. CASE AddTimesOut(a)
  <2>1. adds[a].t = client /\ client' = client /\ UNCHANGED <<entry, dropping>>
    BY <1>4 DEF AddTimesOut, GotInfo
  <2>2. CASE Active
    <3>1. ~stale' => entry'.t = client' /\ Active'
      BY <1>1, <1>4, <2>1, <2>2 DEF AddTimesOut, Active
    <3>2. QED
      BY <3>1 DEF NoOrphanHandle
  <2>3. CASE ~Active
    <3>1. adds'[a].at = "failed" /\ adds'[a].t = client'
      BY <1>1, <1>4, <2>1, <2>3 DEF AddTimesOut, failedAdd, AddRecord
    <3>2. QED
      BY <3>1 DEF NoOrphanHandle
  <2>4. QED
    BY <2>2, <2>3
<1>5. CASE AddCloses(a)
  <2>1. \A b \in Adders \ {a} : adds'[b] = adds[b]
    BY <1>1, <1>5 DEF AddCloses
  <2>2. client' # 0 => client' = client /\ adds[a].t # client
    BY <1>1, <1>5 DEF AddCloses, Close
  <2>3. QED
    BY <1>5, <2>1, <2>2, HandlesKept DEF AddCloses, Close, Active, Waits
<1>6. QED
  BY <1>2, <1>3, <1>4, <1>5

LEMMA OthersKeepHandles ==
  ASSUME LifetimeTypes, NoOrphanHandle, LifetimeNext, ~AddStep
  PROVE  NoOrphanHandle'
<1> USE DEF clientVars, entryVars, addVars, userVars, diskVars
<1>1. /\ adds \in [Adders -> AddRecord] /\ entry \in EntryRecord /\ Probe \in Adders
      /\ info \in BOOLEAN /\ NoEntry.id = 0
  BY LifetimeAssumption DEF LifetimeTypes, AddsTyped, EntryTyped, ClientTyped, NoEntry
\* Ending an entry hands its handle over to be closed, or closes it.
<1>2. ASSUME Active, entry' = NoEntry, UNCHANGED <<stale, adds>>,
             CloseLater \/ CloseNow
      PROVE  NoOrphanHandle'
  <2>1. ~Active'
    BY <1>1, <1>2 DEF Active
  <2>2. CASE CloseLater
    BY <1>2, <2>1, <2>2, HandlesKept DEF CloseLater, Waits
  <2>3. CASE CloseNow
    BY <1>2, <2>1, <2>3, HandlesKept DEF CloseNow, Close, Waits
  <2>4. QED
    BY <1>2, <2>2, <2>3
<1>3. CASE ViewerStep \/ UseStep \/ TimeStep
  <2>1. /\ entry'.id = entry.id /\ entry'.t = entry.t
        /\ UNCHANGED <<clientVars, stale, adds, dropping>>
    BY <1>1, <1>3 DEF ViewerStep, UseStep, TimeStep, AcquireViewer, ReleaseViewer, Read, Touch,
                      RegisterDownload, UnregisterDownload, SetSeedTrackers, GrowsIdle,
                      LeaseExpires, Bump, EntryRecord
  <2>2. QED
    BY <2>1, HandlesKept DEF Active, Waits
<1>4. CASE ProbeAsks \/ ProbeSnapshots
  <2>1. /\ ~Waits(Probe) /\ \A a \in Adders \ {Probe} : adds'[a] = adds[a]
        /\ UNCHANGED <<clientVars, entry, stale, dropping>>
    BY <1>1, <1>4 DEF ProbeAsks, ProbeSnapshots, Waits
  <2>2. QED
    BY <2>1, HandlesKept DEF Active, Waits
<1>5. CASE ProbeDrops
  <2>1. ~Waits(Probe) /\ \A a \in Adders \ {Probe} : adds'[a] = adds[a]
    BY <1>1, <1>5 DEF ProbeDrops, Waits
  <2>2. \A a \in Adders : Waits(a) => Waits(a)' /\ adds'[a].t = adds[a].t
    BY <2>1 DEF Waits
  <2>3. UNCHANGED <<clientVars, stale>>
    BY <1>5 DEF ProbeDrops, CloseLater
  <2>4. \/ UNCHANGED <<entry, dropping>>
        \/ entry' = NoEntry /\ dropping' = dropping \union {entry.t}
    BY <1>5 DEF ProbeDrops, CloseLater
  <2>5. QED
    BY <1>1, <2>2, <2>3, <2>4, HandlesKept DEF Active
<1>6. CASE EndStep
  <2>1. ASSUME NEW explicit \in BOOLEAN, Drop(explicit) PROVE NoOrphanHandle'
    BY <1>2, <2>1 DEF Drop, Forget, CloseLater
  <2>2. ASSUME NEW id \in 1..MaxEntries, GraceFires(id) PROVE NoOrphanHandle'
    <3>1. CASE StillIdle(id)
      <4>1. Active
        BY <3>1, <2>2 DEF StillIdle, Active
      <4>2. QED
        BY <1>2, <2>2, <3>1, <4>1 DEF GraceFires, Forget, CloseLater
    <3>2. CASE ~StillIdle(id)
      BY <2>2, <3>2, HandlesKept DEF GraceFires, Active, Waits
    <3>3. QED
      BY <3>1, <3>2
  <2>3. CASE ReapIdle
    BY <1>2, <2>3 DEF ReapIdle, Reapable, Forget, CloseNow, Close
  <2>4. CASE Clear
    <3>1. CASE Active
      BY <1>2, <2>4, <3>1 DEF Clear, Forget, CloseNow, Close
    <3>2. CASE ~Active
      BY <2>4, <3>2, HandlesKept DEF Clear, Active, Waits
    <3>3. QED
      BY <3>1, <3>2
  <2>5. QED
    BY <1>6, <2>1, <2>2, <2>3, <2>4 DEF EndStep
<1>7. CASE SweepStep
  BY <1>7, HandlesKept DEF SweepStep, SweepLists, SweepChecks, SweepRemoves, Active, Waits
<1>8. CASE MetadataArrives
  BY <1>8, HandlesKept DEF MetadataArrives, Active, Waits
<1>9. ASSUME NEW t \in 1..MaxHandles, FinishDrop(t) PROVE NoOrphanHandle'
  <2>1. /\ client' # 0 => client' = client /\ info' = info /\ t # client
        /\ dropping' = dropping \ {t}
        /\ UNCHANGED <<entry, stale, adds>>
    BY <1>1, <1>9 DEF FinishDrop, Close
  <2>2. QED
    BY <2>1, HandlesKept DEF Active, Waits
<1>10. QED
  BY <1>3, <1>4, <1>5, <1>6, <1>7, <1>8, <1>9, Steps DEF ProbeStep

(* No handle is left open in the client that nobody would close, however many  *)
(* adds, drops and timeouts meet, but for the two ways out the history excepts: *)
(* a closed handle registered late, and an entry that names one.               *)
THEOREM HandlesHaveOwner == LifetimeSpec => []NoOrphanHandle
<1>1. LifetimeInit => NoOrphanHandle
  BY DEF LifetimeInit, NoOrphanHandle
<1>2. LifetimeTypes /\ NoOrphanHandle /\ [LifetimeNext]_lifetimeVars => NoOrphanHandle'
  <2> SUFFICES ASSUME LifetimeTypes, NoOrphanHandle, [LifetimeNext]_lifetimeVars PROVE NoOrphanHandle'
    OBVIOUS
  <2>1. CASE UNCHANGED lifetimeVars
    BY <2>1, HandlesKept DEF lifetimeVars, clientVars, entryVars, addVars, Active, Waits
  <2>2. CASE AddStep
    BY <2>2, AddKeepsHandles DEF AddStep
  <2>3. CASE LifetimeNext /\ ~AddStep
    BY <2>3, OthersKeepHandles
  <2>4. QED
    BY <2>1, <2>2, <2>3
<1>3. QED
  BY <1>1, <1>2, LifetimeTypesHold, PTL DEF LifetimeSpec

-----------------------------------------------------------------------------
(* The collector's second look.                                                *)

LookInv ==
  /\ entry.id <= entries /\ checkedAt <= entries
  /\ sweep = "checked" /\ Active => entry.id > checkedAt

\* Entries stay or end; a new one is later than every look.
LEMMA LookKept ==
  ASSUME LifetimeTypes, LifetimeTypes', LookInv, entries' = entries,
         entry'.id = entry.id \/ entry'.id = 0,
         UNCHANGED <<sweep, checkedAt>> \/ (sweep' # "checked" /\ UNCHANGED checkedAt)
  PROVE  LookInv'
<1>1. entry.id \in Nat /\ entries \in Nat /\ checkedAt \in Nat
  BY EntrySteps, Numbers DEF LifetimeTypes, EntryTyped, DiskTyped
<1>2. QED
  BY <1>1 DEF LookInv, Active

LEMMA LookInvHolds == LifetimeSpec => []LookInv
<1>1. LifetimeInit => LookInv
  BY DEF LifetimeInit, LookInv, NoEntry, Active
<1>2. LifetimeTypes /\ LifetimeTypes' /\ LookInv /\ [LifetimeNext]_lifetimeVars => LookInv'
  <2> SUFFICES ASSUME LifetimeTypes, LifetimeTypes', LookInv, [LifetimeNext]_lifetimeVars PROVE LookInv'
    OBVIOUS
  <2> USE DEF clientVars, entryVars, addVars, userVars, diskVars
  <2>1. /\ entry \in EntryRecord /\ NoEntry.id = 0
        /\ entry.id \in Nat /\ entries \in Nat /\ checkedAt \in Nat
    BY EntrySteps, Numbers DEF LifetimeTypes, EntryTyped, DiskTyped, NoEntry
  <2>2. CASE AddStep
    <3>1. PICK a \in Adders : AddResolve(a) \/ AddRegisters(a) \/ AddTimesOut(a) \/ AddCloses(a)
      BY <2>2 DEF AddStep
    <3>2. CASE AddRegisters(a) /\ Active
      <4>1. entry'.id = entry.id
        BY <2>1, <3>2 DEF AddRegisters, EntryRecord
      <4>2. QED
        BY <3>2, <4>1, LookKept DEF AddRegisters
    <3>3. CASE AddRegisters(a) /\ ~Active
      <4>1. entry'.id = entries + 1 /\ entries' = entries + 1 /\ UNCHANGED <<sweep, checkedAt>>
        BY <3>3, NewEntries DEF AddRegisters, EntryRecord
      <4>2. QED
        BY <2>1, <4>1 DEF LookInv
    <3>4. QED
      BY <3>1, <3>2, <3>3, LookKept DEF AddResolve, AddTimesOut, AddCloses
  <2>3. CASE ViewerStep \/ UseStep \/ TimeStep
    <3>1. entry'.id = entry.id /\ UNCHANGED <<entries, sweep, checkedAt>>
      BY <2>1, <2>3 DEF ViewerStep, UseStep, TimeStep, AcquireViewer, ReleaseViewer, Read, Touch,
                        RegisterDownload, UnregisterDownload, SetSeedTrackers, GrowsIdle,
                        LeaseExpires, Bump, EntryRecord
    <3>2. QED
      BY <3>1, LookKept
  <2>4. CASE ProbeStep \/ EndStep
    <3>1. (entry' = entry \/ entry' = NoEntry) /\ UNCHANGED <<entries, sweep, checkedAt>>
      BY <2>4 DEF ProbeStep, EndStep, ProbeAsks, ProbeSnapshots, ProbeDrops, Drop, GraceFires,
                  ReapIdle, Clear, Forget
    <3>2. QED
      BY <2>1, <3>1, LookKept
  <2>5. CASE SweepLists \/ SweepRemoves
    BY <2>5, LookKept DEF SweepLists, SweepRemoves
  <2>6. CASE SweepChecks
    <3>1. checkedAt' = entries /\ UNCHANGED <<entry, entries>> /\ (sweep' = "checked" => ~Active)
      BY <2>6 DEF SweepChecks, EvictionBlocked
    <3>2. QED
      BY <2>1, <3>1 DEF LookInv, Active
  <2>7. CASE MetadataArrives \/ (\E t \in 1..MaxHandles : FinishDrop(t)) \/ UNCHANGED lifetimeVars
    BY <2>7, LookKept DEF MetadataArrives, FinishDrop, lifetimeVars
  <2>8. QED
    BY <2>2, <2>3, <2>4, <2>5, <2>6, <2>7, Steps DEF SweepStep
<1>3. QED
  BY <1>1, <1>2, LifetimeTypesHold, PTL DEF LifetimeSpec

(* The collector removes the files of no torrent that was loaded when it last  *)
(* looked, whatever was loaded, dropped and loaded again since its listing.    *)
THEOREM LoadedSpared == LifetimeSpec => EvictionSparesLoaded
<1>1. LookInv /\ [LifetimeNext]_lifetimeVars
        => [SweepRemoves /\ Active => entry.id > checkedAt]_lifetimeVars
  BY DEF LookInv, SweepRemoves
<1>2. QED
  BY <1>1, LookInvHolds, PTL DEF LifetimeSpec, EvictionSparesLoaded

------------------------------------------------------------------------------
(* HLS sessions.                                                               *)

(* Types.  The bound on the runs of a session plays no part in what follows: a *)
(* generation is just a number here.  RunsCounted below adds the bound.        *)

SessionRecord == [key : Keys \union {Nobody},
                  at : {"free", "building", "tracked", "removed", "stopping", "gone"},
                  dead : BOOLEAN, failed : BOOLEAN, holds : BOOLEAN, sw : BOOLEAN, gen : Nat]

BuildSteps == {"building", "reclaiming", "reserved"}

RequestRecord ==
  {q \in [at : {"idle", "asking", "waiting", "reaping"} \union BuildSteps,
          key : Keys \union {Nobody}, s : Sessions \union {Nobody}] :
     q.at \in BuildSteps \union {"reaping"} => q.s \in Sessions}

RunRecord == [s : Sessions, gen : Nat, st : {"running", "killed", "oom", "err"}]

HlsTypes ==
  /\ sess \in [Sessions -> SessionRecord]
  /\ runs \subseteq RunRecord
  /\ moving \in [Sessions -> {"no", "waiting", "started"}]
  /\ inUse \in Int
  /\ request \in [Requests -> RequestRecord]

LEMMA Actors == ASSUME NEW a \in Asks PROVE a[1] \in Requests /\ a[2] \in Keys
BY DEF Requests, Keys

LEMMA SessionSteps ==
  ASSUME NEW x \in SessionRecord
  PROVE  /\ x.at \in {"free", "building", "tracked", "removed", "stopping", "gone"}
         /\ x.key \in Keys \union {Nobody} /\ x.gen \in Nat
         /\ x.dead \in BOOLEAN /\ x.failed \in BOOLEAN /\ x.holds \in BOOLEAN /\ x.sw \in BOOLEAN
         /\ [x EXCEPT !.at = "removed"] \in SessionRecord
         /\ [x EXCEPT !.at = "gone", !.holds = FALSE] \in SessionRecord
         /\ \A k \in Keys \union {Nobody} : [x EXCEPT !.key = k, !.at = "building"] \in SessionRecord
         /\ [x EXCEPT !.holds = TRUE] \in SessionRecord
         /\ [x EXCEPT !.holds = FALSE] \in SessionRecord
         /\ \A b \in BOOLEAN : [x EXCEPT !.sw = b] \in SessionRecord
         /\ [x EXCEPT !.failed = TRUE] \in SessionRecord
         /\ [x EXCEPT !.at = "tracked", !.gen = 1] \in SessionRecord
         /\ \A n \in Nat : [x EXCEPT !.failed = FALSE, !.gen = n] \in SessionRecord
         /\ [x EXCEPT !.dead = TRUE, !.at = "stopping", !.failed = FALSE] \in SessionRecord
         /\ [x EXCEPT !.at = "gone", !.sw = FALSE] \in SessionRecord
BY DEF SessionRecord

LEMMA RequestSteps ==
  ASSUME NEW q \in RequestRecord
  PROVE  /\ q.at \in {"idle", "asking", "waiting", "reaping"} \union BuildSteps
         /\ q.at \in BuildSteps \union {"reaping"} => q.s \in Sessions
         /\ \A at \in {"asking", "waiting"} : [q EXCEPT !.at = at] \in RequestRecord
         /\ \A at \in {"reclaiming", "reserved"} : q.at \in BuildSteps => [q EXCEPT !.at = at] \in RequestRecord
         /\ \A at \in {"building", "reaping"}, s \in Sessions :
              [q EXCEPT !.at = at, !.s = s] \in RequestRecord
         /\ [q EXCEPT !.at = "asking", !.s = Nobody] \in RequestRecord
BY DEF RequestRecord, BuildSteps

LEMMA FreshRequests ==
  /\ Idle \in RequestRecord
  /\ \A k \in Keys : [at |-> "asking", key |-> k, s |-> Nobody] \in RequestRecord
BY DEF RequestRecord, Idle, BuildSteps

LEMMA RunSteps ==
  ASSUME NEW e \in RunRecord
  PROVE  /\ e.s \in Sessions /\ e.gen \in Nat /\ e.st \in {"running", "killed", "oom", "err"}
         /\ \A st \in {"running", "killed", "oom", "err"} : [e EXCEPT !.st = st] \in RunRecord
BY DEF RunRecord

LEMMA InitHlsTyped == HlsInit => HlsTypes
<1>1. NoSession \in SessionRecord
  BY DEF NoSession, SessionRecord
<1>2. QED
  BY <1>1, FreshRequests DEF HlsInit, HlsTypes

LEMMA WakeTyped ==
  ASSUME NEW q \in [Requests -> RequestRecord], NEW r \in Requests, NEW k
  PROVE  wake(q, r, k) \in [Requests -> RequestRecord]
BY RequestSteps DEF wake

LEMMA RequestTyped ==
  ASSUME HlsTypes, NEW r \in Requests, RequestStep(r) \/ Leave(r)
  PROVE  HlsTypes'
<1> USE FreshRequests DEF HlsTypes, Went, HasSlot
<1>1. request[r] \in RequestRecord /\ (request[r].at \in BuildSteps => request[r].s \in Sessions)
  BY RequestSteps
<1>2. \A s \in Sessions : sess[s] \in SessionRecord
  OBVIOUS
<1>3. CASE FindFailed(r)
  <2>1. PICK s \in Sessions :
          /\ sess' = [sess EXCEPT ![s].at = "removed"]
          /\ request' = [request EXCEPT ![r].at = "reaping", ![r].s = s]
    BY <1>3 DEF FindFailed, Tracked
  <2>2. QED
    BY <1>1, <1>2, <1>3, <2>1, SessionSteps, RequestSteps DEF FindFailed
<1>4. CASE Find(r) \/ Leave(r)
  BY <1>4 DEF Find, Leave
<1>5. CASE BecomeBuilder(r)
  <2>1. PICK s \in Sessions :
          /\ sess' = [sess EXCEPT ![s].key = request[r].key, ![s].at = "building"]
          /\ request' = [request EXCEPT ![r].at = "building", ![r].s = s]
    BY <1>5 DEF BecomeBuilder
  <2>2. request[r].key \in Keys \union {Nobody}
    BY <1>1 DEF RequestRecord
  <2>3. QED
    BY <1>1, <1>2, <1>5, <2>1, <2>2, SessionSteps, RequestSteps DEF BecomeBuilder
<1>6. CASE Await(r) \/ Reaped(r)
  BY <1>1, <1>6, RequestSteps DEF Await, Reaped
<1>7. CASE Reserve(r) \/ Reserve2(r)
  <2>1. request[r].s \in Sessions /\ [request[r] EXCEPT !.at = "reserved"] \in RequestRecord
    BY <1>1, <1>7, RequestSteps DEF Reserve, Reserve2, BuildSteps
  <2>2. [sess[request[r].s] EXCEPT !.holds = TRUE] \in SessionRecord
    BY <1>2, <2>1, SessionSteps
  <2>3. QED
    BY <1>7, <2>1, <2>2 DEF Reserve, Reserve2
<1>8. CASE Reclaim(r)
  <2>1. PICK v \in Sessions : sess' = [sess EXCEPT ![v].at = "removed"]
    BY <1>8 DEF Reclaim
  <2>2. request' \in [Requests -> RequestRecord]
    BY <1>1, <1>8, RequestSteps DEF Reclaim, BuildSteps
  <2>3. QED
    BY <1>2, <1>8, <2>1, <2>2, SessionSteps DEF Reclaim
<1>9. CASE DecodeInSoftware(r)
  BY <1>1, <1>2, <1>9, SessionSteps, RequestSteps DEF DecodeInSoftware, BuildSteps
<1>10. CASE Built(r)
  <2>1. request[r].s \in Sessions /\ request' \in [Requests -> RequestRecord]
    BY <1>1, <1>10, WakeTyped DEF Built, BuildSteps
  <2>2. [s |-> request[r].s, gen |-> 1, st |-> "running"] \in RunRecord
    BY <2>1 DEF RunRecord
  <2>3. QED
    BY <1>2, <1>10, <2>1, <2>2, SessionSteps DEF Built
<1>11. CASE BuildFails(r)
  <2>1. request[r].s \in Sessions /\ request' \in [Requests -> RequestRecord]
    BY <1>1, <1>11, WakeTyped DEF BuildFails, BuildSteps
  <2>2. sess' \in [Sessions -> SessionRecord]
    BY <1>2, <1>11, <2>1, SessionSteps DEF BuildFails
  <2>3. inUse' \in Int
    BY <1>11 DEF BuildFails
  <2>4. QED
    BY <1>11, <2>1, <2>2, <2>3 DEF BuildFails
<1>12. QED
  BY <1>3, <1>4, <1>5, <1>6, <1>7, <1>8, <1>9, <1>10, <1>11 DEF RequestStep

LEMMA CancelTyped == ASSUME HlsTypes, NEW s PROVE Cancelled(s) \subseteq RunRecord
BY RunSteps DEF HlsTypes, Cancelled

LEMMA RunTyped ==
  ASSUME HlsTypes, NEW e \in runs, RunStep(e)
  PROVE  HlsTypes'
<1> USE DEF HlsTypes
<1>1. /\ e \in RunRecord /\ e.s \in Sessions /\ sess[e.s] \in SessionRecord
      /\ \A st \in {"running", "killed", "oom", "err"} : [e EXCEPT !.st = st] \in RunRecord
  BY RunSteps
<1>2. CASE Exit(e) \/ RecoverNot(e)
  BY <1>2 DEF Exit, RecoverNot
<1>3. CASE Crash(e)
  BY <1>1, <1>3 DEF Crash, Put
<1>4. CASE Recover(e)
  <2>1. sess' \in [Sessions -> SessionRecord]
    BY <1>1, <1>4, SessionSteps DEF Recover, releaseGPUSlot
  <2>2. QED
    BY <1>1, <1>4, <2>1 DEF Recover, TakenBack, Moves
<1>5. CASE MarkFailed(e)
  BY <1>1, <1>5, SessionSteps DEF MarkFailed
<1>6. QED
  BY <1>2, <1>3, <1>4, <1>5 DEF RunStep

LEMMA SessionTyped ==
  ASSUME HlsTypes, NEW s \in Sessions, MoveStep(s) \/ StopStep(s) \/ Seek(s) \/ CloseSession(s)
  PROVE  HlsTypes'
<1> USE DEF HlsTypes, Moves
<1>1. sess[s] \in SessionRecord
  OBVIOUS
<1>2. CASE StartEncoder(s) \/ StartFails(s)
  BY <1>2 DEF StartEncoder, StartFails
<1>3. CASE Launched(s)
  <2> sess[s].gen \in Nat
    BY <1>1, SessionSteps
  <2>1. PICK n \in Nat : n = sess[s].gen + 1
    OBVIOUS
  <2>2. /\ [s |-> s, gen |-> n, st |-> "running"] \in RunRecord
        /\ [sess[s] EXCEPT !.failed = FALSE, !.gen = n] \in SessionRecord
    BY <1>1, SessionSteps DEF RunRecord
  <2>3. sess' \in [Sessions -> SessionRecord]
    BY <1>3, <2>1, <2>2 DEF Launched
  <2>4. QED
    BY <1>3, <2>1, <2>2, <2>3 DEF Launched
<1>4. CASE StopEncoder(s)
  <2>1. sess' \in [Sessions -> SessionRecord]
    BY <1>1, <1>4, SessionSteps DEF StopEncoder
  <2>2. QED
    BY <1>4, <2>1, CancelTyped DEF StopEncoder
<1>5. CASE StopRest(s)
  <2>1. sess' \in [Sessions -> SessionRecord]
    BY <1>1, <1>5, SessionSteps DEF StopRest, releaseGPUSlot
  <2>2. QED
    BY <1>5, <2>1 DEF StopRest, TakenBack
<1>6. CASE Seek(s)
  BY <1>6, CancelTyped DEF Seek
<1>7. CASE CloseSession(s)
  BY <1>1, <1>7, SessionSteps DEF CloseSession
<1>8. QED
  BY <1>2, <1>3, <1>4, <1>5, <1>6, <1>7 DEF MoveStep, StopStep

LEMMA HlsStepTyped == HlsTypes /\ [HlsNext]_hlsVars => HlsTypes'
<1> SUFFICES ASSUME HlsTypes, [HlsNext]_hlsVars PROVE HlsTypes'
  OBVIOUS
<1>1. CASE UNCHANGED hlsVars
  BY <1>1 DEF hlsVars, HlsTypes
<1>2. ASSUME NEW a \in Asks, Ask(a[1], a[2]) PROVE HlsTypes'
  BY <1>2, Actors, FreshRequests DEF Ask, HlsTypes
<1>3. QED
  BY <1>1, <1>2, RequestTyped, RunTyped, SessionTyped DEF HlsNext

LEMMA HlsTypesHold == HlsSpec => []HlsTypes
BY InitHlsTyped, HlsStepTyped, PTL DEF HlsSpec

-----------------------------------------------------------------------------
(* Builds.  Each session that is being built is the work of one request, so   *)
(* who waits for a build waits for a request that has not finished.           *)

BuildersOwn ==
  \A r \in Requests : request[r].at \in BuildSteps => sess[request[r].s].at = "building"
BuildersApart ==
  \A r, q \in Requests : request[r].at \in BuildSteps /\ request[q].at \in BuildSteps
                          /\ request[r].s = request[q].s => r = q
BuildsHaveBuilder ==
  \A s \in Sessions : sess[s].at = "building" =>
    \E r \in Requests : request[r].at \in BuildSteps /\ request[r].s = s
BuildInv == BuildersOwn /\ BuildersApart /\ BuildsHaveBuilder /\ WaitersHaveBuilder

\* What a step must leave alone for the invariant to survive it.
LEMMA BuildsKept ==
  ASSUME HlsTypes, BuildInv,
         \A r \in Requests :
           /\ request'[r].at \in BuildSteps <=> request[r].at \in BuildSteps
           /\ request[r].at \in BuildSteps => request'[r].s = request[r].s
           /\ request'[r].at = "waiting" => request[r].at = "waiting" /\ request'[r].key = request[r].key,
         \A s \in Sessions :
           /\ sess'[s].at = "building" <=> sess[s].at = "building"
           /\ sess[s].at = "building" => sess'[s].key = sess[s].key
  PROVE  BuildInv'
<1>1. \A r \in Requests : request[r].at \in BuildSteps => request[r].s \in Sessions
  BY RequestSteps DEF HlsTypes
<1>2. BuildersOwn' /\ BuildersApart' /\ BuildsHaveBuilder'
  BY <1>1 DEF BuildInv, BuildersOwn, BuildersApart, BuildsHaveBuilder
<1>3. WaitersHaveBuilder'
  <2> SUFFICES ASSUME NEW r \in Requests, request'[r].at = "waiting"
               PROVE  \E b \in Requests : /\ request'[b].at \in BuildSteps
                                          /\ sess'[request'[b].s].key = request'[r].key
    BY DEF WaitersHaveBuilder, BuildSteps
  <2>1. PICK b \in Requests : request[b].at \in BuildSteps /\ sess[request[b].s].key = request[r].key
    BY DEF BuildInv, WaitersHaveBuilder, BuildSteps
  <2>2. sess[request[b].s].at = "building"
    BY <2>1 DEF BuildInv, BuildersOwn
  <2>3. QED
    BY <1>1, <2>1, <2>2
<1>4. QED
  BY <1>2, <1>3 DEF BuildInv

\* The four steps that begin, await or end a build.
LEMMA BuildBegins ==
  ASSUME HlsTypes, BuildInv, NEW r \in Requests, BecomeBuilder(r)
  PROVE  BuildInv'
<1>1. PICK s \in Sessions :
        /\ sess[s].at = "free"
        /\ sess' = [sess EXCEPT ![s].key = request[r].key, ![s].at = "building"]
        /\ request' = [request EXCEPT ![r].at = "building", ![r].s = s]
  BY DEF BecomeBuilder
<1>2. \A q \in Requests : request[q].at \in BuildSteps => request[q].s \in Sessions \ {s}
  BY <1>1, RequestSteps DEF HlsTypes, BuildInv, BuildersOwn
<1>3. /\ request[r].at = "asking" /\ "asking" \notin BuildSteps
      /\ request'[r].at = "building" /\ "building" \in BuildSteps /\ request'[r].s = s
      /\ \A q \in Requests \ {r} : request'[q] = request[q]
      /\ sess'[s].at = "building"
      /\ \A t \in Sessions \ {s} : sess'[t] = sess[t]
  BY <1>1 DEF BecomeBuilder, HlsTypes, BuildSteps, SessionRecord, RequestRecord
<1>4. BuildersOwn' /\ BuildersApart' /\ BuildsHaveBuilder'
  BY <1>2, <1>3 DEF BuildInv, BuildersOwn, BuildersApart, BuildsHaveBuilder
<1>5. WaitersHaveBuilder'
  <2> SUFFICES ASSUME NEW w \in Requests, request'[w].at = "waiting"
               PROVE  \E b \in Requests : /\ request'[b].at \in BuildSteps
                                          /\ sess'[request'[b].s].key = request'[w].key
    BY DEF WaitersHaveBuilder, BuildSteps
  <2>1. w # r
    BY <1>3
  <2>2. PICK b \in Requests : request[b].at \in BuildSteps /\ sess[request[b].s].key = request[w].key
    BY <1>3, <2>1 DEF BuildInv, WaitersHaveBuilder, BuildSteps
  <2>3. QED
    BY <1>2, <1>3, <2>1, <2>2
<1>6. QED
  BY <1>4, <1>5 DEF BuildInv

LEMMA BuildAwaited ==
  ASSUME HlsTypes, BuildInv, NEW r \in Requests, Await(r)
  PROVE  BuildInv'
<1>1. /\ \A q \in Requests : request'[q] = [request[q] EXCEPT !.at = IF q = r THEN "waiting" ELSE @]
      /\ request[r].at = "asking" /\ UNCHANGED sess
  BY DEF Await, Went, HlsTypes, RequestRecord
<1>2. /\ request'[r].at = "waiting" /\ request'[r].key = request[r].key
      /\ \A q \in Requests \ {r} : request'[q] = request[q]
  BY DEF Await, Went, HlsTypes, RequestRecord
<1>3. BuildersOwn' /\ BuildersApart' /\ BuildsHaveBuilder'
  BY <1>1, <1>2 DEF BuildInv, BuildersOwn, BuildersApart, BuildsHaveBuilder, BuildSteps
<1>4. PICK s \in Sessions : sess[s].at = "building" /\ sess[s].key = request[r].key
  BY DEF Await, BuilderAlone, BeingBuilt
<1>5. PICK b \in Requests : request[b].at \in BuildSteps /\ request[b].s = s
  BY <1>4 DEF BuildInv, BuildsHaveBuilder
<1>6. b # r
  BY <1>1, <1>5 DEF BuildSteps
<1>7. WaitersHaveBuilder'
  <2> SUFFICES ASSUME NEW w \in Requests, request'[w].at = "waiting"
               PROVE  \E c \in Requests : /\ request'[c].at \in BuildSteps
                                          /\ sess'[request'[c].s].key = request'[w].key
    BY DEF WaitersHaveBuilder, BuildSteps
  <2>1. CASE w = r
    BY <1>1, <1>2, <1>4, <1>5, <1>6, <2>1
  <2>2. CASE w # r
    <3>1. PICK c \in Requests : request[c].at \in BuildSteps /\ sess[request[c].s].key = request[w].key
      BY <1>2, <2>2 DEF BuildInv, WaitersHaveBuilder, BuildSteps
    <3>2. c # r
      BY <1>1, <3>1 DEF BuildSteps
    <3>3. QED
      BY <1>1, <1>2, <2>2, <3>1, <3>2
  <2>3. QED
    BY <2>1, <2>2
<1>8. QED
  BY <1>3, <1>7 DEF BuildInv

LEMMA BuildEnds ==
  ASSUME HlsTypes, BuildInv, NEW r \in Requests, Built(r) \/ BuildFails(r)
  PROVE  BuildInv'
<1> DEFINE s == request[r].s
<1>1. request[r].at \in BuildSteps /\ s \in Sessions /\ sess[s].at = "building"
  BY RequestSteps DEF HlsTypes, Built, BuildFails, BuildSteps, BuildInv, BuildersOwn
<1>2. request' = wake([request EXCEPT ![r] = Idle], r, sess[s].key)
  BY DEF Built, BuildFails
<1>3. /\ request'[r] = Idle
      /\ \A q \in Requests \ {r} :
           request'[q] = IF request[q].at = "waiting" /\ request[q].key = sess[s].key
                         THEN [request[q] EXCEPT !.at = "asking"] ELSE request[q]
  BY <1>2 DEF wake, HlsTypes, Idle
<1>4. /\ request'[r].at = "idle"
      /\ \A q \in Requests \ {r} :
           /\ request'[q].at \in BuildSteps <=> request[q].at \in BuildSteps
           /\ request[q].at \in BuildSteps => request'[q] = request[q]
           /\ request'[q].at = "waiting" => request'[q] = request[q] /\ request[q].key # sess[s].key
  <2>1. \A q \in Requests : [request[q] EXCEPT !.at = "asking"].at = "asking"
    BY DEF HlsTypes, RequestRecord
  <2>2. ASSUME NEW q \in Requests \ {r}
        PROVE  /\ request'[q].at \in BuildSteps <=> request[q].at \in BuildSteps
               /\ request[q].at \in BuildSteps => request'[q] = request[q]
               /\ request'[q].at = "waiting" => request'[q] = request[q] /\ request[q].key # sess[s].key
    <3>1. CASE request[q].at = "waiting" /\ request[q].key = sess[s].key
      BY <1>3, <2>1, <3>1 DEF BuildSteps
    <3>2. CASE ~(request[q].at = "waiting" /\ request[q].key = sess[s].key)
      BY <1>3, <3>2
    <3>3. QED
      BY <3>1, <3>2
  <2>3. QED
    BY <1>3, <2>2 DEF Idle
<1>5. sess'[s].at # "building" /\ \A t \in Sessions \ {s} : sess'[t] = sess[t]
  BY <1>1 DEF Built, BuildFails, HlsTypes, SessionRecord
<1>6. \A q \in Requests \ {r} : request[q].at \in BuildSteps => request[q].s \in Sessions \ {s}
  BY <1>1, RequestSteps DEF HlsTypes, BuildInv, BuildersApart
<1>7. BuildersOwn' /\ BuildersApart' /\ BuildsHaveBuilder'
  BY <1>1, <1>4, <1>5, <1>6 DEF BuildInv, BuildersOwn, BuildersApart, BuildsHaveBuilder, BuildSteps
<1>8. WaitersHaveBuilder'
  <2> SUFFICES ASSUME NEW w \in Requests, request'[w].at = "waiting"
               PROVE  \E b \in Requests : /\ request'[b].at \in BuildSteps
                                          /\ sess'[request'[b].s].key = request'[w].key
    BY DEF WaitersHaveBuilder, BuildSteps
  <2>1. w # r /\ request'[w] = request[w] /\ request[w].key # sess[s].key
    BY <1>4
  <2>2. PICK b \in Requests : request[b].at \in BuildSteps /\ sess[request[b].s].key = request[w].key
    BY <2>1 DEF BuildInv, WaitersHaveBuilder, BuildSteps
  <2>3. b # r
    BY <2>1, <2>2
  <2>4. QED
    BY <1>4, <1>5, <1>6, <2>1, <2>2, <2>3
<1>9. QED
  BY <1>7, <1>8 DEF BuildInv

LEMMA RequestKeepsBuilds ==
  ASSUME HlsTypes, BuildInv, NEW r \in Requests, RequestStep(r) \/ Leave(r)
  PROVE  BuildInv'
<1>1. request[r] \in RequestRecord /\ (request[r].at \in BuildSteps => request[r].s \in Sessions)
  BY RequestSteps DEF HlsTypes
<1>2. CASE FindFailed(r)
  <2>1. PICK s \in Sessions :
          /\ sess[s].at = "tracked"
          /\ sess' = [sess EXCEPT ![s].at = "removed"]
          /\ request' = [request EXCEPT ![r].at = "reaping", ![r].s = s]
    BY <1>2 DEF FindFailed, Tracked
  <2>2. QED
    BY <1>1, <1>2, <2>1, BuildsKept DEF FindFailed, HlsTypes, BuildSteps, RequestRecord, SessionRecord
<1>3. CASE Find(r) \/ Leave(r) \/ Reaped(r)
  BY <1>1, <1>3, BuildsKept DEF Find, Leave, Reaped, Idle, HlsTypes, BuildSteps, RequestRecord
<1>4. CASE Reserve(r) \/ Reserve2(r) \/ DecodeInSoftware(r)
  BY <1>1, <1>4, BuildsKept
     DEF Reserve, Reserve2, DecodeInSoftware, HasSlot, Went, HlsTypes, BuildSteps, RequestRecord, SessionRecord
<1>5. CASE Reclaim(r)
  <2>1. PICK v \in Sessions : sess[v].at = "tracked" /\ sess' = [sess EXCEPT ![v].at = "removed"]
    BY <1>5 DEF Reclaim
  <2>2. QED
    BY <1>1, <1>5, <2>1, BuildsKept DEF Reclaim, Went, HlsTypes, BuildSteps, RequestRecord, SessionRecord
<1>6. QED
  BY <1>2, <1>3, <1>4, <1>5, BuildBegins, BuildAwaited, BuildEnds DEF RequestStep

\* Encoders and teardown are not concerned with builds.
LEMMA OthersKeepBuilds ==
  ASSUME HlsTypes, BuildInv, UNCHANGED request,
         \/ \E e \in runs : RunStep(e)
         \/ \E s \in Sessions : MoveStep(s) \/ StopStep(s) \/ Seek(s) \/ CloseSession(s)
  PROVE  BuildInv'
<1> SUFFICES \A s \in Sessions :
               /\ sess'[s].at = "building" <=> sess[s].at = "building"
               /\ sess[s].at = "building" => sess'[s].key = sess[s].key
  BY BuildsKept
<1>1. ASSUME NEW e \in runs, RunStep(e)
      PROVE  \A s \in Sessions : sess'[s].at = sess[s].at /\ sess'[s].key = sess[s].key
  <2>1. e.s \in Sessions /\ sess \in [Sessions -> SessionRecord]
    BY RunSteps DEF HlsTypes
  <2>2. CASE Exit(e) \/ Crash(e) \/ RecoverNot(e)
    BY <2>2 DEF Exit, Crash, RecoverNot
  <2>3. CASE Recover(e)
    BY <2>1, <2>3 DEF Recover, releaseGPUSlot, SessionRecord
  <2>4. CASE MarkFailed(e)
    BY <2>1, <2>4 DEF MarkFailed, SessionRecord
  <2>5. QED
    BY <1>1, <2>2, <2>3, <2>4 DEF RunStep
<1>2. ASSUME NEW t \in Sessions, MoveStep(t) \/ Seek(t)
      PROVE  \A s \in Sessions : sess'[s].at = sess[s].at /\ sess'[s].key = sess[s].key
  BY <1>2 DEF MoveStep, StartEncoder, StartFails, Launched, Seek, HlsTypes, SessionRecord
<1>3. ASSUME NEW t \in Sessions, StopStep(t) \/ CloseSession(t)
      PROVE  /\ sess[t].at # "building" /\ sess'[t].at # "building"
             /\ \A s \in Sessions \ {t} : sess'[s] = sess[s]
  <2> sess \in [Sessions -> SessionRecord]
    BY DEF HlsTypes
  <2>1. CASE StopEncoder(t)
    BY <2>1 DEF StopEncoder, SessionRecord
  <2>2. CASE StopRest(t)
    BY <2>2 DEF StopRest, releaseGPUSlot, SessionRecord
  <2>3. CASE CloseSession(t)
    BY <2>3 DEF CloseSession, SessionRecord
  <2>4. QED
    BY <1>3, <2>1, <2>2, <2>3 DEF StopStep
<1>4. QED
  BY <1>1, <1>2, <1>3

LEMMA RequestAlone ==
  ASSUME \/ \E e \in runs : RunStep(e)
         \/ \E s \in Sessions : MoveStep(s) \/ StopStep(s) \/ Seek(s) \/ CloseSession(s)
  PROVE  UNCHANGED request
BY DEF RunStep, Exit, Crash, Recover, RecoverNot, MarkFailed, MoveStep, StartEncoder, StartFails,
       Launched, Seek, StopStep, StopEncoder, StopRest, CloseSession

LEMMA BuildInvHolds == HlsSpec => []BuildInv
<1>1. HlsInit => BuildInv
  BY DEF HlsInit, BuildInv, BuildersOwn, BuildersApart, BuildsHaveBuilder, WaitersHaveBuilder,
         Idle, NoSession, BuildSteps
<1>2. HlsTypes /\ BuildInv /\ [HlsNext]_hlsVars => BuildInv'
  <2> SUFFICES ASSUME HlsTypes, BuildInv, [HlsNext]_hlsVars PROVE BuildInv'
    OBVIOUS
  <2>1. CASE UNCHANGED hlsVars
    BY <2>1, BuildsKept DEF hlsVars
  <2>2. ASSUME NEW a \in Asks, Ask(a[1], a[2]) PROVE BuildInv'
    <3>1. a[1] \in Requests
      BY Actors
    <3>2. QED
      BY <2>2, <3>1, BuildsKept DEF Ask, Idle, HlsTypes, BuildSteps
  <2>3. QED
    BY <2>1, <2>2, RequestKeepsBuilds, OthersKeepBuilds, RequestAlone DEF HlsNext
<1>3. QED
  BY <1>1, <1>2, HlsTypesHold, PTL DEF HlsSpec

(* Nobody waits for a build that nobody is doing, for any number of requests:  *)
(* a build that ends, however it ends, wakes everybody who waits for its key.  *)
THEOREM WaitersServed == HlsSpec => []WaitersHaveBuilder
<1>1. BuildInv => WaitersHaveBuilder
  BY DEF BuildInv
<1>2. QED
  BY <1>1, BuildInvHolds, PTL
-----------------------------------------------------------------------------
(* Encoders.  A generation has one run.  While the replacement of an encoder   *)
(* is under way nothing runs, so what it starts cannot be a second one.        *)

Unbuilt(s) == sess[s].at \in {"free", "building"}
NoneRunning(s) == \A e \in runs : e.s = s => e.st # "running"

UnbuiltQuiet ==
  \A s \in Sessions : Unbuilt(s) => ~sess[s].dead /\ moving[s] = "no" /\ \A e \in runs : e.s # s
GensBounded == \A e \in runs : e.gen <= sess[e.s].gen
RunsApart == \A e, f \in runs : e.s = f.s /\ e.gen = f.gen => e = f
MovesQuiet == \A s \in Sessions : moving[s] # "no" => NoneRunning(s)
EncInv == UnbuiltQuiet /\ GensBounded /\ RunsApart /\ MovesQuiet /\ EncodersOwned

\* Runs may end or be canceled; to stop a session or to replace its encoder, the
\* one it has must be silenced in the same step.
LEMMA EncodersKept ==
  ASSUME HlsTypes, HlsTypes', EncInv,
         \A f \in runs' : \E e \in runs : /\ f.s = e.s /\ f.gen = e.gen
                                          /\ f.st = "running" => e.st = "running",
         \A f, g \in runs' : f.s = g.s /\ f.gen = g.gen => f = g,
         \A s \in Sessions :
           /\ sess'[s].gen = sess[s].gen
           /\ Unbuilt(s)' => Unbuilt(s) /\ sess'[s].dead = sess[s].dead /\ moving'[s] = moving[s]
           /\ sess'[s].dead => sess[s].dead \/ NoneRunning(s)'
           /\ moving'[s] # "no" => moving[s] # "no" \/ NoneRunning(s)'
  PROVE  EncInv'
<1>1. \A f \in runs' : \E e \in runs : /\ f.s = e.s /\ f.gen = e.gen /\ e.s \in Sessions
                                       /\ f.st = "running" => e.st = "running"
  BY RunSteps DEF HlsTypes
<1>2. \A s \in Sessions : NoneRunning(s) => NoneRunning(s)'
  BY <1>1 DEF NoneRunning
<1>3. UnbuiltQuiet'
  BY <1>1 DEF UnbuiltQuiet, EncInv
<1>4. GensBounded'
  BY <1>1 DEF GensBounded, EncInv
<1>5. RunsApart'
  BY DEF RunsApart
<1>6. MovesQuiet'
  BY <1>2 DEF MovesQuiet, EncInv
<1>7. EncodersOwned'
  <2> SUFFICES ASSUME NEW f \in runs', f.st = "running"
               PROVE  f.gen = sess'[f.s].gen /\ ~sess'[f.s].dead
    BY DEF EncodersOwned
  <2>1. PICK e \in runs : f.s = e.s /\ f.gen = e.gen /\ e.s \in Sessions /\ e.st = "running"
    BY <1>1
  <2>2. e.gen = sess[e.s].gen /\ ~sess[e.s].dead
    BY <2>1 DEF EncInv, EncodersOwned
  <2>3. ~NoneRunning(f.s)'
    BY DEF NoneRunning
  <2>4. QED
    BY <2>1, <2>2, <2>3
<1>8. QED
  BY <1>3, <1>4, <1>5, <1>6, <1>7 DEF EncInv

\* The same when runs only end.
LEMMA EncodersEnd ==
  ASSUME HlsTypes, HlsTypes', EncInv, runs' \subseteq runs,
         \A s \in Sessions :
           /\ sess'[s].gen = sess[s].gen /\ sess'[s].dead = sess[s].dead
           /\ Unbuilt(s)' => Unbuilt(s)
           /\ moving'[s] # "no" => moving[s] # "no" \/ (~Unbuilt(s) /\ NoneRunning(s)')
  PROVE  EncInv'
<1>1. \A s \in Sessions : Unbuilt(s)' => moving'[s] = moving[s]
  BY DEF EncInv, UnbuiltQuiet
<1>2. \A f, g \in runs' : f.s = g.s /\ f.gen = g.gen => f = g
  BY DEF EncInv, RunsApart
<1>3. QED
  BY <1>1, <1>2, EncodersKept

LEMMA CanceledRuns ==
  ASSUME HlsTypes, EncInv, NEW s \in Sessions
  PROVE  /\ \A f \in Cancelled(s) : \E e \in runs : /\ f.s = e.s /\ f.gen = e.gen
                                                    /\ f.st = "running" => e.st = "running"
         /\ \A f, g \in Cancelled(s) : f.s = g.s /\ f.gen = g.gen => f = g
         /\ \A f \in Cancelled(s) : f.s = s => f.st # "running"
<1> DEFINE C(e) == [e EXCEPT !.st = IF e.s = s /\ e.gen = sess[s].gen /\ e.st = "running"
                                    THEN "killed" ELSE @]
<1>1. \A f \in Cancelled(s) : \E e \in runs : f = C(e)
  BY DEF Cancelled
<1>2. \A e \in runs : /\ C(e).s = e.s /\ C(e).gen = e.gen
                      /\ C(e).st = IF e.s = s /\ e.gen = sess[s].gen /\ e.st = "running"
                                   THEN "killed" ELSE e.st
  BY DEF HlsTypes, RunRecord
<1>3. \A e \in runs : e.s = s /\ e.st = "running" => e.gen = sess[s].gen
  BY DEF EncInv, EncodersOwned
<1> HIDE DEF C
<1>4. \A f, g \in Cancelled(s) : f.s = g.s /\ f.gen = g.gen => f = g
  <2> SUFFICES ASSUME NEW f \in Cancelled(s), NEW g \in Cancelled(s), f.s = g.s, f.gen = g.gen
               PROVE  f = g
    OBVIOUS
  <2>1. PICK e \in runs : f = C(e)
    BY <1>1
  <2>2. PICK h \in runs : g = C(h)
    BY <1>1
  <2>3. e = h
    BY <1>2, <2>1, <2>2 DEF EncInv, RunsApart
  <2>4. QED
    BY <2>1, <2>2, <2>3
<1>5. QED
  BY <1>1, <1>2, <1>3, <1>4

\* A first run, or the next one, of a session in which nothing runs.
LEMMA EncoderAdded ==
  ASSUME HlsTypes, HlsTypes', EncInv, NEW s \in Sessions, NEW n \in Nat,
         NoneRunning(s), ~sess[s].dead, \A e \in runs : e.s = s => e.gen < n,
         runs' = runs \union {[s |-> s, gen |-> n, st |-> "running"]},
         sess'[s].gen = n, ~sess'[s].dead, ~Unbuilt(s)', moving'[s] = "no",
         \A t \in Sessions \ {s} : sess'[t] = sess[t] /\ moving'[t] = moving[t]
  PROVE  EncInv'
<1> DEFINE new == [s |-> s, gen |-> n, st |-> "running"]
<1>1. new.s = s /\ new.gen = n /\ new.st = "running" /\ runs' = runs \union {new}
  OBVIOUS
<1>2. \A e \in runs : e.s \in Sessions /\ e.gen \in Nat
  BY RunSteps DEF HlsTypes
<1> HIDE DEF new
<1>3. UnbuiltQuiet'
  BY <1>1 DEF UnbuiltQuiet, EncInv, Unbuilt
<1>4. GensBounded'
  <2> SUFFICES ASSUME NEW e \in runs' PROVE e.gen <= sess'[e.s].gen
    BY DEF GensBounded
  <2>1. CASE e = new
    BY <1>1, <2>1
  <2>2. CASE e \in runs /\ e.s = s
    BY <1>2, <2>2
  <2>3. CASE e \in runs /\ e.s # s
    BY <1>2, <2>3 DEF EncInv, GensBounded
  <2>4. QED
    BY <1>1, <2>1, <2>2, <2>3
<1>5. RunsApart'
  <2>1. \A e \in runs : ~(e.s = new.s /\ e.gen = new.gen)
    BY <1>1, <1>2
  <2>2. QED
    BY <1>1, <2>1 DEF EncInv, RunsApart
<1>6. MovesQuiet'
  BY <1>1 DEF EncInv, MovesQuiet, NoneRunning
<1>7. EncodersOwned'
  BY <1>1, <1>2 DEF EncInv, EncodersOwned, NoneRunning
<1>8. QED
  BY <1>3, <1>4, <1>5, <1>6, <1>7 DEF EncInv

LEMMA RequestKeepsEncoders ==
  ASSUME HlsTypes, HlsTypes', BuildInv, EncInv, NEW r \in Requests, RequestStep(r) \/ Leave(r)
  PROVE  EncInv'
<1> sess \in [Sessions -> SessionRecord]
  BY DEF HlsTypes
<1> DEFINE Same == \A s \in Sessions : /\ sess'[s].gen = sess[s].gen /\ sess'[s].dead = sess[s].dead
                                       /\ Unbuilt(s)' => Unbuilt(s)
<1>1. ASSUME Same, UNCHANGED <<runs, moving>> PROVE EncInv'
  BY <1>1, EncodersEnd
<1>2. CASE Find(r) \/ Leave(r) \/ Reaped(r) \/ Await(r)
  BY <1>1, <1>2 DEF Find, Leave, Reaped, Await, Unbuilt
<1>3. CASE FindFailed(r)
  <2>1. PICK s \in Sessions : sess' = [sess EXCEPT ![s].at = "removed"]
    BY <1>3 DEF FindFailed, Tracked
  <2>2. QED
    BY <1>1, <1>3, <2>1 DEF FindFailed, Unbuilt, SessionRecord
<1>4. CASE BecomeBuilder(r)
  <2>1. PICK s \in Sessions : /\ sess[s].at = "free"
                              /\ sess' = [sess EXCEPT ![s].key = request[r].key, ![s].at = "building"]
    BY <1>4 DEF BecomeBuilder
  <2>2. QED
    BY <1>1, <1>4, <2>1 DEF BecomeBuilder, Unbuilt, SessionRecord
<1>5. CASE Reserve(r) \/ Reserve2(r)
  BY <1>1, <1>5 DEF Reserve, Reserve2, HasSlot, Unbuilt, SessionRecord
<1>6. CASE Reclaim(r)
  <2>1. PICK v \in Sessions : sess' = [sess EXCEPT ![v].at = "removed"]
    BY <1>6 DEF Reclaim
  <2>2. QED
    BY <1>1, <1>6, <2>1 DEF Reclaim, Unbuilt, SessionRecord
<1>7. CASE DecodeInSoftware(r)
  BY <1>1, <1>7 DEF DecodeInSoftware, Unbuilt, SessionRecord
<1>8. CASE BuildFails(r)
  BY <1>1, <1>8 DEF BuildFails, Unbuilt, SessionRecord
<1>9. CASE Built(r)
  <2>1. PICK s \in Sessions : s = request[r].s /\ sess[s].at = "building"
    BY <1>9, RequestSteps DEF HlsTypes, Built, BuildSteps, BuildInv, BuildersOwn
  <2>2. ~sess[s].dead /\ moving[s] = "no" /\ \A e \in runs : e.s # s
    BY <2>1 DEF EncInv, UnbuiltQuiet, Unbuilt
  <2>3. sess' = [sess EXCEPT ![s].at = "tracked", ![s].gen = 1]
    BY <1>9, <2>1 DEF Built
  <2>4. /\ sess'[s].gen = 1 /\ ~sess'[s].dead /\ sess'[s].at = "tracked"
        /\ \A t \in Sessions \ {s} : sess'[t] = sess[t]
    BY <2>2, <2>3 DEF SessionRecord
  <2>5. runs' = runs \union {[s |-> s, gen |-> 1, st |-> "running"]} /\ moving' = moving
    BY <1>9, <2>1 DEF Built
  <2>6. NoneRunning(s) /\ ~Unbuilt(s)' /\ 1 \in Nat
    BY <2>2, <2>4 DEF NoneRunning, Unbuilt
  <2>7. QED
    BY <2>2, <2>4, <2>5, <2>6, EncoderAdded
<1>10. QED
  BY <1>2, <1>3, <1>4, <1>5, <1>6, <1>7, <1>8, <1>9 DEF RequestStep

LEMMA RunKeepsEncoders ==
  ASSUME HlsTypes, HlsTypes', EncInv, NEW e \in runs, RunStep(e)
  PROVE  EncInv'
<1>1. e.s \in Sessions /\ sess[e.s] \in SessionRecord /\ sess \in [Sessions -> SessionRecord]
  BY RunSteps DEF HlsTypes
<1>2. CASE Exit(e) \/ RecoverNot(e)
  BY <1>2, EncodersEnd DEF Exit, RecoverNot, Unbuilt
<1>3. CASE MarkFailed(e)
  BY <1>1, <1>3, EncodersEnd DEF MarkFailed, Unbuilt, SessionRecord
<1>4. CASE Crash(e)
  <2>1. PICK st \in {"oom", "err"} : runs' = (runs \ {e}) \union {[e EXCEPT !.st = st]}
    BY <1>4 DEF Crash, Put
  <2>2. PICK f : /\ runs' = (runs \ {e}) \union {f}
                 /\ f.s = e.s /\ f.gen = e.gen /\ f.st # "running"
    <3> DEFINE f == [e EXCEPT !.st = st]
    <3>1. f.s = e.s /\ f.gen = e.gen /\ f.st = st
      BY DEF HlsTypes, RunRecord
    <3>2. runs' = (runs \ {e}) \union {f}
      BY <2>1
    <3> HIDE DEF f
    <3>3. QED
      BY <3>1, <3>2
  <2>3. \A g \in runs' : \E h \in runs : /\ g.s = h.s /\ g.gen = h.gen
                                         /\ g.st = "running" => h.st = "running"
    BY <2>2
  <2>4. \A g, h \in runs' : g.s = h.s /\ g.gen = h.gen => g = h
    BY <2>2 DEF EncInv, RunsApart
  <2>5. UNCHANGED <<sess, moving>>
    BY <1>4 DEF Crash
  <2>6. QED
    BY <2>3, <2>4, <2>5, EncodersKept DEF Unbuilt
<1>5. CASE Recover(e)
  <2>1. /\ \A s \in Sessions : sess'[s].gen = sess[s].gen /\ sess'[s].dead = sess[s].dead
                               /\ sess'[s].at = sess[s].at
        /\ runs' = runs \ {e}
    BY <1>1, <1>5 DEF Recover, releaseGPUSlot, SessionRecord
  <2>2. \A s \in Sessions \ {e.s} : moving'[s] = moving[s]
    BY <1>1, <1>5 DEF Recover, Moves, HlsTypes
  <2>3. ~Unbuilt(e.s)
    BY <1>1 DEF EncInv, UnbuiltQuiet
  <2>4. \A f \in runs \ {e} : f.s = e.s => f.st # "running"
    BY <1>5 DEF EncInv, EncodersOwned, RunsApart, Recover, recoverable
  <2>5. NoneRunning(e.s)'
    BY <2>1, <2>4 DEF NoneRunning
  <2>6. QED
    BY <1>1, <2>1, <2>2, <2>3, <2>5, EncodersEnd DEF Unbuilt
<1>6. QED
  BY <1>2, <1>3, <1>4, <1>5 DEF RunStep

LEMMA SessionKeepsEncoders ==
  ASSUME HlsTypes, HlsTypes', EncInv, NEW s \in Sessions,
         MoveStep(s) \/ StopStep(s) \/ Seek(s) \/ CloseSession(s)
  PROVE  EncInv'
<1>1. sess[s] \in SessionRecord /\ sess \in [Sessions -> SessionRecord]
      /\ moving \in [Sessions -> {"no", "waiting", "started"}]
  BY DEF HlsTypes
<1>2. CASE StartEncoder(s)
  BY <1>1, <1>2, EncodersEnd DEF StartEncoder, EncoderGone, Moves, Unbuilt
<1>3. CASE StartFails(s)
  BY <1>1, <1>3, EncodersEnd DEF StartFails, Moves, Unbuilt
<1>4. CASE StopRest(s)
  BY <1>1, <1>4, EncodersEnd DEF StopRest, releaseGPUSlot, Unbuilt, SessionRecord
<1>5. CASE CloseSession(s)
  BY <1>1, <1>5, EncodersEnd DEF CloseSession, Unbuilt, SessionRecord
<1>6. CASE Launched(s) /\ ~StillWanted(s)
  BY <1>1, <1>6, EncodersEnd DEF Launched, Moves, Unbuilt
<1>7. CASE Launched(s) /\ StillWanted(s)
  <2> sess[s].gen \in Nat
    BY <1>1, SessionSteps
  <2>1. PICK n \in Nat : n = sess[s].gen + 1
    OBVIOUS
  <2>2. /\ sess' = [sess EXCEPT ![s].failed = FALSE, ![s].gen = n]
        /\ runs' = runs \union {[s |-> s, gen |-> n, st |-> "running"]}
    BY <1>7, <2>1 DEF Launched
  <2>3. moving[s] = "started" /\ moving'[s] = "no"
        /\ \A t \in Sessions \ {s} : moving'[t] = moving[t]
    BY <1>1, <1>7 DEF Launched, Moves
  <2>4. NoneRunning(s) /\ ~Unbuilt(s) /\ ~sess[s].dead
    BY <1>7, <2>3 DEF EncInv, MovesQuiet, UnbuiltQuiet, StillWanted
  <2>5. \A e \in runs : e.s = s => e.gen < n
    <3>1. \A e \in runs : e.gen \in Nat
      BY RunSteps DEF HlsTypes
    <3>2. QED
      BY <2>1, <3>1 DEF EncInv, GensBounded
  <2>6. /\ sess'[s].gen = n /\ sess'[s].dead = sess[s].dead /\ sess'[s].at = sess[s].at
        /\ \A t \in Sessions \ {s} : sess'[t] = sess[t]
    BY <1>1, <2>2 DEF SessionRecord
  <2>7. ~sess'[s].dead /\ ~Unbuilt(s)'
    BY <2>4, <2>6 DEF Unbuilt
  <2>8. QED
    BY <2>2, <2>3, <2>4, <2>5, <2>6, <2>7, EncoderAdded
<1>8. CASE Seek(s)
  <2>1. ~Unbuilt(s) /\ UNCHANGED sess
    BY <1>8 DEF Seek, Known, Unbuilt
  <2>2. runs' = Cancelled(s)
    BY <1>8 DEF Seek
  <2>3. \A t \in Sessions \ {s} : moving'[t] = moving[t]
    BY <1>1, <1>8 DEF Seek, Moves
  <2>4. NoneRunning(s)'
    BY <2>2, CanceledRuns DEF NoneRunning
  <2>5. /\ \A f \in runs' : \E e \in runs : /\ f.s = e.s /\ f.gen = e.gen
                                            /\ f.st = "running" => e.st = "running"
        /\ \A f, g \in runs' : f.s = g.s /\ f.gen = g.gen => f = g
    BY <2>2, CanceledRuns
  <2>6. QED
    BY <2>1, <2>3, <2>4, <2>5, EncodersKept DEF Unbuilt
<1>9. CASE StopEncoder(s)
  <2>1. /\ sess[s].at = "removed" /\ sess'[s].at = "stopping" /\ sess'[s].gen = sess[s].gen
        /\ \A t \in Sessions \ {s} : sess'[t] = sess[t]
        /\ UNCHANGED moving
    BY <1>1, <1>9 DEF StopEncoder, SessionRecord
  <2>2. runs' \subseteq Cancelled(s)
    BY <1>9 DEF StopEncoder
  <2>3. NoneRunning(s)'
    BY <2>2, CanceledRuns DEF NoneRunning
  <2>4. /\ \A f \in runs' : \E e \in runs : /\ f.s = e.s /\ f.gen = e.gen
                                            /\ f.st = "running" => e.st = "running"
        /\ \A f, g \in runs' : f.s = g.s /\ f.gen = g.gen => f = g
    BY <2>2, CanceledRuns
  <2>5. QED
    BY <2>1, <2>3, <2>4, EncodersKept DEF Unbuilt
<1>10. QED
  BY <1>2, <1>3, <1>4, <1>5, <1>6, <1>7, <1>8, <1>9 DEF MoveStep, StopStep

LEMMA EncInvHolds == HlsSpec => []EncInv
<1>1. HlsInit => EncInv
  BY DEF HlsInit, EncInv, UnbuiltQuiet, GensBounded, RunsApart, MovesQuiet, EncodersOwned,
         NoSession, Unbuilt, NoneRunning
<1>2. HlsTypes /\ HlsTypes' /\ BuildInv /\ EncInv /\ [HlsNext]_hlsVars => EncInv'
  <2> SUFFICES ASSUME HlsTypes, HlsTypes', BuildInv, EncInv, [HlsNext]_hlsVars PROVE EncInv'
    OBVIOUS
  <2>1. CASE UNCHANGED hlsVars
    BY <2>1, EncodersEnd DEF hlsVars, Unbuilt
  <2>2. ASSUME NEW a \in Asks, Ask(a[1], a[2]) PROVE EncInv'
    BY <2>2, EncodersEnd DEF Ask, Unbuilt
  <2>3. QED
    BY <2>1, <2>2, RequestKeepsEncoders, RunKeepsEncoders, SessionKeepsEncoders DEF HlsNext
<1>3. QED
  BY <1>1, <1>2, HlsTypesHold, BuildInvHolds, PTL DEF HlsSpec

(* No session ever has two live encoders and none outlives its session, for    *)
(* any number of sessions, requests and seeks: RestartAt and the software      *)
(* retry silence the old run under the session's lock before they launch, and  *)
(* the launch looks again at whether the session is still wanted.              *)
THEOREM EncodersHaveOwner == HlsSpec => []EncodersOwned
<1>1. EncInv => EncodersOwned
  BY DEF EncInv
<1>2. QED
  BY <1>1, EncInvHolds, PTL

-----------------------------------------------------------------------------
(* GPU slots.  A session that has not got as far as reserving holds none, so   *)
(* every reservation is of one more session.                                   *)

SlotHolders == {s \in Sessions : sess[s].holds}
Reserving == {"building", "reclaiming"}

FreeUnheld == \A s \in Sessions : sess[s].at = "free" => ~sess[s].holds
NotYetHeld == \A r \in Requests : request[r].at \in Reserving => ~sess[request[r].s].holds
SlotsInv == FreeUnheld /\ NotYetHeld /\ SlotsAccounted

LEMMA SlotHoldersFinite == HlsTypes => IsFiniteSet(SlotHolders) /\ Cardinality(SlotHolders) \in Nat
<1>1. SlotHolders \subseteq Sessions /\ IsFiniteSet(Sessions)
  BY HlsAssumption DEF SlotHolders
<1>2. QED
  BY <1>1, FS_Subset, FS_CardinalityType

\* What a step must leave alone for the invariant to survive it.
LEMMA SlotsKept ==
  ASSUME HlsTypes, HlsTypes', SlotsInv, inUse' = inUse,
         \A s \in Sessions :
           /\ sess'[s].holds = sess[s].holds
           /\ sess'[s].at = "gone" => sess[s].at = "gone" \/ ~sess[s].holds
           /\ sess'[s].at = "free" => sess[s].at = "free",
         \A r \in Requests : request'[r].at \in Reserving =>
           \/ request[r].at \in Reserving /\ request'[r].s = request[r].s
           \/ request'[r].s \in Sessions /\ ~sess[request'[r].s].holds
  PROVE  SlotsInv'
<1>1. SlotHolders' = SlotHolders
  BY DEF SlotHolders
<1>2. \A r \in Requests : request'[r].at \in Reserving => request'[r].s \in Sessions
  BY RequestSteps DEF HlsTypes, Reserving, BuildSteps
<1>3. QED
  BY <1>1, <1>2 DEF SlotsInv, FreeUnheld, NotYetHeld, SlotsAccounted, SlotHolders

\* A session of somebody who was reserving takes a slot.
LEMMA SlotTaken ==
  ASSUME HlsTypes, HlsTypes', BuildInv, SlotsInv, NEW r \in Requests, request[r].at \in Reserving,
         request'[r].at \notin Reserving, inUse' = inUse + 1,
         sess' = [sess EXCEPT ![request[r].s].holds = TRUE],
         \A q \in Requests \ {r} : request'[q] = request[q]
  PROVE  SlotsInv'
<1>1. PICK s \in Sessions : s = request[r].s
  BY RequestSteps DEF HlsTypes, Reserving, BuildSteps
<1>2. ~sess[s].holds /\ sess[s].at = "building"
  BY <1>1 DEF SlotsInv, NotYetHeld, BuildInv, BuildersOwn, Reserving, BuildSteps
<1>3. /\ sess'[s].holds /\ sess'[s].at = "building"
      /\ \A t \in Sessions \ {s} : sess'[t] = sess[t]
  BY <1>1, <1>2 DEF HlsTypes, SessionRecord
<1>4. SlotHolders' = SlotHolders \union {s} /\ s \notin SlotHolders
  BY <1>2, <1>3 DEF SlotHolders
<1>5. Cardinality(SlotHolders') = Cardinality(SlotHolders) + 1
  BY <1>4, SlotHoldersFinite, FS_AddElement
<1>6. \A q \in Requests \ {r} : request[q].at \in Reserving => request[q].s \in Sessions \ {s}
  BY <1>1, RequestSteps DEF HlsTypes, BuildInv, BuildersApart, Reserving, BuildSteps
<1>7. FreeUnheld' /\ NotYetHeld'
  <2>1. FreeUnheld'
    BY <1>3 DEF SlotsInv, FreeUnheld
  <2>2. ASSUME NEW q \in Requests, request'[q].at \in Reserving PROVE ~sess'[request'[q].s].holds
    <3>1. request'[q] = request[q] /\ request[q].s \in Sessions \ {s}
      BY <1>6, <2>2
    <3>2. QED
      BY <1>3, <2>2, <3>1 DEF SlotsInv, NotYetHeld
  <2>3. QED
    BY <2>1, <2>2 DEF NotYetHeld
<1>8. SlotsAccounted'
  BY <1>3, <1>5 DEF SlotsInv, SlotsAccounted, SlotHolders
<1>9. QED
  BY <1>7, <1>8 DEF SlotsInv

\* A session gives back its slot, if it has one.
LEMMA SlotReturned ==
  ASSUME HlsTypes, HlsTypes', SlotsInv, NEW s \in Sessions, ~sess'[s].holds,
         inUse' = IF sess[s].holds /\ inUse > 0 THEN inUse - 1 ELSE inUse,
         sess'[s].at = "free" => sess[s].at = "free",
         \A t \in Sessions \ {s} : sess'[t] = sess[t],
         \A q \in Requests : request'[q].at \in Reserving => request'[q] = request[q]
  PROVE  SlotsInv'
<1>1. \A q \in Requests : request'[q].at \in Reserving => request'[q].s \in Sessions
  BY RequestSteps DEF HlsTypes, Reserving, BuildSteps
<1>2. FreeUnheld' /\ NotYetHeld'
  BY <1>1 DEF SlotsInv, FreeUnheld, NotYetHeld
<1>3. \A t \in Sessions : sess'[t].holds => sess'[t].at # "gone"
  BY DEF SlotsInv, SlotsAccounted
<1>4. inUse' = Cardinality(SlotHolders')
  <2>1. inUse = Cardinality(SlotHolders)
    BY DEF SlotsInv, SlotsAccounted, SlotHolders
  <2>2. CASE sess[s].holds
    <3>1. s \in SlotHolders /\ SlotHolders' = SlotHolders \ {s}
      BY <2>2 DEF SlotHolders
    <3>2. Cardinality(SlotHolders') = Cardinality(SlotHolders) - 1
      BY <3>1, SlotHoldersFinite, FS_RemoveElement
    <3>3. Cardinality(SlotHolders) # 0
      BY <3>1, SlotHoldersFinite, FS_EmptySet
    <3>4. QED
      BY <2>1, <2>2, <3>2, <3>3, SlotHoldersFinite
  <2>3. CASE ~sess[s].holds
    <3>1. SlotHolders' = SlotHolders
      BY <2>3 DEF SlotHolders
    <3>2. QED
      BY <2>1, <2>3, <3>1
  <2>4. QED
    BY <2>2, <2>3
<1>5. SlotsAccounted'
  BY <1>3, <1>4 DEF SlotsAccounted, SlotHolders
<1>6. QED
  BY <1>2, <1>5 DEF SlotsInv

LEMMA RequestKeepsSlots ==
  ASSUME HlsTypes, HlsTypes', BuildInv, SlotsInv, NEW r \in Requests, RequestStep(r) \/ Leave(r)
  PROVE  SlotsInv'
<1> /\ sess \in [Sessions -> SessionRecord] /\ request \in [Requests -> RequestRecord]
    /\ request[r] \in RequestRecord
  BY DEF HlsTypes
<1>1. request[r].at \in BuildSteps => request[r].s \in Sessions
  BY RequestSteps
<1>2. CASE Find(r) \/ Leave(r) \/ Reaped(r) \/ Await(r)
  <2>1. UNCHANGED <<sess, inUse>>
    BY <1>2 DEF Find, Leave, Reaped, Await
  <2>2. request'[r].at \notin Reserving /\ \A q \in Requests \ {r} : request'[q] = request[q]
    BY <1>2 DEF Find, Leave, Reaped, Await, Went, Idle, Reserving, RequestRecord
  <2>3. QED
    BY <2>1, <2>2, SlotsKept
<1>3. CASE FindFailed(r)
  <2>1. PICK s \in Sessions :
          /\ sess' = [sess EXCEPT ![s].at = "removed"]
          /\ request' = [request EXCEPT ![r].at = "reaping", ![r].s = s]
    BY <1>3 DEF FindFailed, Tracked
  <2>2. QED
    BY <1>3, <2>1, SlotsKept DEF FindFailed, Reserving, RequestRecord, SessionRecord
<1>4. CASE BecomeBuilder(r)
  <2>1. PICK s \in Sessions :
          /\ sess[s].at = "free"
          /\ sess' = [sess EXCEPT ![s].key = request[r].key, ![s].at = "building"]
          /\ request' = [request EXCEPT ![r].at = "building", ![r].s = s]
    BY <1>4 DEF BecomeBuilder
  <2>2. ~sess[s].holds
    BY <2>1 DEF SlotsInv, FreeUnheld
  <2>3. /\ request'[r].s = s /\ \A q \in Requests \ {r} : request'[q] = request[q]
    BY <2>1 DEF RequestRecord
  <2>4. \A t \in Sessions : /\ sess'[t].holds = sess[t].holds
                            /\ sess'[t].at = "gone" => sess[t].at = "gone"
                            /\ sess'[t].at = "free" => sess[t].at = "free"
    BY <2>1 DEF SessionRecord
  <2>5. inUse' = inUse
    BY <1>4 DEF BecomeBuilder
  <2>6. QED
    BY <2>2, <2>3, <2>4, <2>5, SlotsKept
<1>5. CASE Reserve(r) \/ Reserve2(r)
  <2>1. /\ request[r].at \in Reserving /\ inUse' = inUse + 1
        /\ sess' = [sess EXCEPT ![request[r].s].holds = TRUE]
        /\ request' = [request EXCEPT ![r].at = "reserved"]
    BY <1>5 DEF Reserve, Reserve2, HasSlot, Went, Reserving
  <2>2. request'[r].at \notin Reserving /\ \A q \in Requests \ {r} : request'[q] = request[q]
    BY <2>1 DEF Reserving, RequestRecord
  <2>3. QED
    BY <2>1, <2>2, SlotTaken
<1>6. CASE Reclaim(r)
  <2>1. PICK v \in Sessions : sess' = [sess EXCEPT ![v].at = "removed"]
    BY <1>6 DEF Reclaim
  <2>2. QED
    BY <1>6, <2>1, SlotsKept DEF Reclaim, Went, Reserving, RequestRecord, SessionRecord
<1>7. CASE DecodeInSoftware(r)
  BY <1>7, SlotsKept DEF DecodeInSoftware, Went, Reserving, RequestRecord, SessionRecord
<1>8. CASE Built(r) \/ BuildFails(r)
  <2>1. request' = wake([request EXCEPT ![r] = Idle], r, sess[request[r].s].key)
    BY <1>8 DEF Built, BuildFails
  <2>2. request'[r].at = "idle" /\ \A q \in Requests \ {r} :
          request'[q] = IF request[q].at = "waiting" /\ request[q].key = sess[request[r].s].key
                        THEN [request[q] EXCEPT !.at = "asking"] ELSE request[q]
    BY <2>1 DEF wake, Idle
  <2>3. \A q \in Requests : [request[q] EXCEPT !.at = "asking"].at = "asking"
    BY DEF RequestRecord
  <2>4. \A q \in Requests : request'[q].at \in Reserving => request'[q] = request[q]
    BY <2>2, <2>3 DEF Reserving
  <2>5. PICK s \in Sessions : s = request[r].s /\ sess[s].at = "building"
    BY <1>1, <1>8 DEF Built, BuildFails, BuildSteps, BuildInv, BuildersOwn
  <2>6. CASE Built(r)
    <3>1. sess' = [sess EXCEPT ![s].at = "tracked", ![s].gen = 1] /\ inUse' = inUse
      BY <2>5, <2>6 DEF Built
    <3>2. \A t \in Sessions : /\ sess'[t].holds = sess[t].holds
                              /\ sess'[t].at = "gone" => sess[t].at = "gone"
                              /\ sess'[t].at = "free" => sess[t].at = "free"
      BY <3>1 DEF SessionRecord
    <3>3. QED
      BY <2>4, <3>1, <3>2, SlotsKept
  <2>7. CASE BuildFails(r)
    <3>1. /\ sess' = [sess EXCEPT ![s].at = "gone", ![s].holds = FALSE]
          /\ inUse' = IF sess[s].holds THEN inUse - 1 ELSE inUse
      BY <2>5, <2>7 DEF BuildFails
    <3>2. /\ ~sess'[s].holds /\ sess'[s].at = "gone"
          /\ \A t \in Sessions \ {s} : sess'[t] = sess[t]
      BY <3>1 DEF SessionRecord
    <3>3. sess[s].holds => inUse > 0
      <4>1. inUse = Cardinality(SlotHolders)
        BY DEF SlotsInv, SlotsAccounted, SlotHolders
      <4>2. sess[s].holds => SlotHolders # {}
        BY DEF SlotHolders
      <4>3. QED
        BY <4>1, <4>2, SlotHoldersFinite, FS_EmptySet
    <3>4. QED
      BY <2>4, <3>1, <3>2, <3>3, SlotReturned
  <2>8. QED
    BY <1>8, <2>6, <2>7
<1>9. QED
  BY <1>2, <1>3, <1>4, <1>5, <1>6, <1>7, <1>8 DEF RequestStep

LEMMA OthersKeepSlots ==
  ASSUME HlsTypes, HlsTypes', SlotsInv, UNCHANGED request,
         \/ \E e \in runs : RunStep(e)
         \/ \E s \in Sessions : MoveStep(s) \/ StopStep(s) \/ Seek(s) \/ CloseSession(s)
  PROVE  SlotsInv'
<1> sess \in [Sessions -> SessionRecord]
  BY DEF HlsTypes
<1> DEFINE Same == /\ inUse' = inUse
                   /\ \A s \in Sessions : /\ sess'[s].holds = sess[s].holds
                                          /\ sess'[s].at = "gone" => sess[s].at = "gone"
                                          /\ sess'[s].at = "free" => sess[s].at = "free"
<1>1. ASSUME Same PROVE SlotsInv'
  BY <1>1, SlotsKept
<1>2. ASSUME NEW e \in runs, RunStep(e) PROVE SlotsInv'
  <2>1. e.s \in Sessions
    BY RunSteps DEF HlsTypes
  <2>2. CASE Exit(e) \/ Crash(e) \/ RecoverNot(e)
    BY <1>1, <2>2 DEF Exit, Crash, RecoverNot
  <2>3. CASE MarkFailed(e)
    BY <1>1, <2>1, <2>3 DEF MarkFailed, SessionRecord
  <2>4. CASE Recover(e)
    <3>1. /\ ~sess'[e.s].holds /\ sess'[e.s].at = sess[e.s].at
          /\ \A t \in Sessions \ {e.s} : sess'[t] = sess[t]
          /\ inUse' = IF sess[e.s].holds /\ inUse > 0 THEN inUse - 1 ELSE inUse
      BY <2>1, <2>4 DEF Recover, releaseGPUSlot, TakenBack, SessionRecord
    <3>2. QED
      BY <2>1, <3>1, SlotReturned
  <2>5. QED
    BY <1>2, <2>2, <2>3, <2>4 DEF RunStep
<1>3. ASSUME NEW s \in Sessions, MoveStep(s) \/ Seek(s) PROVE SlotsInv'
  BY <1>1, <1>3 DEF MoveStep, StartEncoder, StartFails, Launched, Seek, SessionRecord
<1>4. ASSUME NEW s \in Sessions, StopEncoder(s) \/ CloseSession(s) PROVE SlotsInv'
  BY <1>1, <1>4 DEF StopEncoder, CloseSession, SessionRecord
<1>5. ASSUME NEW s \in Sessions, StopRest(s) PROVE SlotsInv'
  <2>1. /\ ~sess'[s].holds /\ sess'[s].at = "gone"
        /\ \A t \in Sessions \ {s} : sess'[t] = sess[t]
        /\ inUse' = IF sess[s].holds /\ inUse > 0 THEN inUse - 1 ELSE inUse
    BY <1>5 DEF StopRest, releaseGPUSlot, TakenBack, SessionRecord
  <2>2. QED
    BY <2>1, SlotReturned
<1>6. QED
  BY <1>2, <1>3, <1>4, <1>5 DEF StopStep

LEMMA SlotsInvHolds == HlsSpec => []SlotsInv
<1>1. HlsInit => SlotsInv
  <2> SUFFICES ASSUME HlsInit PROVE SlotsInv
    OBVIOUS
  <2>1. SlotHolders = {} /\ FreeUnheld /\ NotYetHeld /\ inUse = 0
    BY DEF HlsInit, SlotHolders, FreeUnheld, NotYetHeld, NoSession, Idle, Reserving
  <2>2. Cardinality(SlotHolders) = 0
    BY <2>1, FS_EmptySet
  <2>3. QED
    BY <2>1, <2>2 DEF SlotsInv, SlotsAccounted, SlotHolders
<1>2. HlsTypes /\ HlsTypes' /\ BuildInv /\ SlotsInv /\ [HlsNext]_hlsVars => SlotsInv'
  <2> SUFFICES ASSUME HlsTypes, HlsTypes', BuildInv, SlotsInv, [HlsNext]_hlsVars PROVE SlotsInv'
    OBVIOUS
  <2>1. CASE UNCHANGED hlsVars
    BY <2>1, SlotsKept DEF hlsVars
  <2>2. ASSUME NEW a \in Asks, Ask(a[1], a[2]) PROVE SlotsInv'
    <3>1. a[1] \in Requests
      BY Actors
    <3>2. QED
      BY <2>2, <3>1, SlotsKept DEF Ask, Reserving, HlsTypes
  <2>3. QED
    BY <2>1, <2>2, RequestKeepsSlots, OthersKeepSlots, RequestAlone DEF HlsNext
<1>3. QED
  BY <1>1, <1>2, HlsTypesHold, BuildInvHolds, PTL DEF HlsSpec

(* The GPU semaphore counts exactly the sessions that hold a slot and no ended *)
(* session is among them, for any limit and any number of sessions: a failed   *)
(* build, the software retry and stop() each give a slot back at most once.    *)
THEOREM SlotsBalanced == HlsSpec => []SlotsAccounted
<1>1. SlotsInv => SlotsAccounted
  BY DEF SlotsInv
<1>2. QED
  BY <1>1, SlotsInvHolds, PTL

------------------------------------------------------------------------------
(* Limits.  An encoder is replaced only when its session may run once more,    *)
(* and nobody else may replace it until the replacement runs or was dropped.   *)

RunsCounted ==
  \A s \in Sessions : sess[s].gen <= MaxRuns /\ (moving[s] # "no" => sess[s].gen < MaxRuns)
LimitsInv == RunsCounted /\ inUse <= GpuLimit

\* What a step must leave alone for the counts to survive it.
LEMMA CountsKept ==
  ASSUME HlsTypes, RunsCounted,
         \A s \in Sessions :
           /\ sess'[s].gen = sess[s].gen
           /\ moving'[s] # "no" => moving[s] # "no" \/ MayRun(s)
  PROVE  RunsCounted'
BY DEF RunsCounted, MayRun

LEMMA RequestKeepsLimits ==
  ASSUME HlsTypes, BuildInv, EncInv, LimitsInv, NEW r \in Requests, RequestStep(r) \/ Leave(r)
  PROVE  LimitsInv'
<1> USE HlsAssumption DEF HlsTypes, HasSlot, SessionRecord, LimitsInv
<1>1. request[r].at \in BuildSteps => request[r].s \in Sessions /\ Unbuilt(request[r].s)
  BY RequestSteps DEF BuildInv, BuildersOwn, Unbuilt
<1>2. CASE FindFailed(r) \/ BecomeBuilder(r)
  <2>1. \A s \in Sessions : sess'[s].gen = sess[s].gen
    <3>1. CASE FindFailed(r)
      BY <3>1 DEF FindFailed
    <3>2. CASE BecomeBuilder(r)
      BY <3>2 DEF BecomeBuilder
    <3>3. QED
      BY <1>2, <3>1, <3>2
  <2>2. UNCHANGED <<moving, inUse>>
    BY <1>2 DEF FindFailed, BecomeBuilder
  <2>3. QED
    BY <2>1, <2>2, CountsKept
<1>3. CASE Find(r) \/ Await(r) \/ Leave(r) \/ Reaped(r)
  BY <1>3, CountsKept DEF Find, Await, Leave, Reaped
<1>4. CASE Reserve(r) \/ Reserve2(r)
  BY <1>4, CountsKept DEF Reserve, Reserve2
<1>5. CASE Reclaim(r) \/ DecodeInSoftware(r)
  BY <1>5, CountsKept DEF Reclaim, DecodeInSoftware
<1>6. CASE Built(r)
  <2>1. request[r].s \in Sessions /\ moving[request[r].s] = "no"
    BY <1>1, <1>6 DEF Built, BuildSteps, EncInv, UnbuiltQuiet
  <2>2. QED
    BY <1>6, <2>1 DEF Built, RunsCounted
<1>7. CASE BuildFails(r)
  BY <1>7, CountsKept DEF BuildFails
<1>8. QED
  BY <1>2, <1>3, <1>4, <1>5, <1>6, <1>7 DEF RequestStep

LEMMA OthersKeepLimits ==
  ASSUME HlsTypes, LimitsInv,
         \/ \E e \in runs : RunStep(e)
         \/ \E s \in Sessions : MoveStep(s) \/ StopStep(s) \/ Seek(s) \/ CloseSession(s)
  PROVE  LimitsInv'
<1> USE HlsAssumption DEF HlsTypes, SessionRecord, LimitsInv
<1>1. ASSUME NEW e \in runs, RunStep(e) PROVE LimitsInv'
  <2>1. e.s \in Sessions
    BY DEF RunRecord
  <2>2. CASE Exit(e) \/ Crash(e) \/ RecoverNot(e) \/ MarkFailed(e)
    BY <2>1, <2>2, CountsKept DEF Exit, Crash, RecoverNot, MarkFailed
  <2>3. CASE Recover(e)
    <3>1. RunsCounted'
      BY <2>1, <2>3, CountsKept DEF Recover, releaseGPUSlot, Moves
    <3>2. QED
      BY <2>3, <3>1 DEF Recover, TakenBack
  <2>4. QED
    BY <1>1, <2>2, <2>3 DEF RunStep
<1>2. ASSUME NEW s \in Sessions, MoveStep(s) \/ Seek(s) PROVE LimitsInv'
  <2>1. CASE StartEncoder(s) \/ StartFails(s) \/ Seek(s)
    BY <2>1, CountsKept DEF StartEncoder, StartFails, EncoderGone, Seek, Moves
  <2>2. CASE Launched(s)
    BY <2>2 DEF Launched, Moves, RunsCounted
  <2>3. QED
    BY <1>2, <2>1, <2>2 DEF MoveStep
<1>3. ASSUME NEW s \in Sessions, StopStep(s) \/ CloseSession(s) PROVE LimitsInv'
  <2>1. CASE StopEncoder(s) \/ CloseSession(s)
    BY <2>1, CountsKept DEF StopEncoder, CloseSession
  <2>2. CASE StopRest(s)
    <3>1. RunsCounted'
      BY <2>2, CountsKept DEF StopRest, releaseGPUSlot
    <3>2. QED
      BY <2>2, <3>1 DEF StopRest, TakenBack
  <2>3. QED
    BY <1>3, <2>1, <2>2 DEF StopStep
<1>4. QED
  BY <1>1, <1>2, <1>3

LEMMA LimitsInvHolds == HlsSpec => []LimitsInv
<1>1. HlsInit => LimitsInv
  BY HlsAssumption DEF HlsInit, NoSession, LimitsInv, RunsCounted
<1>2. HlsTypes /\ BuildInv /\ EncInv /\ LimitsInv /\ [HlsNext]_hlsVars => LimitsInv'
  <2> SUFFICES ASSUME HlsTypes, BuildInv, EncInv, LimitsInv, [HlsNext]_hlsVars PROVE LimitsInv'
    OBVIOUS
  <2>1. CASE UNCHANGED hlsVars
    BY <2>1 DEF hlsVars, LimitsInv, RunsCounted
  <2>2. ASSUME NEW a \in Asks, Ask(a[1], a[2]) PROVE LimitsInv'
    BY <2>2 DEF Ask, LimitsInv, RunsCounted
  <2>3. QED
    BY <2>1, <2>2, RequestKeepsLimits, OthersKeepLimits DEF HlsNext
<1>3. QED
  BY <1>1, <1>2, HlsTypesHold, BuildInvHolds, EncInvHolds, PTL DEF HlsSpec

(* Whatever is reserved, reclaimed, restarted and given back at once, never    *)
(* more sessions hold a GPU slot than JACKUI_MAX_GPU_TRANSCODES allows, nor    *)
(* fewer than none.                                                            *)
THEOREM HlsTyped == HlsSpec => []HlsTypeOK
<1>1. HlsTypes /\ EncInv /\ SlotsInv /\ LimitsInv => HlsTypeOK
  <2> SUFFICES ASSUME HlsTypes, EncInv, SlotsInv, LimitsInv PROVE HlsTypeOK
    OBVIOUS
  <2>1. inUse \in 0 .. GpuLimit
    BY SlotHoldersFinite, HlsAssumption
       DEF SlotsInv, SlotsAccounted, SlotHolders, LimitsInv, HlsTypes
  <2>2. \A s \in Sessions : sess[s] \in SessionRecord /\ sess[s].gen \in 0 .. MaxRuns
    BY HlsAssumption DEF HlsTypes, SessionRecord, LimitsInv, RunsCounted
  <2>3. sess \in [Sessions -> [key : Keys \union {Nobody},
                              at : {"free", "building", "tracked", "removed", "stopping", "gone"},
                              dead : BOOLEAN, failed : BOOLEAN, holds : BOOLEAN, sw : BOOLEAN,
                              gen : 0 .. MaxRuns]]
    BY <2>2 DEF HlsTypes, SessionRecord
  <2>4. runs \subseteq [s : Sessions, gen : 0 .. MaxRuns, st : {"running", "killed", "oom", "err"}]
    <3> SUFFICES ASSUME NEW e \in runs
                 PROVE  e \in [s : Sessions, gen : 0 .. MaxRuns, st : {"running", "killed", "oom", "err"}]
      OBVIOUS
    <3>1. e \in RunRecord /\ e.s \in Sessions /\ e.gen \in Nat /\ e.gen <= sess[e.s].gen
      BY RunSteps DEF HlsTypes, EncInv, GensBounded
    <3>2. e.gen \in 0 .. MaxRuns
      BY <2>2, <3>1, HlsAssumption
    <3>3. QED
      BY <3>1, <3>2 DEF RunRecord
  <2>5. request \in [Requests -> [at : {"idle", "asking", "waiting", "building", "reclaiming",
                                       "reserved", "reaping"},
                                 key : Keys \union {Nobody}, s : Sessions \union {Nobody}]]
    BY DEF HlsTypes, RequestRecord, BuildSteps
  <2>6. QED
    BY <2>1, <2>3, <2>4, <2>5 DEF HlsTypeOK, HlsTypes
<1>2. QED
  BY <1>1, HlsTypesHold, EncInvHolds, SlotsInvHolds, LimitsInvHolds, PTL

------------------------------------------------------------------------------
(* The four side by side: a step of one leaves the variables of the others     *)
(* alone, so what each never does alone it never does beside the others.       *)

LEMMA ServerKeepsApart == ServerSpec => Spec /\ LifetimeSpec /\ HlsSpec /\ SessionsSpec
<1>1. ServerInit => Init /\ LifetimeInit /\ HlsInit /\ SessionsInit
  BY DEF ServerInit
<1>2. [ServerNext]_<<focus, vars, lifetimeVars, hlsVars, sessionVars>> =>
        [Next]_vars /\ [LifetimeNext]_lifetimeVars /\ [HlsNext]_hlsVars /\ [SessionsNext]_sessionVars
  BY DEF ServerNext, On
<1>3. QED
  BY <1>1, <1>2, PTL DEF ServerSpec, Spec, LifetimeSpec, HlsSpec, SessionsSpec

(* Every variable of the server keeps its type.                                *)
THEOREM ServerTyped == ServerSpec => []TypesOK
<1>1. TypeOK /\ LifetimeTypeOK /\ HlsTypeOK /\ SessionsTypeOK => TypesOK
  BY DEF TypesOK
<1>2. QED
  BY <1>1, ServerKeepsApart, TypeCorrect, LifetimeTyped, HlsTyped, SessionsTyped, PTL
==============================================================================
