--------------------------- MODULE SourceRotation ---------------------------
(* Source rotation (internal/downloads/rotation.go, sources.go, worker_stall.  *)
(* go): the rows of one torrent whose swarm has no seeder. A tick takes the    *)
(* stalled rows as a group, lets one of them try another release of the same   *)
(* content, and otherwise sends all of them back to the queue, until they have *)
(* stalled often enough to be paused: that is a write of its own, after the    *)
(* demotion's transaction.  With RotationEnabled, and a limit of stalls.       *)
EXTENDS Naturals

CONSTANTS
  Members,      \* the rows of the torrent
  Releases,     \* the original source and the alternatives the indexer may return
  Original,
  Links,        \* the releases known by an http link, not a magnet
  NoSource,
  MaxTries,     \* maxSourceTries
  StallLimit,   \* QueueSettings.MaxStalls
  MaySeed,      \* bound: the releases that may have seeders
  MaxSetbacks    \* bound: refused writes, crashes of the process, and rows resumed

ASSUME RotationAssumption ==
  /\ Original \in Releases /\ Links \subseteq Releases /\ MaySeed \subseteq Releases
  /\ NoSource \notin Releases
  /\ {MaxTries, StallLimit} \subseteq Nat \ {0} /\ MaxSetbacks \in Nat

\* Bound: one release has seeders at a time.
Swarms == {{}} \union {{s} : s \in MaySeed}

VARIABLES
  rowStatus,    \* downloads.status
  magnet,       \* EffectiveMagnet
  source,       \* download_sources, per row; "rested" is a cooldown that has elapsed
  stallCount,   \* downloads.stalls
  fetching,     \* Worker.tracked: the release the row's torrent is, or NoSource
  pausing,      \* demoted rows that the tick is about to pause
  seeded,       \* the releases that have seeders
  setbacks

rotationVars == <<rowStatus, magnet, source, stallCount, fetching, pausing, seeded, setbacks>>

RotationTypeOK ==
  /\ rowStatus \in [Members -> {"queued", "downloading", "paused", "failed", "completed"}]
  /\ magnet \in [Members -> Releases]
  /\ source \in [Members -> [Releases -> [at : {"unknown", "candidate", "active", "cooldown", "rested", "failed"},
                                       tries : 0..MaxTries]]]
  /\ stallCount \in [Members -> 0..(StallLimit + setbacks)]
  /\ fetching \in [Members -> Releases \union {NoSource}]
  /\ pausing \subseteq Members
  /\ seeded \in Swarms
  /\ setbacks \in 0..MaxSetbacks

\* The user resumed the torrent, or has it paused, with the stalls it had.
RotationInit ==
  /\ \E st \in {"queued", "paused"} : rowStatus = [r \in Members |-> st]
  /\ magnet = [r \in Members |-> Original]
  /\ source = [r \in Members |-> [s \in Releases |-> [at |-> "unknown", tries |-> 0]]]
  /\ stallCount \in [Members -> 0..(StallLimit - 1)]
  /\ fetching = [r \in Members |-> NoSource]
  /\ pausing = {} /\ seeded = {} /\ setbacks = 0

SetBack == setbacks < MaxSetbacks /\ setbacks' = setbacks + 1

(***************************************************************************)
(* The queue and the client, reduced to what rotation sees of them.        *)
(***************************************************************************)

\* The tick's: it detects stalls, pausing included, before it schedules.
Promote ==
  /\ pausing = {}
  /\ \E r \in Members : rowStatus[r] = "queued"
  /\ rowStatus' = [r \in Members |-> IF rowStatus[r] = "queued" THEN "downloading" ELSE rowStatus[r]]
  /\ UNCHANGED <<magnet, source, stallCount, fetching, pausing, seeded, setbacks>>

\* The user resumes a row, with the stalls it has.
Requeue(r) ==
  /\ rowStatus[r] \in {"paused", "failed"}
  /\ rowStatus' = [rowStatus EXCEPT ![r] = "queued"]
  /\ SetBack
  /\ UNCHANGED <<magnet, source, stallCount, fetching, pausing, seeded>>

Initializing(r) == rowStatus[r] = "downloading" /\ fetching[r] = NoSource

Initialize(r) ==
  /\ Initializing(r)
  /\ fetching' = [fetching EXCEPT ![r] = magnet[r]]
  /\ UNCHANGED <<rowStatus, magnet, source, stallCount, pausing, seeded, setbacks>>

(* ensureActiveWithFallback: a release whose link is dead is fetched by the    *)
(* row's info_hash, which is the original's; that the row is pointed back at   *)
(* it is only tried.                                                           *)
InitializeByHash(r) ==
  /\ Initializing(r) /\ magnet[r] \in Links
  /\ fetching' = [fetching EXCEPT ![r] = Original]
  /\ magnet' \in {magnet, [magnet EXCEPT ![r] = Original]}
  /\ UNCHANGED <<rowStatus, source, stallCount, pausing, seeded, setbacks>>

(* A dead magnet, or a link whose fallback fails as well: failOrRetry gives up *)
(* at the last try.  (The tries before it change nothing here.)                *)
InitFails(r) ==
  /\ Initializing(r)
  /\ rowStatus' = [rowStatus EXCEPT ![r] = "failed"]
  /\ UNCHANGED <<magnet, source, stallCount, fetching, pausing, seeded, setbacks>>

Complete(r) ==
  /\ pausing = {} /\ fetching[r] \in seeded
  /\ rowStatus' = [rowStatus EXCEPT ![r] = "completed"] /\ fetching' = [fetching EXCEPT ![r] = NoSource]
  /\ UNCHANGED <<magnet, source, stallCount, pausing, seeded, setbacks>>

Swarm ==
  /\ seeded' \in Swarms
  /\ UNCHANGED <<rowStatus, magnet, source, stallCount, fetching, pausing, setbacks>>

CoolDown(r, s) ==
  /\ source[r][s].at = "cooldown"
  /\ source' = [source EXCEPT ![r][s].at = "rested"]
  /\ UNCHANGED <<rowStatus, magnet, stallCount, fetching, pausing, seeded, setbacks>>

(***************************************************************************)
(* Rotation.                                                               *)
(***************************************************************************)

(* mutant: a failed source is parked again instead of given up *)
MarkSourceTriedCooldown(e) == [at |-> "cooldown", tries |-> IF e.tries + 1 >= MaxTries THEN e.tries ELSE e.tries + 1]
MarkSourceTried(e) == [at |-> IF e.tries + 1 >= MaxTries THEN "failed" ELSE "cooldown", tries |-> e.tries + 1]

EnsureSource(known, s, at) == [known EXCEPT ![s].at = IF @ = "unknown" THEN at ELSE @]

\* parkCurrentSource: what is blamed is what the table calls active.
Parked(r) ==
  LET known == IF \A s \in Releases : source[r][s].at = "unknown"
               THEN EnsureSource(source[r], Original, "active") ELSE source[r]
  IN [s \in Releases |-> IF known[s].at = "active" THEN MarkSourceTried(known[s]) ELSE known[s]]

\* NextSource: the one with most seeders of these.
Ready(known) == {s \in Releases : known[s].at \in {"candidate", "rested"}}

Discovered(known, found) ==
  [s \in Releases |-> IF s \in found /\ known[s].at = "unknown" THEN [known[s] EXCEPT !.at = "candidate"] ELSE known[s]]

\* Asked only when no known source is ready; what the indexer answers is not known.
Options(r, found) ==
  IF Ready(Parked(r)) # {} THEN Parked(r) ELSE Discovered(Parked(r), found)

Activated(known, next) ==
  [s \in Releases |-> IF s = next THEN [known[s] EXCEPT !.at = "active"]
                      ELSE IF known[s].at = "active" THEN [known[s] EXCEPT !.at = "candidate"] ELSE known[s]]

\* What a rotation of r leaves when it does not get to the row's magnet: nothing
\* done, the source parked, others discovered, or one of them active.
LeftAt(r, found) ==
  {source[r], Parked(r), Options(r, found)}
    \union {Activated(Options(r, found), next) : next \in Ready(Options(r, found))}

\* collectStallVictims: no progress for the threshold, and no seeder connected.
Stallable == {r \in Members : fetching[r] \notin seeded \union {NoSource}}

(* tryRotate, activateSource: the row keeps its slot and is initialised again. *)
(* Dropping its torrent is refused while another row of it is tracked.         *)
Rotate(rep, found) ==
  LET known == Options(rep, found) IN
  /\ \E next \in Ready(known) :
       /\ source' = [source EXCEPT ![rep] = Activated(known, next)]
       /\ magnet' = [magnet EXCEPT ![rep] = next]
  /\ fetching' = [fetching EXCEPT ![rep] = NoSource]
  /\ UNCHANGED <<rowStatus, stallCount, pausing, seeded, setbacks>>

\* tryRotate says no: nothing was found, or a read or write of it is refused.
NoRotation(rep, found) ==
  \/ /\ Ready(Options(rep, found)) = {}
     /\ source' = [source EXCEPT ![rep] = Options(rep, found)]
     /\ UNCHANGED setbacks
  \/ /\ \E known \in LeftAt(rep, found) : source' = [source EXCEPT ![rep] = known]
     /\ SetBack

(* DemoteGroup's transaction and the section under the lock; the rows are      *)
(* tracked, so no other goroutine writes them in between.                      *)
DemoteGroup(victims, rep, found) ==
  LET count == [r \in Members |-> IF r \in victims THEN stallCount[r] + 1 ELSE stallCount[r]] IN
  /\ rep \in victims
  /\ NoRotation(rep, found)
  /\ stallCount' = count
  /\ rowStatus' = [r \in Members |-> IF r \in victims THEN "queued" ELSE rowStatus[r]]
  /\ fetching' = [r \in Members |-> IF r \in victims THEN NoSource ELSE fetching[r]]
  /\ pausing' = IF \E r \in victims : count[r] >= StallLimit THEN victims ELSE {}
  /\ UNCHANGED <<magnet, seeded>>

Stall ==
  /\ pausing = {}
  /\ \E rep \in Stallable, found \in SUBSET (Releases \ {Original}) :
       \/ Rotate(rep, found)
       \/ \E victims \in SUBSET Stallable : DemoteGroup(victims, rep, found)

\* SetStatusByIDs, which spares the finished rows.
PauseStalled ==
  /\ pausing # {} /\ pausing' = {}
  /\ rowStatus' = [r \in Members |->
       IF r \in pausing /\ rowStatus[r] \notin {"completed", "failed"} THEN "paused" ELSE rowStatus[r]]
  /\ UNCHANGED <<magnet, source, stallCount, fetching, seeded, setbacks>>

(* A write of the tick is refused, which is only logged, or the process dies:  *)
(* the stalled rows are not paused, or the rotation stays where it is.         *)
Interrupted ==
  /\ SetBack
  /\ fetching' \in {fetching, [r \in Members |-> NoSource]}
  /\ \/ pausing' = {} /\ UNCHANGED source
     \/ /\ pausing = {} /\ UNCHANGED pausing
        /\ \E r \in Stallable, found \in SUBSET (Releases \ {Original}) :
             \E known \in LeftAt(r, found) : source' = [source EXCEPT ![r] = known]
  /\ UNCHANGED <<rowStatus, magnet, stallCount, seeded>>

RotationNext ==
  \/ Promote \/ Swarm \/ Stall \/ PauseStalled \/ Interrupted
  \/ \E r \in Members : \/ Requeue(r) \/ Complete(r)
                       \/ Initialize(r) \/ InitializeByHash(r) \/ InitFails(r)
  \/ \E r \in Members, s \in Releases : CoolDown(r, s)

(* Ticks go on: queued rows get a slot, an init in a slot succeeds or fails, a *)
(* torrent with seeders completes, one without is found stalled, time passes.  *)
RotationFairness ==
  /\ WF_rotationVars(Promote) /\ WF_rotationVars(Stall) /\ WF_rotationVars(PauseStalled)
  /\ \A r \in Members : /\ WF_rotationVars(Initialize(r) \/ InitializeByHash(r) \/ InitFails(r))
                       /\ WF_rotationVars(Complete(r))
  /\ \A r \in Members, s \in Releases : WF_rotationVars(CoolDown(r, s))

RotationSpec == RotationInit /\ [][RotationNext]_rotationVars /\ RotationFairness

(***************************************************************************)
(* Properties.                                                             *)
(***************************************************************************)

(* Rotation never turns into an endless tour: once the swarms stop changing,   *)
(* every row ends up completed, paused or failed, whatever the indexer returns *)
(* and wherever an init or the tick is interrupted, though a rotation counts   *)
(* no stall and a source may be its own alternative.                           *)
RotationSettles ==
  \A S \in Swarms :
    <>[](seeded = S) => <>[](\A r \in Members : rowStatus[r] \in {"completed", "paused", "failed"})
=============================================================================
