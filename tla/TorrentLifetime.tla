--------------------------- MODULE TorrentLifetime ---------------------------
(* One torrent of the streamer: who loads it, who watches it, and the six paths *)
(* that tear it down.  Torrents of different info-hashes share only the lock,   *)
(* so one is enough.  The active entry lives under s.mu; the handle it refers   *)
(* to lives in the torrent client, which has at most one open handle per hash,  *)
(* and every path that removes the entry first and closes the handle after the  *)
(* unlock leaves a gap between the two.  Time is read only through the lease's   *)
(* lifetime, the 60 s read guard and the idle timeout, so clocks are the three  *)
(* ages those comparisons tell apart.                                           *)
EXTENDS Naturals, FiniteSets

CONSTANTS
  Players,     \* player sessions; each may open and close its lease once at a time
  Adders,      \* goroutines that may be inside Streamer.Add at the same time
  Probe,       \* the adder that is a health probe
  MaxEntries,  \* bound: entries ever registered
  MaxHandles,  \* bound: handles ever opened by the client
  MaxCalls     \* bound: calls from users and workers, after which only time passes

ASSUME LifetimeAssumption ==
  /\ Probe \in Adders
  /\ IsFiniteSet(Players)
  /\ MaxEntries \in Nat /\ MaxHandles \in Nat /\ MaxCalls \in Nat

VARIABLES
  entry,       \* s.active[hash]: id (0 when absent), its handle, lease and ages
  client,      \* the handle open in the torrent client, 0 when none
  info,        \* the open handle's metadata has arrived
  adds,        \* per adder: where it is inside Add, and the handle it resolved
  grace,       \* entries whose grace timer is pending
  dropping,    \* handles whose entry is gone and whose Drop() has yet to run
  registered,  \* s.downloads holds the torrent's name
  seedTracker, \* the torrent announces to a configured seed tracker
  watching,    \* players that called viewer-open and not viewer-close yet
  probeEntry,  \* the entry the probe snapshotted with its lastAccess, 0 when none
  bytes,       \* the torrent's files are in DataDir
  sweep,       \* enforceCacheLimit: "off", "listed" or "checked" for this name
  checkedAt,   \* history: entries registered before the collector's last check
  lastEnd,     \* history: how the torrent last left the active set
  stale,       \* history: some Add registered a handle that was already closed, or
               \* spared its own for the sake of an entry that names another
  handles, entries, calls

clientVars == <<client, info, handles>>
entryVars  == <<entry, entries, grace, lastEnd, stale>>
addVars    == <<adds, probeEntry>>
userVars   == <<watching, registered, seedTracker>>
diskVars   == <<bytes, sweep, checkedAt>>
lifetimeVars == <<clientVars, entryVars, addVars, userVars, diskVars, dropping, calls>>

NoEntry == [id |-> 0, t |-> 0, viewers |-> 0, lease |-> "none", access |-> "idle"]
IdleAdd == [at |-> "out", t |-> 0]

Active == entry.id # 0
HeldByViewer == entry.viewers > 0 /\ entry.lease = "fresh"

LifetimeTypeOK ==
  /\ entry \in [id : 0..MaxEntries, t : 0..MaxHandles, viewers : 0..Cardinality(Players),
                lease : {"none", "fresh", "expired"}, access : {"recent", "quiet", "idle"}]
  /\ client \in 0..MaxHandles
  /\ adds \in [Adders -> [t : 0..MaxHandles,
                          at : {"out", "asked", "waiting", "failed", "added", "probing"}]]
  /\ grace \subseteq 1..MaxEntries /\ dropping \subseteq 1..MaxHandles
  /\ {info, registered, seedTracker, bytes, stale} \subseteq BOOLEAN
  /\ watching \subseteq Players
  /\ probeEntry \in 0..MaxEntries
  /\ sweep \in {"off", "listed", "checked"} /\ checkedAt \in 0..MaxEntries
  /\ lastEnd \in {"never", "teardown", "wipe"}

LifetimeInit ==
  /\ entry = NoEntry /\ client = 0 /\ info = FALSE
  /\ adds = [a \in Adders |-> IdleAdd]
  /\ grace = {} /\ dropping = {} /\ registered = FALSE /\ seedTracker \in BOOLEAN
  /\ watching = {} /\ probeEntry = 0 /\ bytes = FALSE /\ sweep = "off"
  /\ checkedAt = 0 /\ lastEnd = "never" /\ stale = FALSE
  /\ handles = 0 /\ entries = 0 /\ calls = 0

Call == calls < MaxCalls /\ calls' = calls + 1

(***************************************************************************)
(* Add: resolve a handle, wait for its metadata, register it.              *)
(***************************************************************************)

\* probeHealth gives way to a torrent that is already active.
ProbeAsks ==
  /\ Call
  /\ adds[Probe].at = "out" /\ ~Active
  /\ adds' = [adds EXCEPT ![Probe].at = "asked"]
  /\ UNCHANGED <<clientVars, entryVars, probeEntry, userVars, diskVars, dropping>>

\* The client answers with the handle it already has, or opens one.  A cached or a
\* fetched .torrent file brings the metadata along; a magnet with no file in the
\* cache, or one captured from a redirect, for which the cache is not asked, does not.
AddResolve(a) ==
  /\ IF a = Probe THEN adds[a].at = "asked" /\ UNCHANGED calls ELSE adds[a].at = "out" /\ Call
  /\ IF client # 0
     THEN UNCHANGED <<client, handles>>
     ELSE /\ handles < MaxHandles
          /\ handles' = handles + 1
          /\ client' = handles + 1
  /\ info' \in {info, TRUE}
  /\ adds' = [adds EXCEPT ![a] = [at |-> "waiting", t |-> client']]
  /\ UNCHANGED <<entryVars, probeEntry, userVars, diskVars, dropping>>

MetadataArrives ==
  /\ client # 0 /\ ~info
  /\ info' = TRUE
  /\ UNCHANGED <<client, handles, entryVars, addVars, userVars, diskVars, dropping, calls>>

\* GotInfo is closed by the metadata and also by Drop: a waiter whose handle
\* was closed goes on to register it like any other.
GotInfo(a) == adds[a].at = "waiting" /\ (adds[a].t # client \/ info)

\* registerTorrent: an entry that is already there keeps its lease and its state.
AddRegisters(a) ==
  /\ GotInfo(a)
  /\ IF Active
     THEN /\ entry' = [entry EXCEPT !.t = adds[a].t, !.access = "recent"]
          /\ UNCHANGED entries
     ELSE /\ entries < MaxEntries
          /\ entries' = entries + 1
          /\ entry' = [NoEntry EXCEPT !.id = entries + 1, !.t = adds[a].t, !.access = "recent"]
  /\ adds' = [adds EXCEPT ![a] = IF a = Probe THEN [at |-> "added", t |-> 0] ELSE IdleAdd]
  /\ bytes' = TRUE
  /\ probeEntry' = 0
  /\ stale' = (stale \/ adds[a].t # client)
  /\ UNCHANGED <<clientVars, grace, lastEnd, userVars, sweep, checkedAt, dropping, calls>>

(* mutant: the handle whose metadata never came is left open *)
failedAddKept(a) == IdleAdd

\* No metadata in time: the handle is closed unless the torrent has an entry by
\* then.  That entry need not name this handle: it may still name an earlier one,
\* which a teardown closed after the torrent had been registered anew.
failedAdd(a) == IF Active THEN IdleAdd ELSE [adds[a] EXCEPT !.at = "failed"]

AddTimesOut(a) ==
  /\ adds[a].at = "waiting" /\ ~GotInfo(a)
  /\ adds' = [adds EXCEPT ![a] = failedAdd(a)]
  /\ stale' = (stale \/ (Active /\ entry.t # adds[a].t))
  /\ UNCHANGED <<clientVars, entry, entries, grace, lastEnd, probeEntry, userVars, diskVars, dropping, calls>>

Close(t) ==
  /\ client' = IF client = t THEN 0 ELSE client
  /\ info' = (info /\ client # t)
  /\ UNCHANGED handles

AddCloses(a) ==
  /\ adds[a].at = "failed"
  /\ Close(adds[a].t)
  /\ adds' = [adds EXCEPT ![a] = IdleAdd]
  /\ UNCHANGED <<entryVars, probeEntry, userVars, diskVars, dropping, calls>>

(***************************************************************************)
(* Use: leases, reads and other touches, and the download protection.      *)
(***************************************************************************)

\* A renewed access also spoils the probe's snapshot of lastAccess.
Bump(e) == /\ entry' = [e EXCEPT !.access = "recent"]
           /\ probeEntry' = 0

\* Stop does not recall a timer that has started and waits for the lock.
AcquireViewer(p) ==
  /\ Call
  /\ p \notin watching
  /\ watching' = watching \union {p}
  /\ IF Active
     THEN /\ Bump([entry EXCEPT !.viewers = @ + 1, !.lease = "fresh"])
          /\ grace' \in {grace, grace \ {entry.id}}
     ELSE UNCHANGED <<entry, probeEntry, grace>>
  /\ UNCHANGED <<clientVars, entries, lastEnd, stale, adds, registered, seedTracker, diskVars, dropping>>

\* The close of a player whose open found no torrent counts like any other.
ReleaseViewer(p) ==
  /\ p \in watching
  /\ watching' = watching \ {p}
  /\ LET left == IF entry.viewers > 0 THEN entry.viewers - 1 ELSE 0 IN
       /\ entry' = [entry EXCEPT !.viewers = left]
       /\ grace' = IF Active /\ left = 0 /\ ~registered /\ ~seedTracker
                   THEN grace \union {entry.id} ELSE grace
  /\ UNCHANGED <<clientVars, entries, lastEnd, stale, addVars, registered, seedTracker, diskVars,
                 dropping, calls>>

\* trackingReader.bumpAccess: a real read also renews the lease of whoever watches.
Read ==
  /\ Call /\ Active
  /\ Bump([entry EXCEPT !.lease = IF entry.viewers > 0 THEN "fresh" ELSE @])
  /\ UNCHANGED <<clientVars, entries, grace, lastEnd, stale, adds, userVars, diskVars, dropping>>

\* Get, FileReader, Prefetch and FingerprintFile count as use, not as watching.
Touch ==
  /\ Call /\ Active
  /\ Bump(entry)
  /\ UNCHANGED <<clientVars, entries, grace, lastEnd, stale, adds, userVars, diskVars, dropping>>

RegisterDownload ==
  /\ Call /\ ~registered /\ registered' = TRUE
  /\ UNCHANGED <<clientVars, entryVars, addVars, watching, seedTracker, diskVars, dropping>>

UnregisterDownload ==
  /\ registered /\ registered' = FALSE
  /\ UNCHANGED <<clientVars, entryVars, addVars, watching, seedTracker, diskVars, dropping, calls>>

SetSeedTrackers ==
  /\ Call /\ seedTracker' = ~seedTracker
  /\ UNCHANGED <<clientVars, entryVars, addVars, watching, registered, diskVars, dropping>>

(***************************************************************************)
(* Teardown.  Forget removes the entry under the lock; the handle is closed *)
(* after the unlock (CloseLater) or before it (CloseNow).                   *)
(***************************************************************************)

Forget(why) ==
  /\ entry' = NoEntry
  /\ lastEnd' = why
  /\ UNCHANGED <<entries, stale, adds, probeEntry, userVars, sweep, checkedAt>>

CloseLater == dropping' = dropping \union {entry.t} /\ UNCHANGED clientVars
CloseNow == Close(entry.t) /\ UNCHANGED dropping

FinishDrop(t) ==
  /\ t \in dropping
  /\ dropping' = dropping \ {t}
  /\ Close(t)
  /\ UNCHANGED <<entryVars, addVars, userVars, diskVars, calls>>

\* drop(hash, explicit): only the user's own stop may cut off a recent reader.
Drop(explicit) ==
  /\ Call /\ Active
  /\ ~HeldByViewer /\ ~registered
  /\ explicit \/ entry.access # "recent"
  /\ Forget("teardown") /\ CloseLater
  /\ UNCHANGED <<grace, bytes>>

(* mutant: who came back in the meantime is not looked at *)
StillIdleAnyViewer(id) ==
  entry.id = id /\ ~registered /\ ~seedTracker /\ entry.access # "recent"

StillIdle(id) ==
  /\ entry.id = id /\ entry.viewers = 0
  /\ ~registered /\ ~seedTracker /\ entry.access # "recent"

\* dropIfStillIdle, 8 s after the last viewer left; the timer is spent either way.
GraceFires(id) ==
  /\ id \in grace
  /\ grace' = grace \ {id}
  /\ IF StillIdle(id)
     THEN Forget("teardown") /\ CloseLater
     ELSE UNCHANGED <<clientVars, entry, entries, lastEnd, stale, addVars, userVars, sweep,
                      checkedAt, dropping>>
  /\ UNCHANGED <<bytes, calls>>

(* mutant: a lease never expires *)
ReapableUnwatched == Active /\ entry.access = "idle" /\ entry.viewers = 0 /\ ~registered /\ ~seedTracker

Reapable == Active /\ entry.access = "idle" /\ ~HeldByViewer /\ ~registered /\ ~seedTracker

\* dropIdleTorrents: the one path that closes the handle under the lock.
ReapIdle ==
  /\ Reapable
  /\ Forget("teardown") /\ CloseNow
  /\ UNCHANGED <<grace, bytes, calls>>

ProbeSnapshots ==
  /\ adds[Probe].at = "added"
  /\ adds' = [adds EXCEPT ![Probe].at = "probing"]
  /\ probeEntry' = entry.id
  /\ UNCHANGED <<clientVars, entryVars, userVars, diskVars, dropping, calls>>

\* dropProbeEntry: same entry, lastAccess untouched since the snapshot.
ProbeDrops ==
  /\ adds[Probe].at = "probing"
  /\ adds' = [adds EXCEPT ![Probe] = IdleAdd]
  /\ probeEntry' = 0
  /\ IF Active /\ entry.id = probeEntry /\ entry.viewers = 0 /\ ~registered
     THEN /\ entry' = NoEntry /\ lastEnd' = "teardown" /\ CloseLater
     ELSE UNCHANGED <<entry, lastEnd, clientVars, dropping>>
  /\ UNCHANGED <<entries, stale, grace, userVars, diskVars, calls>>

\* ClearAll and ClearEntry drop whatever is active; the files go unless, for
\* ClearAll, a download or a favorite keeps them.
Clear ==
  /\ Call
  /\ bytes' \in {FALSE, bytes}
  /\ IF Active
     THEN Forget("wipe") /\ CloseNow
     ELSE UNCHANGED <<clientVars, entry, entries, lastEnd, stale, addVars, userVars, sweep,
                      checkedAt, dropping>>
  /\ UNCHANGED grace

(***************************************************************************)
(* The cache collector: a listing taken without the lock, a second look     *)
(* under it for each candidate, and the removal after the unlock.           *)
(***************************************************************************)

SweepLists ==
  /\ Call /\ sweep = "off" /\ bytes /\ ~Active /\ ~registered
  /\ sweep' = "listed"
  /\ UNCHANGED <<clientVars, entryVars, addVars, userVars, bytes, checkedAt, dropping>>

(* mutant: the second look asks only for downloads *)
EvictionBlockedByDownload == registered

EvictionBlocked == Active \/ registered

SweepChecks ==
  /\ sweep = "listed"
  /\ sweep' = IF EvictionBlocked THEN "off" ELSE "checked"
  /\ checkedAt' = entries
  /\ UNCHANGED <<clientVars, entryVars, addVars, userVars, bytes, dropping, calls>>

SweepRemoves ==
  /\ sweep = "checked"
  /\ sweep' = "off" /\ bytes' = FALSE
  /\ UNCHANGED <<checkedAt, clientVars, entryVars, addVars, userVars, dropping, calls>>

(***************************************************************************)
(* Time.                                                                   *)
(***************************************************************************)

GrowsIdle ==
  /\ Active /\ entry.access # "idle"
  /\ entry' = [entry EXCEPT !.access = IF @ = "recent" THEN "quiet" ELSE "idle"]
  /\ UNCHANGED <<clientVars, entries, grace, lastEnd, stale, addVars, userVars, diskVars, dropping, calls>>

LeaseExpires ==
  /\ entry.lease = "fresh"
  /\ entry' = [entry EXCEPT !.lease = "expired"]
  /\ UNCHANGED <<clientVars, entries, grace, lastEnd, stale, addVars, userVars, diskVars, dropping, calls>>

LifetimeNext ==
  \/ ProbeAsks \/ MetadataArrives
  \/ \E a \in Adders : AddResolve(a) \/ AddRegisters(a) \/ AddTimesOut(a) \/ AddCloses(a)
  \/ \E p \in Players : AcquireViewer(p) \/ ReleaseViewer(p)
  \/ Read \/ Touch \/ RegisterDownload \/ UnregisterDownload \/ SetSeedTrackers
  \/ \E t \in 1..MaxHandles : FinishDrop(t)
  \/ \E explicit \in BOOLEAN : Drop(explicit)
  \/ \E id \in 1..MaxEntries : GraceFires(id)
  \/ ReapIdle \/ ProbeSnapshots \/ ProbeDrops \/ Clear
  \/ SweepLists \/ SweepChecks \/ SweepRemoves
  \/ GrowsIdle \/ LeaseExpires

\* Timers fire, the collector's loop ticks every minute, a waiter of Add wakes.
LifetimeFairness ==
  /\ WF_lifetimeVars(ReapIdle) /\ WF_lifetimeVars(GrowsIdle) /\ WF_lifetimeVars(LeaseExpires)
  /\ \A id \in 1..MaxEntries : WF_lifetimeVars(GraceFires(id))

LifetimeSpec == LifetimeInit /\ [][LifetimeNext]_lifetimeVars /\ LifetimeFairness
-----------------------------------------------------------------------------
(* The abstract promise: leases and downloads are never torn down under the    *)
(* holder, by any path but a wipe of the cache.                                *)
Promise == INSTANCE TorrentPromise WITH
  loaded <- Active, watched <- HeldByViewer, kept <- registered, ended <- lastEnd

TornDownOnlyWhenFree == Promise!Spec

(* Every handle open in the client can still be closed by somebody: the active *)
(* entry refers to it, an Add holds it, or a teardown is about to close it.    *)
(* Two ways out are open in the code and excepted by the history: an Add whose *)
(* wait ended because its handle was closed registers it over the open one,    *)
(* and an Add that timed out leaves its handle open because the torrent has an *)
(* entry, though that entry names a handle already closed.                     *)
NoOrphanHandle ==
  client # 0 /\ ~stale =>
    \/ Active /\ entry.t = client
    \/ client \in dropping
    \/ \E a \in Adders : adds[a].at \in {"waiting", "failed"} /\ adds[a].t = client

(* A torrent nobody watches, downloads or seeds leaves the active set in the   *)
(* end, though its viewers may have died without closing their lease.          *)
AbandonedIsUnloaded == <>[](~Active \/ registered \/ seedTracker)

(* The collector removes the files of an active torrent only if it was loaded  *)
(* after the collector's second look at it.                                    *)
EvictionSparesLoaded ==
  [][SweepRemoves /\ Active => entry.id > checkedAt]_lifetimeVars
=============================================================================
