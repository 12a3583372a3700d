# JackUI: a formal model of its concurrent core

JackUI is a Go server that searches torrents (through Jackett), streams them to
a browser while they download, transcodes them, and keeps a queue of background
downloads that end up as files in a library.  This directory holds TLA+ modules
that model the concurrent core of it, the TLC configurations that check them,
and proofs that TLAPS checks.  `src/` below is the root of the repository.

## 1. The system

### Components

| Component | State | Operations | What makes it hard |
|---|---|---|---|
| download store (`internal/downloads/store*.go`) | the `downloads` table: status, stalls, priority, queued_since, ... | guarded and unguarded UPDATEs, one statement each | callers read a row, compute, and write it back later |
| scheduler (`scheduler.go`, `aggregate.go`) | none (a pure function of the rows) | `schedulePlan` each tick | slots in total and per user, preemption, aging, groups of rows |
| download worker (`worker*.go`, `aggregate*.go`, `move.go`) | `tracked`, `pending`, `retries`, `removed`, `movingActive` under `w.mu` | the tick every few seconds, init goroutines, move jobs, the sweep of stuck moves, `Remove`, `Stop`, boot rescue | none of its steps holds the mutex across the database, the disk or the torrent client |
| download handlers (`internal/handlers/downloads*.go`) | none | pause, resume, recheck, delete, promote, one row or many | they write the table while the tick works on what it read before |
| source rotation (`rotation.go`, `sources.go`, `worker_stall.go`) | `download_sources`, `active_magnet` | park, pick, discover, activate, demote, pause | cooldowns, and two records of which source is active |
| transfer dock and file moves (`internal/transfer`, `move.go`, `local_move.go`, `downloads_promote.go`, `transfer_reconcile.go`) | jobs, a pool of slots, `pending_transfers`, files | submit, copy or rename, relink, cancel, retry, reconcile | a crash between any two steps; what is left is judged by names and sizes |
| torrent lifetime (`internal/streamer`: `Add`, `drop`, viewers, the idle reaper, the health probe, the cache collector) | `s.active`, leases, grace timers, protected names, files in the cache | add, watch, read, drop, reap, probe, clear, evict | six ways to tear down, most of which remove the entry first and close the handle after the unlock |
| piece verification (`streamer_verify.go`) | `verifiedFiles` | verify, recheck, purge on drop | a claim is set before the work and must go if the work is not finished |
| piece-hash limiter (`verify_limiter.go`) | `limit`, `active`, `closed`, a broadcast channel | acquire with a context, release, resize, shut down | lost wake-ups, leaked slots |
| HLS transcoding (`internal/transcode`) | sessions, ffmpeg processes, GPU slots | get or start, seek, recover, close, reap, stop | processes that outlive requests, replaced by three parties at once |
| local cache (`internal/localcache`) | entries, copies, a queue, an index on disk | mark, drop, copy, evict, reload | the worker works on an entry that may be replaced meanwhile |
| registry of local streams (`internal/localstream`, `handlers/local`) | open files by key, when each was last read | open, release, reap | the newest takes the key; HLS sessions outlive the request that opened their file |
| authentication (`internal/auth`, `handlers/auth*.go`, `AuthContext.tsx`) | refresh tokens, the account, what the browser stores | log in, rotate, log out, revoke, disable, delete | several tabs share one token; each statement is on its own |
| watchlists (`internal/watchlist`, `handlers/watchlist.go`) | saved searches, what each has seen, a queue of kicks | create, edit, delete, kick, the passes of the worker | a pass works on a copy of the row, and every statement and search of it may fail |
| everything else | see "components" in `PROJECT.json` | | adapters, parsers, pages |

### How they interact

A row enters the table as `queued`.  Each tick the worker lists the
`downloading` rows, forgets what it tracked and is not in the list any more,
and drives each group (the rows of one user and one torrent): it starts an init
goroutine when nothing is tracked, tracks the rows the init resolved, and once
every row of the group is complete it sets them to `moving` and submits a move
job.  It then takes slots away from torrents that stall, and asks
`schedulePlan` which groups should hold the slots.  Every so many ticks it
looks for `moving` rows that nobody moves.  Init goroutines, move jobs and
handlers share the table, the worker's maps, and the torrent client, whose
eviction protection (`s.downloads`) the worker registers and unregisters.
Inits and rechecks go through the piece verification, which holds a slot of the
limiter while it hashes.

A torrent of a queued row and one that somebody watches are the same torrent:
`Add` registers whatever the client has for the hash, players lease it, and the
worker's registration and the leases are what the ways of tearing it down look
at.  A row whose torrent has no seeder is handed to the rotation before it loses
its slot.  A finished row's files go through the transfer dock, and so do
promotions to the library and the moves a user makes in the Local tab; the
first two are on record in the database, and are resumed by the next process.
Transcoding reads from the torrent or from a local file, which for slow mounts
is the copy of the local cache.  The worker of the watchlists repeats saved
searches, and puts new results into the table as `queued`.  Every request carries a token of `auth`.

### What would make each part wrong

* limiter: a slot that leaks, a sleeper nobody wakes, a cap that is exceeded by
  admission;
* verification: a claim that survives an unfinished pass (the file is never
  verified again and its bytes are downloaded twice), a slot used outside the
  protocol of the limiter;
* scheduler: an oversubscribed or idle slot, groups that take a slot from each
  other in turn, a row that waits for ever;
* worker: two goroutines that move the same files, a row that nobody will ever
  take out of its state, a leaked map entry that stops a row, files moved before
  they are complete, a torrent that loses its protection while a row needs it, a
  deleted or paused row that comes back.
* rotation: a row that goes from source to source for ever;
* dock: the last whole copy of a file is removed, or the row is left naming a
  place where the file is not;
* lifetime: a torrent is closed under its viewer or its download, a handle stays
  open in the client that nobody will close, a torrent that nobody uses stays
  loaded, files are removed under a loaded torrent;
* transcoding: two encoders for one session, one that nobody can end, a GPU slot
  that is lost or given back twice, a request that waits for a build nobody does;
* local cache: half a file served as a whole one, an entry queued for ever;
* local streams: a file closed under its reader, or one that nobody will close;
* authentication: a spent token that becomes usable, a disabled account that
  keeps a session;
* watchlists: a query that was just saved announces or downloads everything that
  was out already.

`PROJECT.json` lists these hazards at their lines, and which property covers
each.

## 2. Modules

```
VerifyLimiter  <--- INSTANCE ---  PieceVerify          SlotPlan  <--- EXTENDS --- Scheduler
     ^                                 ^                  ^
     | EXTENDS                         | EXTENDS          | EXTENDS
VerifyLimiterProofs             PieceVerifyProofs    DownloadWorker  <--- DownloadWorkerProofs

TorrentPromise  <--- INSTANCE WITH ---  TorrentLifetime

AccountProofs      EXTENDS  Sessions, Watchlist
TransferDockProofs EXTENDS  TransferDock
StreamingProofs    EXTENDS  MCServer, AccountProofs, VerifyLimiterProofs
LocalFilesProofs   EXTENDS  MCFiles, PieceVerifyProofs
QueueProofs        EXTENDS  MCDownloads, TransferDockProofs

MCServer    EXTENDS  VerifyLimiter, TorrentLifetime, HlsSessions, Sessions
MCFiles     EXTENDS  PieceVerify, LocalCache, LocalStream
MCDownloads EXTENDS  Scheduler, SourceRotation, TransferDock
MCScheduler EXTENDS  Scheduler, Watchlist
MCPieceVerify, MCDownloadWorker, MCWorkerQueue: one module each
```

MCWorkerQueue starts the worker in two ways, with two rows or with one of them
deleted; its action constraint `QueueBound` is a bound like the others.
MCServer, MCFiles, MCDownloads and MCScheduler check components that have no
state in common and do not call each other.  Variable `focus` names, in each
behaviour, the one component that takes steps; the others stay in their initial
state, in which no fair action of theirs is enabled.  So a run is the union of
the state spaces of its components and not their product, and each property is
checked exactly as it would be in a run of its own.

### VerifyLimiter

`limit`, `active`, `closed` are the fields of `verifyLimiter`.  The channel is
abstracted: a goroutine that took a snapshot of it is `parked`; closing it makes
every parked goroutine `woken`, which then goes around the loop of
`AcquireContext` again.  `Refuse`, `Take` and `Park` are the three ways through
the critical section, `ContextDone` the other branch of the `select`.

### PieceVerify

One torrent and its files.  The variables of the limiter are the module's own,
and its steps are those of `VerifyLimiter` (`L!Take`, `L!Release`, ...)
conjoined with what the pass does next.  `ClaimsGoOn` ties the two together: a
claim whose passes all sleep waits for a slot that somebody is hashing with.
`Lookup` is the read of
`s.active` under `s.mu`; from there on the goroutine works on its handle,
whatever becomes of the torrent.  `hashed` is a history variable: the claimed
files that a pass went through to the end.

### SlotPlan

The abstract specification of the schedule: `AdmissiblePlan` says which sets of
groups may hold the slots.  It decides nothing about ties, aging or order.
`DownloadWorker` applies *any* admissible plan, and `Scheduler` shows that the
code's is always one (`PlanAdmissible`, which also says in which order
`schedulePlan` serves, and to whom an incumbent may lose its slot).

### Scheduler

`schedulePlan` statement by statement: the two sorted lists, `slotFiller`'s
`take` and `tryPreempt` as a fold over them (`fill`), on a queue that rows
enter, leave, age, stall and change priority in.  Time appears as the order of
`queued_since` (`older`, with the id deciding ties) and as whether a row has
waited until its bonus reached the cap (`aged`).  The query has no ORDER BY, so
incumbents of one rank are considered in any order (`IncumbentOrders`) and
`schedulePlans` is a set.

Downloads also start without a schedule: at boot and in the sweep, interrupted
moves go back to `downloading` (`Rescue`), and then more groups download than the
limits allow, the case that `scheduler.go:115-117` and 135-136 are for.  Limits
lowered while the worker runs leave the same kind of state.  The two other ways
around a schedule are not in this module: a completed row whose file was lost
returns to `queued` at boot with its old `queued_since`, and a row resumed while
queued moves to the end.

### DownloadWorker

A step is one statement of the database or one critical section of `w.mu`, with
the private computation around it.

| Model | Code |
|---|---|
| `status`, `stalls` | columns of the table; `"deleted"` stands for no row |
| `tracked`, `pending`, `retries`, `removed`, `movingActive` | the maps of `Worker`; `pending[r]` remembers *which* init registered the entry, which the code does not |
| `live`, `protected` | torrents in `s.active`; names in `s.downloads` |
| `tick` | the tick goroutine: `tickUntrack`, `tickDrop`, one step per group, the stalls (`DemoteGroup`, `untrackStalled` and `pauseStalled` per group), `applySchedule`, and the sweep as three steps (list, prune, rescue) |
| `inits[i]` | an init goroutine, `initDownload` for one row or `initGroup` for several: `resolve`, then `promoteOrAbort` or `trackMember` row by row, or `noFiles`, or `failOrRetry`, `deleteRetries` and `SetError`, then the deferred cleanup |
| `moves[j]` | a move job, `runCompletionMove` or `runGroupCompletionMove`: the attempt, the write to the table, the release of the torrent |
| `Pause`, `Requeue`, `RequeueByID`, `Recheck`, `DeleteScoped`+`Remove` | the handlers; delete is two steps |
| `Evict`, `Fetch`, `Stop`, `Restart` | the idle reaper, the torrent client, shutdown, a new process |

Steps that the code does in several and the model in one, and why nothing is
lost: `tickUntrack` joins the read of the list with the critical section after
it, because what the database receives in between is as if received after, and
what the maps receive as if received before; `applySchedule` joins the read,
the guarded transactions and the teardown of preempted rows for the same
reason; `checkCompletion` joins the write of the status, the removal from
`tracked` and the record of the dispatch, which all run on the tick goroutine,
as does the sweep that looks at them.  `groupCompletionEligible` and the
`MoveGroup` after it are one step: a sibling resumed between the two is as if
resumed after.  `adoptSiblings` tracks the members in one step where the code
goes through them one by one on the tick goroutine: a delete between two of them
is as if it had come before the first or after the last.

Two sections of `failOrRetry` are two steps (`worker_progress.go:98-111`): the
count is stored, at its limit too, and forgotten after the lock was taken again.
`TypeOK` therefore allows a count at its limit only while an init stands between
the two, and several inits of one row may charge it.  At a restart any completed
rows may turn out to have lost their file and be queued again
(`rescueOrphanCompletion`); the model does not say where files are.

### TorrentPromise and TorrentLifetime

`TorrentPromise` is what the streamer promises of one torrent: while a trusted
lease or a download holds it, it leaves the active set only because somebody
wiped the cache.  `TorrentLifetime` is the code: `Add` as resolving, waiting,
registering or, after a timeout, closing; leases with their age and grace
timers; and the six ways of tearing down, `Drop`, `GraceFires`, `ReapIdle`,
`ProbeDrops`, `Clear` and, for the files, the collector's `SweepLists`,
`SweepChecks`, `SweepRemoves`.  The entry under `s.mu` and the handle in the
client are separate variables: a path that closes after the unlock puts the
handle into `dropping`, and `FinishDrop` closes it later.  Time is three ages of
the last access (`recent`: younger than the 60 s read guard; `quiet`; `idle`:
past the idle timeout) and whether a lease is fresh.  Property
`TornDownOnlyWhenFree` is the specification of `TorrentPromise` under the mapping
`loaded <- Active`, `watched <- HeldByViewer`, `kept <- registered`.

A handle may be opened with its metadata or without.  A magnet asks the cache of
.torrent files first, and a link may bring a .torrent file; a magnet captured from
a redirect (`streamer_add.go:285-287`) does not ask the cache, and the cache is
written after the unlock, as far as that succeeds (line 200).  So `AddResolve`
leaves it open whether the metadata is there.

`stale` remembers two ways in which a handle that a teardown closed goes on to be
named: an `Add` that waited for it registers it (closing ends the wait, and the
code does not tell the two apart); and an `Add` whose wait timed out leaves its
own handle open because the torrent has an entry, though that entry names the
closed one.  `NoOrphanHandle` says nothing of such behaviours.

### TransferDock

`files` says whose file each place holds, `torn` which places hold an incomplete
one, `row` is `file_path`, `intent` what the database would resume.  A job goes
through `Begin`, then `Rename` (one filesystem) or `Open`, `CopyEnds`, `Place`,
`Unlink`, or `AlreadyThere` (a destination of the same size), then `Point`
and `Settle`; each may fail, and `Restart` may come between any two.  A write to
the database that is refused is ignored by the code, so `PointFails` and
`SettleUnrecorded` go on as if it had been made.  A torrent of several files
(`Folders`) is moved file by file and its row follows after the last: the model
follows any one of its files, and `OtherFileFails` is the failure of another
before or after it.  Of a copy that is repeated, `Skip` is the file that an
earlier try has moved.  That the emptied folder is removed is left out.  A size that
happens to be equal is a nondeterministic choice.  A canceled job keeps its slot
and runs on, as in the code; only a move after a download notices in the middle
of a copy.

The two properties of the module hold only for files whose transfers do not get in each
other's way, and the properties say so with history variables.  `shared` holds
the items of transfers that had a place in common with another unfinished one,
were sent to a place that was taken, or take for their own a file that another
transfer put where they found it: a completion does not refuse a taken
name and trusts a size, and a promotion's intent that was given up still allows
overwriting.  `astray` holds the items that a transfer has left with a row nothing
will mend: the write of the path was refused, a folder was given up halfway by a
job that is not on record any more, or a restart cut one that is not on record
between the move and the relink.

### HlsSessions

`sess[s].at` goes from `building` through `tracked` (in the map) and `removed`
(out of it, `stop` not yet called) to `stopping` and `gone`.  `runs` are ffmpeg
processes with the generation they were launched as; `moving` is `restartMu`,
under which a seek cancels, waits and launches, and a recovery relaunches in
software.  A launch is two steps, because the process starts before the
session's mutex decides whether it is wanted.

### Sessions

Refresh tokens of one account as the SQL statements see them: `unused`,
`consumed` within the grace window, `past` it.  A refresh is `FindToken`,
`FindUser`, `Consume`, `Decide`, `Issue`, each a statement; the browser stores
one token for all its tabs; disabling an account is `SetUserStatus` and then
`DisableRevokes`.

### SourceRotation

The rows of one torrent, their `download_sources` and the release they fetch.
`Stall` is the tick that finds the torrent without seeders: its representative
rotates (`Rotate`), or victims are demoted (`DemoteGroup`) and, at the limit
of stalls, paused.  The pause is a statement of its own, `PauseStalled`; refused,
or cut off by a crash (`Interrupted`), it leaves a row queued that has used up its
stalls and stalls once more, and resuming a row (`Requeue`) does not reset them
either.  So a row's stalls are bounded by the limit and one for each of these, which
`setbacks` counts.  A rotation that is cut or refused leaves its sources at any
point of it (`LeftAt`).  An init may fail: a dead magnet has no fallback, and that of
a link (`Links`) may fail as well (`InitFails`; the retries before the last change
nothing here).  `magnet` and the `active` source are separate, because
`ensureActiveWithFallback` writes one and `ActivateSource` the other, and because
a crash may fall between.

### LocalCache

Handlers mark and drop files, one worker copies them.  `worker.mine` says
whether the entry the worker looked up is still the one in the map, and
`worker.linked` whether the file it writes still has its name.  The index is read
under the lock and written without it, so both the worker and a handler may
write an older one; `Reload` is a restart, which trusts what the index names if it
has its full size.

### LocalStream

One file, with a key for direct play and one for HLS, which the sessions of all
kinds of player share.  `source` are the sessions of the registry with their open
files, `slot` its map.  A request of direct play releases what it opened; one of
HLS hands it to the manager, which has a session already (`FindsSession`), or
builds one that reads from it from then on (`reader`).  Time is whether a session
was never read, lately, or more than a minute ago; the reaper closes the last, in
use or not.  A session that was never read stays in the map until another takes
its key, which the code means (`reader.go:234`).

### Watchlist

`watch` and `seen` are the two tables.  One goroutine checks one row at a time:
`todo` holds the copies of the rows it read, of which the first is being checked,
`stage` says whether it is about to be armed again (`MarkChecked`), searched or
recorded.  Each write and the search may fail, the process may end anywhere, and
the owner may edit or delete the row at any point.  A query with its filters is
what it finds, `Answers`; the narrow and the wide filter stand for the category
and the number of seeders, which an edit may change without a new silent pass.  A
search that succeeds is taken to find everything that is out.  When a row is due
is time's choice.  `owed`, `silence` and `early` are history variables: what was
out when the query was saved, whether a silent pass of it is ahead, was tried or
noted everything, and what of `owed` was brought up after all.

The code leaves the silent pass out in three cases, which `OldIsNoNews` excepts as
`tried`: the first search fails after `MarkChecked`, the process ends between the
two, or a pass marks the row by a copy from before the edit.  In each the next
pass announces the whole answer, which the comment at `worker.go:209` says a first
pass never does.

## 3. Checks

Every run is in `PROJECT.json`; every property of a passing run has a mutant
there, a plausible bug of the code under which the property fails.

| Run | Instance | Shows |
|---|---|---|
| `server` | limiter: 3 goroutines, caps 0 (normalised to 1), 1, 2 | no leak, no lost wake-up, every sleeper wakes |
| | lifetime: 2 players, an adder and a health probe, 2 entries, 2 handles, 4 calls | implements `TorrentPromise`; no orphan handle; the abandoned is unloaded; the collector spares what was loaded when it looked |
| | HLS: 2 requests, 2 contents, 2 sessions, 1 GPU slot, 3 encoder runs of each | encoders and slots are accounted for, waiters have a builder |
| | sessions: 2 tabs of a browser, 2 tokens | a spent token stays spent; an inactive account ends up without sessions |
| `files` | verification: 3 goroutines, 2 files, caps 1 and 2, drops, shutdown | slots and claims survive interruption, recheck, drop; no claim hangs |
| | cache: 2 files, 2 requests, a queue and a capacity of 1 | what is ready stays whole; what is queued is served |
| | local streams: 2 requests, 2 kinds of player, 3 open files | readers keep their file; direct play closes what it opened |
| `downloads` | queue: 3 torrents of a user with 1 of 2 slots, one priority, one stall each, a rescue | a row that has not stalled is served; the limit of a user holds |
| | rotation: 2 rows, 2 releases, the second a link and with seeders at times, 2 tries, 2 stalls, failing inits, a refused write, crash or resumption | every row ends up completed, paused or failed once the swarms settle |
| | dock: a file and a folder, 2 names, 3 jobs, 1 slot, one failure, cancellation, refused write or restart | a whole copy exists; the row finds the file |
| `scheduler` | 4 rows in 3 groups, 2 users, 2 slots, low and high, one torrent that may stall, a rescue | every plan is admissible, also when more groups download than the slots, and serves in the order of the queue; of what a tick leaves downloading the next one stops nothing, unless for a strictly higher priority |
| | a watchlist: 2 queries, 2 filters, 2 releases, 1 download per pass, 1 kick | what was out when a query was saved is no news of it, unless its silent pass was cut short |
| `worker_group` | 2 files of one torrent, 2 inits, any 2 of pause, resume, failing attempt, shutdown, restart | complete files only are moved, moves are owned, dispatch records too |
| `worker_queue` | 2 torrents of different priority, one whole-torrent row, 1 slot, one handler call | the limit on downloads is kept |
| | 1 row, 2 inits, 2 moves, any 3 outside events except that a handler puts back a row being moved | one move at a time |
| `worker_live` | 1 row, 2 inits, any 2 of 10 kinds of outside events, fairness | types, and a row's count of failures at its limit only in the hand of an init that forgets it; pending entries owned; downloads taken up, moves end, pauses take effect, deletes stick |

Bounds.  `MaxCalls` counts what the worker does not decide: handler calls,
failures, stalls, evictions, crashes.  Two suffice for a call to land between
any two steps and another to land in what the first set off; three are used
where there is one row.  Two inits let a canceled one overlap with its
successor, two moves let a move overlap with another of the same row; a third
of either adds no new pair.  `MaxInitRetries` and `MoveMaxAttempts` are 2
instead of 3: one retry and the last.  `MaxStalls` is 1.  In
`Scheduler` rows are the bound, the queue goes on for ever; one rescue, of any
rows at any time, is enough for more groups to download than there are slots.
In `TorrentLifetime` two entries let a timer or a snapshot of the first meet the
second, two handles let a closed one meet a live one, and four calls let both
players come and the torrent be dropped and loaded again.  In `HlsSessions` two
sessions are one to take the slot of another and one key rebuilt after it was
reaped; three runs of a session are a launch, a seek and a recovery.  In `Sessions` two tokens
and two tabs let both tabs hold the same token and one of them its replacement.
In `TransferDock` three jobs are two that meet and one that repeats; one
trouble is one place for a crash, a failure, a refused write or a cancellation,
wherever it falls (a retry after a failed copy takes two, and is left to the
proof).  In `LocalCache` a queue of one is full with one file waiting, and a
capacity of one evicts with the second.  In `LocalStream` three open files are
one displaced by another, of one way, and one of the other.  In `SourceRotation` an alternative and
the original, tried twice each, run out; one setback falls anywhere, and
`MaySeed` names the alternative because with seeders on the original the rotation
ends before it begins.  In `Watchlist` one watchlist is enough:
its copy waits in the list before it is checked, as it would behind another's.

Fairness.  `VerifyLimiter`: a hash pass ends and a woken goroutine is scheduled;
nobody is forced to call anything.  `Scheduler`: the tick runs, waiting rows
age, and a download that holds a slot leaves it at last (which the worker sees
to by demoting what stalls).  `DownloadWorker`: the tick goroutine, each init
(bounded by its timeout), each move job (bounded by its attempts) and the delete
handler keep running, and infinitely often a tick ends with a sweep
(`movingSweepTicks`); outside events are never forced to happen.
`TorrentLifetime`: time passes, timers fire, and the collector's loop reaps.
`Sessions`: requests end, time passes, the hourly cleanup runs, and the request
that disabled an account goes on to revoke.  `LocalCache`: the worker and the
requests run on.  `SourceRotation`: ticks go on, an init succeeds or fails (its
timeout sees to that, and neither outcome is forced), a torrent with seeders
completes, one without is found stalled, cooldowns elapse; which release has
seeders is free until it stops changing.

Two refinements are checked and proved: `TornDownOnlyWhenFree`, that
`TorrentLifetime` implements `TorrentPromise`; and `PlanAdmissible`, that what
`schedulePlan` computes is one of the plans `DownloadWorker` is checked with.

### Where the code and its comments disagree

Five runs expect a violation, each of a sentence of the repository:

* `piece_verify_stale_claim`: the map of claims "tracks only currently-active
  torrents" (`streamer_verify.go:214`).  A goroutine that looked the torrent up
  before the drop claims after the purge.
* `worker_sweep_group`: the sweep is said never to re-dispatch a live move
  (`worker_progress.go:83-86`).  `completeGroup` does not record its dispatch, so
  the sweep does so for every group move that is still running when it comes by.
* `worker_protection`: protection is said to be sibling-aware
  (`worker_sched.go:111-114`, `move.go:45-50`).  The success path of a single-row
  move is not, and another user's row loses its protection.
* `worker_shutdown_failed`: a move interrupted by shutdown is "NOT a failure"
  (`move.go:22-23`).  In the single-row variant it is recorded as one.

* `stream_handle_leak`: the reaper is there "so a closed player doesn't leak file
  handles" (`registry.go:20`), and `GetOrStart` is said to close the source of a
  request that finds a session (`local_hls.go:161-162`).  It cannot: a session of
  the registry is no `io.Closer`.  The request has taken the key of the file that
  the session reads, so that one is left open when its session ends.

The models also exhibit, without a run of their own: a recheck that hashes a
file while another recheck does (`streamer_verify.go:141-143` says it becomes a
no-op); `VerifyFile` returning before the pass it deferred to is done
(`worker_init.go:47-48` takes the pieces for reconciled); batch resume of a row
that is being moved (`store_groups.go:189-190`); a canceled init charged to the
row once its successor has registered (`worker_progress.go:95-96`); the capped
aging bonus, which never lifts a row over the next priority and so does not
prevent starvation (`scheduler.go:28-29`).  The hazards say which property
fails, and under which change of the instance.
The rest are exceptions that a property names:
an `Add` whose handle was dropped while it waited registers a dead one
(`stale`; `streamer_gc.go:162` counts on every handle being registered); an `Add`
that timed out leaves its handle open beside an entry that names a closed one
(`stale`; `streamer_add.go:46-47`: "The handle the client created must not outlive
the failed Add"); a
promotion's intent that was given up, and the trust in a size, let one file
replace another (`shared`; `downloads_promote.go:387-394` promises the contrary
for promotions); a Local-tab move cut by a restart, a refused write of the path, and a folder
whose move failed partway and is given up leave rows that name a place where the
file is not (`astray`; `worker_init.go:94-96`: "if it fails, the file can still be
found in the cache by path"); a row resumed, or a pause refused, at the limit of
stalls stalls beyond it (`setbacks`); and a drop of a cached file that is overtaken by a new mark of it takes the new
copy (`Overtaken`).

## 4. Proofs

`VerifyLimiterProofs` proves, for any finite set of goroutines and any caps,
type correctness, that the counter is the number of holders, that no wake-up is
lost, and that excess only drains.  The inductive invariant is the conjunction
of the first three; the counting step rests on the cardinality of a set with an
element added or removed.

`DownloadWorkerProofs` proves six invariants and three action properties of the
worker for any finite set of rows, grouped in any way, any limits, any number of
goroutines and any outside events.  The assumptions are those the modules state
of their constants: rows are finite, limits are natural numbers and positive
where the code makes them so.

* `TypeCorrect`.  `TypeOK` is not inductive, because the torrent of a group is
  that of one of its members: `TypeInv` adds that no listed group is empty
  (`GroupsListed`) and that an init has members (`InitsStarted`).  The other
  proofs take `TypeInv` as given.  `CountsSpent`, that a count is at its limit only
  in the hand of an init that goes on to forget it, is proved with it: a failure
  that reaches the limit hands the row to that init (`FailureCharged`), and no
  other step takes it out of its hands without forgetting the count
  (`InitKeepsCounts`, `TickLeavesInits`).  Counts themselves have no bound: inits of
  one row that overlap may each add to it.
* `PendingOwned` (`PendingHasInit`) is inductive: `StartInit` makes entries for
  the goroutine it starts, `initExit` clears those of all members, and nobody
  else makes any.
* `DispatchOwned` (`DispatchHasMove`) is inductive: a record is made for the one
  row of a single-row move, and goes when that move does.
* `FinishedWhole` (`FinishedIsWhole`) needs `MovesWhole`, that what a running
  move was given is complete; `storeCompleted` writes to those rows later,
  whatever they are by then.
* `MovesOwned` (`MovingOwned`) is inductive: the step that makes a row `moving`
  starts its move, and each end of a move leaves none of its rows `moving`,
  except after `Stop` or a database error.

* `MovesApart` (`OneMovePerRow`), for rows with a torrent of their own
  (`RowsAlone`) and behaviours in which no handler puts a row back to the queue
  while it is moved (`PutBackMoving`); without either the code violates it.
  `ApartInv` says that a row being moved is neither queued nor downloading nor in
  the list of the current tick, and is recorded while it is `moving`, so that
  neither a tick nor the sweep starts another move.

* `SlotsKept` (`SlotsHeld`): more groups than the limit download only after a
  rescue of interrupted moves.  Only `applySchedule`, the sweep's rescue and the
  restart start downloads.  A plan has at most `MaxActive` groups, the rows of
  each are one group of the table (`GroupsOfPlan`), and taking rows away never
  makes more groups (`FewerRowsFewerGroups`).

* `DeletedStayGone`: a row that is deleted, not tracked, without a pending entry,
  not in the list of the tick and not a member of an init stays so
  (`GoneForGood`).  It is the safety part of `DeletedForgotten`: what TLC adds is
  that every deleted row gets there.

* `WorkEnds`: a tick, an init and a move that run are changed only by their own
  steps or ended by a restart, and each such step lowers what is left to do
  (`TickRank`, `InitRank`, `MoveRank`: the groups still to reconcile or to demote,
  the rows still to track or to charge, the attempts still allowed).  With the fairness of
  their goroutines each of them ends, after a number of steps that the numbers of
  groups, of members and of attempts bound.  `TriesWithin`, that a move has an attempt
  left, is what the last of the three needs.

Each has a lemma for the tick, the init, the move and the outside, one step per
action, and a lemma (`PendingKept`, `RecordsKept`, `WholeKept`, `OwnedKept`) that
says what a step must leave alone for the invariant to survive it.

`AccountProofs` proves of `Sessions`, for any number of tabs and tokens, type
correctness (`SessionsTyped`) and `PastStaysPast` (`SpentStaysSpent`).
`SessionsTypeOK` is not inductive: that a refresh which is about to spend its
token has one is a fact about where the request is.  That a token past its
window stays there follows from the types and the condition of the one `UPDATE`
that consumes, step by step.

`InactiveIssuesFew` bounds what escapes a revocation.  While the account is not
active, the requests that may still issue a token are those that read it while it
was (`MayIssue`); nothing joins them, each issue takes one out, and a step issues
one token at most.  `InactiveEndsSessions` adds, by TLC and under fairness, that
what they issued is refused in the end.

Of `Watchlist` it proves, for any finite set of watchlists, any queries, answers
and limits, type correctness (`WatchTyped`) and `SilenceKept` (`OldIsNoNews`).
`WatchInv` adds that a worker's copies are of different watchlists (`IdsApart`),
so that what is recorded for the first of them is not undone by another copy;
that a silent pass downloads nothing (`NoBudget`); and what the row, its copy and
the noted results are while the silent pass of a query is ahead, is under way,
was tried, or has noted all that was out (`SilentAhead`, `SilentUnderWay`,
`SilentTried`, `SilentKept`).

`StreamingProofs` proves four invariants of HLS sessions for any requests, contents
and number of GPU slots, any finite set of sessions and any bound on their runs.
The three deeper ones rest on `Types`, which leaves generations unbounded, so they
hold without that bound.

* `WaitersServed` (`WaitersHaveBuilder`).  The invariant `BuildInv` adds that a
  build's session is in state `building` (`BuildersOwn`), that two requests never
  build the same session (`BuildersApart`), and that a session being built has a
  request that builds it (`BuildsHaveBuilder`).  `BuildEnds` is where it could
  break: the step that ends a build also sends every waiter back to ask.
* `EncodersHaveOwner` (`EncodersOwned`).  `EncInv` adds that generations are not
  reused (`RunsApart`, `GensBounded`), that nothing runs while `restartMu` is held
  between the old encoder and the new (`MovesQuiet`), and that a session not built
  yet has neither runs nor a stop (`UnbuiltQuiet`, which the step that tracks a
  session needs).  `EncodersKept` says what a step may do, `EncoderAdded` what a
  launch must find.
* `HlsTyped`: `HlsTypeOK`, which also says that generations stay within the bound
  (`RunsCounted`) and the free GPU slots between none and the limit.  That is not a
  matter of types: a slot given back twice would show there, so it
  needs the count of `SlotsInv` (`LimitsInv`).
* `SlotsBalanced` (`SlotsAccounted`).  `SlotsInv` adds that a request which has
  yet to reserve builds a session without a slot (`NotYetHeld`), so `SlotTaken`
  counts one session more; `SlotReturned` is the one lemma for the three ways of
  giving back.

`PieceVerifyProofs` proves, for any callers, files and caps:

* `ClaimsNotStuck` (`ClaimsGoOn`): that nobody sleeps while there is room
  (`L!NoLostWakeup`) is an invariant here as well, because a pass takes slots and
  gives them back only by the limiter's own steps (`StepOfLimiter`, `WakeupKept`).
  Whoever waits thus waits for a counter at its limit, and by
  `SlotsMatchPasses` the counter is the number of passes that hash, so one does.
* `SlotsMatchPasses` (`SlotPerHashingPass`): acquiring adds one to the set of
  hashing passes and to the counter, and each way out of hashing takes one from
  both.
* `ClaimsJustified` (`ClaimJustified`): a file keeps its claim only while its pass
  goes on or once it has been hashed; `JustifiedKept` says what a step must not do.

Of `TorrentLifetime` it proves, for any finite set of players, any adders and any number
of entries and handles:

* `LifetimeTyped`, from `Types`, which adds that an entry and a waiting `Add` have a
  handle, and from the viewers of an entry being at most the players that watch.
* `PromiseKept` (`TornDownOnlyWhenFree`), the refinement.  `ViewersHaveEntry`
  (there are no viewers where there is no entry) makes the mapped initial and
  intermediate states agree; `StepOfPromise` takes the actions one by one.
* `HandlesHaveOwner` (`NoOrphanHandle`), which is inductive with the types.  It
  rests on the order of the steps: a handle is named by the entry before the `Add`
  lets go of it, and by `dropping` before the entry goes.  Nothing is assumed of the
  cache of metadata; without it a timed-out `Add` may meet an entry that names
  another handle, which is the second of the two exceptions.
* `LoadedSpared` (`EvictionSparesLoaded`), from `LookInv`: an entry that is there
  when the collector removes was registered after its check.

`LocalFilesProofs` proves of `LocalCache`, for any files, length of the queue
and capacity, type correctness (`CacheTyped`) and `ReadyWhole`
(`ReadyStaysWhole`).  It needs `NotReadyYet`: the file that the worker is
copying is not one that is marked ready, so the copy it truncates is never one a
reader was promised.  `QueuedCarried` is the safety part of `QueuedIsServed`: an
entry marked queued is in the queue, in the hands of the request that is about to
push it (or to withdraw it from a full queue), or with the worker that has just taken it, so
that under fairness it is served.

Of `LocalStream` it proves, for any requests, kinds of player and open files, type
correctness (`StreamTyped`), `HandlesKept` (`ReadersKeepHandle`) and `DirectHandlesClosed`
(`DirectHandlesEnd`).  `StreamInv` adds that a session has one user (`UsersApart`),
so that closing it takes it from nobody else, that what was not handed out is not
in use (`NewUnused`), and that only sessions of HLS are handed to the manager
(`PlaysInStep`).

`TransferDockProofs` proves, for any files, places and jobs and any number of
failures, cancellations and restarts, type correctness (`DockTypesHold`),
`CopiesKept` (`WholeCopyExists`) and `RowsLead` (`RowFindsFile`).  `DockInv` says,
for files whose transfers do not get in each other's way, that no other transfer
works on their places (`AloneApart`, `OwnPlaces`); for each state of a job, what
the disk, the row and the intent are (`JobInv`): its copy is its own while it is
written, the file has arrived once it was placed, a transfer to
where its file was finds nothing there, a completion or promotion is remembered
until it settles; and that no such file is at a
torn place (`Whole`), each is somewhere (`Somewhere`), and, unless it is `astray`,
its row names that place or a job is about to point it there (`RowLeads`).  A step of
a job keeps what is said of the others (`OthersKeep`, `OthersLead`), so each
action is treated for its own job.

The attempt found a gap that the instance was too small to show.  With three
places and four jobs a transfer can find another's file where its own row
points, take it for its own and move it away; `RowFindsFile` then fails for the
other.  `shared` now records such transfers.

`QueueProofs` proves of `Scheduler`, for any finite set of rows with any owners,
torrents and ids, any priorities, limits, aging and stalls:

* `TypesHold`, including that the rows in the queue are totally ordered by
  `queued_since`, however they come, go and move to the end (`LineToEnd`,
  `LineWithout`).
* `PlansAdmissible` (`PlanAdmissible`): what `schedulePlan` returns is a plan that
  `SlotPlan` admits.  The plan is computed by a recursive function over two
  sorted lists.  `SortedArranges` shows that sorting by a strict total order of a
  finite set lists every element once, in order, so each group has its turn once,
  incumbents first (`GroupsInTurn`); `WeakestFound` that a preemption finds the
  weakest of those it may stop.  `TurnKeepsPlan` is the induction step over the
  turns, with `PlanUpTo` as its invariant: after n turns the limits hold, no group
  that had its turn would fit (`StillNoRoom`), and what was displaced is weaker
  than what displaced it.  The induction itself (`UpTo`) needs no theorem with an
  operator as parameter: a set of turns for which the invariant failed would have
  a least member.  The order in which slots are given is carried along as
  `ServedUpTo`: a group that waits and got nothing at its turn was passed over for
  one of the two reasons the property admits.  Nothing in the proof counts the
  groups that download when the schedule is made, so it holds after a rescue or
  with a lowered limit as well: an incumbent that goes without its slot was
  displaced by a stronger group, or there were as many of its strength as slots
  (`Yielded`).
* `SchedulesDoNotThrash` (`NoThrash`), from `ScheduledTwice`: the rows that a
  schedule left downloading are in the next plan as well, unless somebody may preempt
  them.

The proof of `NoThrash` did not go through in an earlier form, which said that
nothing just started is stopped by the next tick.  That held only because the
instance has no limit per user: with a limit of one, a high row held back by its
user's slot gets room when another user's row preempts its sibling, and in the
next tick takes the slot from that one.  `NoThrash` now says what is true:  a slot
is taken back only for a strictly higher priority, and not at all without a limit
per user and with a bonus below a priority step.

Of `SourceRotation` it proves, for any rows, releases, tries, stalls and setbacks,
type correctness (`RotationTyped`, with `RotationInv`: a source that is not given
up has a try left, a row in the queue that no pause is under way for has a stall
left, counting one for each setback) and that a source which
was given up stays so (`GivenUpForGood`), which is what makes the sources run out.  `StallsRunOut` makes that a number:
`Budget` counts the tries left of all sources and the stalls left of all rows; each
stall spends some of it, and no step adds to it, neither a discovery nor a crash.
The stalls of a row are its limit and the bound on setbacks together: how long the
rotation lasts by itself does not depend on the indexer, but whoever resumes a row
again and again keeps it going.
Of `RotationSettles`, TLC's part is that the time between two stalls passes.

The hosts `MCServer`, `MCFiles` and `MCDownloads` are conjunctions of their
components, so that what is proved of a component holds of the specification that
TLC runs.  `ServerTyped`, `FilesTyped` and `DownloadsTyped` (`TypesOK`) collect the
components' type theorems that way.

Out of TLAPS's reach and checked by TLC only: `ENABLED`, and liveness
(`SleepersWake`, `AbandonedIsUnloaded`, `InactiveEndsSessions`, `QueuedIsServed`,
`NotStarved`, `RotationSettles`, `DownloadsTakenUp`, `MovesEnd`,
`PauseTakesEffect`, `DeletedForgotten`).  Every other property of a passing run,
that is every invariant, action property and refinement, is stated by a theorem.

## 5. Plan

Done: the limiter, the verification, the schedule, the worker, the lifetime of a
torrent with its abstract promise, the dock with file moves, the rotation, HLS
sessions, refresh tokens, the cache of slow mounts, the registry of local
streams and the watchlists.  Left, in this order:

1. That a schedule of `Scheduler` is a step which `DownloadWorker` allows
   (`PlansAdmissible` is proved of the plan alone).
2. `DownloadWorker` with the dock's bounded pool in place of its unbounded moves.
3. The drain before a shutdown (`transfer.WaitIdle`), the circuit breaker of the AI client.

## 6. Not modelled

Of the worker: what the files contain and where they go, AI renaming,
notifications, progress figures, linking of files downloaded before, in an init too
(`tryLinkExisting`, `worker_init.go:192`), seeding
of finished torrents at boot, the `movingStuckAfter` grace period (both maps of
the sweep always have the same keys, so that branch is not reached), resuming a
row that is already queued (it moves to the end of the line).  `DownloadWorker`
keeps a row's torrent fixed; rotation has its own module, with the queue and the
client reduced to what rotation sees of them.

Of the streamer: pausing and piece priorities, the window of pieces a reader
asks for, tracker scrapes, and two torrents of one name, which share their
protection and their directory.  Of the dock: rates, pruning of finished jobs,
promotions made from the Local tab.  Of transcoding: ffmpeg's arguments, which
segment a restart begins at, and the segment directory, so that the removal of a
directory under a session rebuilt from it is listed as a hazard and not checked.
Of authentication: passwords, second factors, OAuth's exchange, lockouts, and
access tokens, which are verified without the database.

Most of the repository is not of the kind a state machine says much about, and
that is why the map covers a small share of its lines: HTTP clients of Jackett,
TMDB, subtitle and lyrics services with parsers of their answers, pure functions
over release names, scans of directories, settings and migrations, handlers
that translate between HTTP and a single statement, and the pages of the web and
desktop clients.  `PROJECT.json` lists each with its reason.
