# A verification project for nano-snapshot-swarm

nano-snapshot-swarm distributes the Nano ledger snapshot over BitTorrent. A
*producer* host downloads the snapshot once a day, makes a hybrid torrent of it,
seeds it and publishes its v2 info hash as a signed mutable item (BEP 46) of the
DHT. *Mirrors* look that item up, fetch the snapshot it names and seed it on. A
*status API* shows what the producer last pushed to it.

The modules here are translated from the Python, shell and C++ sources (paths
below are relative to the repository's root). TLC checks them on small instances, and
TLAPS proves the central invariants for every instance. `PROJECT.json` lists
components, runs, findings, hazards, theorems and, for every definition that
models code, the lines it models.

## The system and its parts

| Part | State | Operations | What makes it correct |
|---|---|---|---|
| Mirror watcher (`mirror/watcher.py`) | the desired record, the active hash, three recheck flags, `_running`, `_stop_reason` | start, stop, signal handler; discovery loop, reconcile; monitor loop | it follows the newest record, never goes back, never writes one file from two torrents, checks the old archive before it fetches pieces, and stops when told |
| Reconcile (`mirror/reconcile.py`) | none | `reconcile_snapshot` | the decision agrees with record and session |
| Session wrapper (`mirror/libtorrent_session.py`) | the handles, a list of alerts shared by waiting threads | add, pause, resume, recheck, remove, poll; DHT lookup | calls race with libtorrent and with each other |
| DHT discovery (`mirror/dht_discovery.py`) | none | a lookup with three attempts | it returns a verified record that is not below the one known |
| Mirror state files (`mirror/state.py`) | `mirror_state.json`, `snapshot-meta.json` | load, update, set the phase | a clean stop keeps what was followed, and whatever a crash leaves is recovered from |
| Seeder (`producer/seeder.py`) | the session's torrents, current hash, verification state; `publisher_state.json`, `seeder-stats.json` | start, SIGHUP reload, publish, read back, record, report, republish | what it records is what the DHT holds, and never an earlier snapshot |
| DHT publication (`producer/dht_put_helper.cpp`, `dht_put.py`) | none of its own | look up, sign the next sequence, put; select the verified read-back | as above |
| Publication by hand (`producer/publish.py`, `cli.py`) | writes the same `publisher_state.json` | make the torrent, publish with retries, read back, save | as above, beside the seeder |
| Pipeline (`scripts/daily-snapshot.sh`) | `snapshot-meta.json`, the canonical symlink and torrent | early exit, download, retain, link, write metadata, make the torrent, reload, wait | a cut run is taken up or is harmless, and a run that succeeds has published |
| Retention (`producer/retention.py`) | `retained/<hash>/` | retain and prune, list pairs | a retained pair is an archive and its own torrent |
| Status push (`producer/push_status.py`) | none | read the state, read the torrent, sign, send | what it announces matches |
| Status API (`status-api/app/main.py`) | the status and torrent in memory, `status.json`, `torrent.bin`, named torrents | load, push, save, read routes | acknowledged pushes survive, readers never go back, links resolve |
| Recovery watchdog (`scripts/check-seeder-recovery.sh`) | timestamps and a pending-push marker | check, restart, push | it restarts a sick seeder, not too often |
| The rest | | metrics, progress log, BEP 46 encoding and identities, fixtures, operator scripts | no state that another part depends on |

How they interact: the pipeline writes files and sends a SIGHUP; the seeder reads
those files and answers through its statistics and `publisher_state.json`, which
the pipeline polls and the status push reads; seeder and mirrors meet only in the
DHT and the BitTorrent swarm; the push and the status API over HTTP. Inside the
mirror three threads share attributes without a lock (the one lock,
`_reconcile_lock`, is only taken by the code that discovers and reconciles), and
libtorrent acts on its own.

What is hard: the mirror's monitor samples a state machine every 5 s and acts on
handles the other thread removes; processes die between two writes of files that
another process reads; the DHT loses, forgets and returns old items; pushes are
retried and replayed. `PROJECT.json` lists these as hazards, each at its line.

## Modules

| Module | What it is |
|---|---|
| `SnapshotFollower` | what a mirror promises: one record, one transfer, never back |
| `MirrorWatcher` | the mirror service: main thread, driver, monitor, session |
| `MCMirrorWatcher` | its instances for TLC |
| `MirrorWatcherProofs` | its theorems |
| `StatusBoard` | what the status API promises its readers |
| `StatusApi` | the status API, its files and its save |
| `MCStatusApi` | its instance |
| `StatusApiProofs` | its theorems |
| `SnapshotLookup` | what a discovery promises the mirror |
| `DhtLookup` | the discovery: attempts, the alert list, late responses, the selection |
| `DhtLookupProofs` | its theorems |
| `MCDhtLookup` | its instance |
| `MirrorStateFile` | the mirror's record, its file, and the threads that rewrite it |
| `MirrorStateFileProofs` | its theorems |
| `MCMirrorStateFile` | its instance |
| `SnapshotProducer` | the producer's host: pipeline, seeder, and a DHT whose lookups may miss what it holds |
| `SnapshotProducerProofs` | its theorems |
| `PublisherState` | `publisher_state.json` between the seeder and a publication by hand |
| `PublisherStateProofs` | its theorems |
| `SeederRecovery` | the watchdog that restarts a sick seeder |
| `SeederRecoveryProofs` | its theorems |
| `StatusChain` | `SnapshotProducer` and `StatusApi`, joined by the request of the push |
| `StatusChainProofs` | its theorems |

`SnapshotLookup` is where the mirror's modules meet: `MirrorWatcher` and `MirrorStateFile`
adopt any record it allows, and `DhtLookup` implements it. `StatusChain` has the state
and every action of the two modules it joins, and the push and a DHT that forgets besides.

### MirrorWatcher

*Actors.* `main` is `start()`, its wait and `stop()`. The *driver* is the code that
discovers, adopts a record and reconciles: the main thread runs it first (and
throughout in leech mode), then the discovery thread; it is one thread at a time,
which is why one label suffices. The *monitor* is `_monitor_active_torrent_loop`.
*session* is libtorrent, known from `src/` only by what the calls and polls observe;
its actions are marked external.

*Granularity.* A label is the next statement that another actor can tell from its
neighbours. So `_apply_reconcile_decision` is ten labels (pause, remove, clear,
ensure, track, the three flag assignments, recheck, settle), and
`_begin_recheck_after_metadata` and `_resume_after_recheck` are split at their
calls. `gone` says that the tracked handle was removed since the monitor's last
statement: only then can a libtorrent call on it raise.

*What raises.* A lookup (`DiscoverFails`), the two writes after a record was adopted in memory
(`AdoptFails`, `mirror/watcher.py:402-411`), a statement of the `try` block of a reconcile (`ReconcileFails`,
before or after the new torrent is active), a call or a write of the monitor (`MonitorFails`), and the phase
that each handler writes itself (`ThreadRecovers`, `HandlerFails`, `MonitorDies`). `lapse` is not in the code: it
says that an exception has left the adopted record unreconciled, or ended discovery. The code never recovers
from that by itself (*Seen while modelling*), and the properties that except it say so by that name.

*Inputs.* `Signed` is the set of records the producer's key signed. A lookup returns
any of them that passes the staleness test, none, or raises. This includes the
sequence the mirror already follows under another hash: `_set_desired_snapshot`
accepts an equal sequence with a different hash (`mirror/watcher.py:368-371`), which
`docs/public-beta-runbook.md:44` does not mention ("On a higher sequence"). The
instances let a producer sign each sequence once, as the helper does while its lookups find the item.

*Abstractions.* Times are left out: a poll or a cycle may come at any moment.
Metadata and resume data are sets of hashes. Libtorrent's queue may start a paused torrent at any time
(`QueueStartsTorrent`), because every torrent is added auto-managed (`mirror/libtorrent_session.py:279-281`);
nothing says that it will.

### DhtLookup

The *caller* is the thread inside `discover_latest_snapshot`: `clear`, `get`, `wait` and
`judge` are the statements of one attempt (`mirror/libtorrent_session.py:522-544`,
`mirror/dht_discovery.py:56-89`). `AlertLoop` is the alert thread together with the
alert it copies. The order of `self._alerts` plays no part, for the caller takes all
alerts that match and selects by sequence, so the list is the set of its items and one bit
for "an alert in it is authoritative". `open` counts the requests under way by what every node
had reached when they were made: a request that was given up is not cancelled, and its answer may reach
a later lookup. `clear_alerts` empties the list, not what is on its way. `since` is not in the code; it
records which requests may answer the lookup, so that `FreshAnswer` can say how old an answer can be.

### MirrorStateFile

A save (`mirror/state.py:83-91`) is four steps: the two attributes are read into the dict one
after the other, `write_text` truncates the file, and closing it writes the content. Between any
two of them the other threads, a crash or a failing write may come. A write into a file
that another thread has written since it was truncated gives the content, or the
content with the tail of a longer one: `Garbled`, which `json.loads` refuses. `Raise` is the handler
of each thread, which saves the phase `error` itself. The reconciliation is one
assignment here. Phases are left out, but every save for a phase is there (`SetPhase`).

### SeederRecovery

The script is stateless but for three files. Its exits are the actions `CheckReady`, `CheckFiles`,
`BecomesSick` and `Recover`; a restart and a push are a sequence of labels, and
`Killed` cuts them anywhere. Time is counted in the timer's 5 min, and timestamps are kept as ages, capped
where no test of the script tells them apart. Of the seeder it knows what the script knows: whether
the service is active, and the kind and age of `seeder-stats.json`, which change freely. `restarted`,
`seenHealthy` and `owed` are not in the code and record what the properties speak of.

### StatusApi

`_state_lock` makes a push one sequence of statements, so `save` is the one label,
and a crash or a failed write may cut it anywhere. A push is a record
`[seq, hash, bytes, time]`; the torrent of hash `h` is written `h`, the bytes need be neither that torrent nor
any, for the API does not compare them, and the payload's
digest is the whole record. `NoFile` is a file that does not exist, `NoBytes` an empty one.
`acked` is not in the code: it is the highest sequence
some sender was told is stored. `Crash` keeps the values of memory because readers
have seen them; `Start` overwrites them with what the files hold. Both files are taken to be readable then: the
branches for an `OSError` or bad JSON at the start (`status-api/app/main.py:75-76`, 82-83) are left out.

### SnapshotProducer

Snapshots are numbered as upstream publishes them, and a snapshot, its archive and
the hash of its torrent are written with its number. (The hash depends on the
archive and its name only: `producer/torrent_create.py:33-36`.) A pipeline run is ten steps
from `retain` to `wait`, each one file or signal; the torrent file is opened, which empties it (`Torn`), and then
written. `PipelineDies` cuts a run at any of
them, and in the middle of writing the metadata. The seeder is the sequence load,
put, read back, record, report, with `starting` for its first pass in `main()`; loading is
one step because hashing a torrent takes minutes longer than reading the two files. A load finds nothing to load
(`LoadFails`) or raises half-way (`LoadAborts`: `add_torrent` fails or there is no handle, `producer/seeder.py:262-298`),
when the previous torrent may have left the session and the request is cleared already.
`net` is what the DHT's nodes hold. The helper's lookup finds any sequence of it or none (`Found`), and the put signs the
next one; it reaches the nodes or not whatever the helper reports; the
read-back finds the exact hash at or above the sequence put, or times out. Dying
loses what the process held and keeps the files. `faults` counts deaths and loads that raised.

### PublisherState

The two publishers share their steps up to the read-back (`LookUp`, `Complete`, `Unanswered`, `ReadBack`) and differ in
what follows. The seeder reads the file, then replaces it by a rename. The publication by hand reads the revision
when it begins and opens the file for writing when it ends, which truncates it; what it then writes goes to
the file it opened, and `detached` says that the seeder has replaced that one. Both look the item up before
they sign, the seeder in its helper and the publication by hand in libtorrent's convenience put, which may sign a stale
sequence (`producer/dht_put_helper.cpp:3-7`): either may miss any item. Either may die: the seeder's deaths are in
`SnapshotProducer`, those of the publication by hand are here.

### StatusChain

`StartPush` reads the publisher's state and `Send` makes the payload: sequence and hash read before, the torrent
file read now: all of it, a part or nothing, when it is being written. `request` is the one in flight; it may be lost or received after the host has moved on.
`published` (all that the DHT has held) is not in the code. `Forget` drops the items while no seeder republishes them.

## Runs

| Run | Shows | Bounds and states |
|---|---|---|
| `mirror_safety` | `OneTransfer`, `Reconciled`, `LeechDelivers`; the mirror implements `SnapshotFollower` | 3 hashes, 4 records (one sequence repeats a hash, so there are two replacements and a refresh), both modes, one silent cycle, any statement that may raise raising as often as it likes; 3.5 million |
| `mirror_progress` | `FollowsNewest`, `ShutdownCompletes` | 2 hashes, 2 records, the same failures; 0.3 million |
| `mirror_stale_flags` | `ResumesAfterCheck` fails | 3 records: two replacements |
| `status_safety` | `AcknowledgedIsShown`, `RedirectResolves`; implements `StatusBoard` | 2 hashes, 9 pushes: refreshes, a sequence signed for two hashes, a return to the first hash, the other snapshot's torrent, an empty one; 12.8 thousand |
| `dht_lookup` | `FreshAnswer`, `DiscoveryReturns`, `NewestFound`; implements `SnapshotLookup` (`PromiseKept`) | 3 signed items, two of one sequence, and one that does not verify; 2 attempts, 1 late or lost answer; 156 thousand |
| `state_file` | `CleanStop`, `Converges` | 2 records, 1 death, 1 failing write; 0.6 million |
| `producer_progress` | `CanonicalPair`, `RetainedPairs`, `StatePublished`, `StateNeverEarlier`, `SuccessMeansPublished`, `PublishesUpstream` | 3 snapshots, retention 1, 3 sequences, 1 fault (a death or a load that raises); 0.2 million |
| `producer_lost_reload` | `ReloadSatisfied` fails | 2 snapshots, no fault |
| `recovery` | `OwedIsPending`, `RestartSpacing`, `OnlyPersistentFailure`, `SickIsRestarted`, `OwedIsPushed` | the default periods, 2 kills; 0.13 million |
| `publisher_state` | `RecordedWasHeld`, `SeederPrevails` | 2 torrents, 1 publication by hand with 2 attempts, 1 reload, 3 sequences, 1 death; 0.2 million |
| `status_chain` | `ShownWasPublished`, `NeverOlderTorrent` | 2 snapshots, 2 sequences, a DHT that forgets, any crashes of the API, no fault on the host; 2.3 million |
| `chain_mixed_push` | `RouteGivesItsHash` fails | 2 snapshots, no fault |

*Why the bounds are enough.* The mirror's hazards need an old torrent, a new one and
a third that comes while the second is rechecked: three hashes. The status API
compares a push with one stored push. The producer needs a snapshot to retain, the
one that replaces it and one that comes before that is finished; one fault puts a
cut at every step. The theorems are about any number.
`MaxSeq` caps the DHT's sequence; `Spare` keeps one for every snapshot to come, so the
cap never stops a publication that liveness speaks of. `status_chain` needs two
snapshots, for a push that mixes them, and a second item of one sequence, which a lookup that missed
the first, or a DHT that has forgotten it, gives it; deaths on its host are left to the theorems, which have any number. A lookup needs two attempts for one to find what the other left,
and one late answer; more of either only repeats this. `state_file` needs one failure:
with two in a row the discovery thread dies (below), with none the handlers never run. In
`recovery` the periods are those of the defaults (900 s, 600 s and 3600 s in units of the timer's 5 min), so the
bounds are the program's own, and two kills may cut a restart and its repetition. `publisher_state` has one
publication by hand beside a seeder that republishes as often as it likes, two attempts so that one may be repeated, and
three sequences: `Spare` and `Last` leave the last of them to the seeder. `MissLimit`
stands for `download_timeout`. The runs of the other modules turn deadlock checking off, for the
bounds stop them when there is nothing new; the mirror has an explicit
`Terminated` step instead.

*Fairness.* Threads that are not blocked run (`WF` of the main thread, the driver, the
monitor); libtorrent makes a check that was asked for. Nothing is assumed of
signals, peers or the DHT in `ShutdownCompletes`. `FollowsNewest` assumes that lookups
which keep completing give the newest record now and then, and that its adoption then does not fail for ever
(`SF` of `Discover`). For the producer:
the timer runs the pipeline, systemd restarts the seeder, both take their steps
(`WF`), and among the publications tried again and again some have a lookup that finds the highest item, are accepted (`TakenPut`), read back and
recorded (`SF`), which the republish and retry intervals give them the chance to be. In
`dht_lookup` the threads run, the newest item reaches every node, and among the traversals that
end again and again some end with an item that verifies; a given lookup is promised nothing. In `state_file`
the container is restarted, the threads run (`WF`), and lookups give the newest record now and then (`SF`),
which is `NewestFound` of `DhtLookup`. In `recovery` time passes, the timer runs the script, and a restart or a push that is
tried again and again succeeds in the end. In `publisher_state` both processes run (`WF`), and the lookup, the put and the read-back
that the seeder tries again and again find the highest item, are taken, and find that, in the end (`SF`).

## What the checks found

Each is a `violation` run; the counterexample is a behaviour of the code.

1. *Stale recheck flags* (`mirror_stale_flags`). `_recheck_after_metadata` names the new hash before the two
   other flags are reset (`mirror/watcher.py:463-465`), and a second replacement that comes while the first is rechecked
   finds both set: a poll in between resumes it although its files were not checked.
   `docs/mirror-swarm-mode.md:165-167` promises the recheck for every replacement.
2. *Lost reload* (`producer_lost_reload`). A SIGHUP in the seeder's start is cleared even
   if the start read the old files. The pipeline times out, and its next run exits
   early because the metadata names this snapshot.
3. *Mixed push* (`chain_mixed_push`). The hash of the published snapshot goes out with
   the torrent file of the one being prepared. The status API does not compare
   them, and keeps the file under the immutable route of the announced hash. The right
   torrent of that sequence is then refused with 409.

## Seen while modelling

Behaviours of the code that the models have and no run is about. Where a definition is named, TLC gives a
counterexample to it on the instance named.

* *Removed handle.* A replacement that removes the torrent under the monitor's call
  (`mirror/watcher.py:439`, 676) stops the service with an error: `SurvivesReplacement` with `TwoRecords`.
* *Retained torrent over the symlink.* After an update the previous torrent stays where it is in the
  session, over a name that is now the new archive (`producer/seeder.py:278`): `SeedsItsArchive` as `producer_lost_reload`.
* *Record without a torrent.* The record is stored in memory before two files are
  written and before the reconciliation (`mirror/watcher.py:402`). If a write raises, the reconciliation is skipped, and the
  next discoveries take the record for known: the old torrent stays until a restart or a newer record, which is not what
  `docs/public-beta-runbook.md:44` says: `AdoptedIsActivated` as `state_file`, without a death.
* *Publisher race.* A publication by hand that was read back first may be saved last, or the other way round, and
  `publisher_state.json` goes back to an older sequence until the seeder publishes again, whereas `docs/producer-guide.md:354-356`
  says that the dashboard cannot be advanced by a publisher race: `NoPublisherRace` as `publisher_state`, without a death.
* *Cut save.* A publication by hand that is killed between truncating `publisher_state.json` and writing it
  (`producer/publish.py:35`) leaves an empty file. `json.load` refuses it in the seeder, in the push and in the next publication by
  hand, so none of them repairs it: `DashboardKeptCurrent` as `publisher_state`.
* *Sequence reset.* The sequence a put signs comes from one lookup. When that misses the item, or after the DHT has forgotten it,
  the sequence begins again at 1, below what mirrors and the status API hold (`producer/dht_put_helper.cpp:116`, 193), and
  so may the one in `publisher_state.json`. What does not go back is the snapshot it names (`StateNeverEarlier`).
* *Missed check.* The end of a recheck is inferred from polls 5 s apart (`mirror/watcher.py:536-549`). A check that begins and ends
  between two of them (an empty or small data directory) is never seen, and the monitor never resumes the replacement;
  whether it stays paused is then up to libtorrent's queue.
* *Aborted reload.* When a reload raises (`producer/seeder.py:471-472`) its request is cleared already and nothing makes it again: the
  snapshot is not published before the seeder is restarted or another one comes. Meanwhile the old hash is announced on, though its
  torrent may have left the session, and the statistics are not rewritten. `PublishesUpstream` says that a later snapshot gets through.
* *Torn torrent.* `torrent_create.py:66` empties the torrent file before it writes it. A push in between sends nothing
  or a part, and the status API stores it under the announced hash.
* *Lost threads.* When the handler of a failed reconcile, discovery cycle or poll cannot write the state file either
  (`mirror/watcher.py:478`, 336, 677), the exception ends its thread and nothing notices: a swarm goes on
  without discovery or without a monitor, and a leech whose monitor is gone waits for ever. With two failing writes in a row
  `Converges` fails, too (as `state_file` with `MaxFailures = 2`).
* A run cut between writing the hash and the reload is not taken up by the next run (finding 2 is one way to
  get there), so `PublishesUpstream` is about snapshots whose hash is not in the metadata yet.
* A crash of the status API between its renames may leave the torrent of the previous push under the new hash, and the
  retry of that push is then refused with 409. This is why `NeverOlderTorrent` is about the request and not about the route.
* A leech that resumes its data may report success before the forced recheck begins (`mirror/watcher.py:459` comes
  before 471), which is why `LeechDelivers` is about a newly adopted record.
* Two publishers may sign one sequence for two torrents. Mirrors that hold one keep it until the seeder's
  next republication has a higher one, which is why `SeederPrevails` is about the highest sequence.
* The revision `last_seq` can be used twice: the publication by hand writes the revision it read when it began plus one.
* The pipeline's 360 s are less than bootstrap, helper and read-back may take together.
* Two saves that overlap may leave `mirror_state.json` with the tail of a longer one, or with a sequence and the
  hash of another record. `Converges` says that a restart recovers from either.
* A check of the watchdog that ends early (no disk, service inactive) leaves `unhealthy-since`, so the time counts
  although nobody looked; `docs/configuration.md:119` says "continuous". Statistics of the process before
  a restart that are still fresh can trigger the pending push.

## What is proved

For every set of hashes, records, pushes and every number of snapshots, under the named
assumptions on the constants in the modules. Every safety property that a passing run checks is a
theorem.

* `MirrorWatcherProofs`: `TypeOK`, `OneTransfer`, `Reconciled`, and that
  `MirrorWatcher` implements `SnapshotFollower`, with every statement that may raise. `Reconciled` is not inductive: it speaks of
  the driver at rest. The strengthening has two parts, `Held` (which handles the session may
  have at each label, whatever raised there) and `Targeted` (how active hash, record and decision
  agree at each label, unless the record has lapsed). The refinement maps
  `Discover` and `AdoptFails` to `Adopt`, `Ensure` to `Begin` and `RemoveOld` to `GiveUp`.
* `LeechDelivers`, there too. `LeechPath` follows the one pass of `_run_once` (nothing is replaced, the
  monitor starts last), and `Reported` says that what the monitor saw of the torrent is still true when it judges it and
  when the main thread reads the reason it gave.
* `StatusApiProofs`: `TypeOK`, `AcknowledgedIsShown`, `RedirectResolves`, and that `StatusApi`
  implements `StatusBoard`, whatever bytes the pushes carry. The invariant says that
  `status.json` follows what memory shows, and the push being saved follows the file.
* `SnapshotProducerProofs`: `CanonicalPair`, `RetainedPairs`, `StatePublished` and `SuccessMeansPublished`, for any number of deaths and of loads that raise.
  `RetainedPairs` rests on `SetAside`: with retention, the snapshot the metadata names is
  the canonical archive or is the newest retained pair, and is the latter before
  the symlink moves, so that what a cut run leaves is not retained as a pair. `StatePublished` rests on `KnownHeld` (what
  the seeder read back and is about to record is in the DHT), and `SuccessMeansPublished` on it and on the run having a target.
* `TypeOK`, there too. That at most one pair is over the retention count is not inductive:
  `RetainedBounded` adds that the one is the pair the metadata names (`Aside`), so that the run after a cut one finds it and adds
  none.
* `StateNeverEarlier`, there too. Nothing can be said of the sequences, so it rests on `InOrder`: what is recorded is no later
  than the torrent the seeder has, and that no later than the torrent it will load, because the archive and the torrent file only go
  forward (`StaysNotAfter`), a load takes a torrent that is whole (`CurrentIsTorrent`), and the seeder publishes with a torrent only (`Busy`).
* `DhtLookupProofs`: `TypeOK`, `FreshAnswer`, and that `DhtLookup` implements `SnapshotLookup` (`PromiseKept`). The
  invariant says that every request under way while the caller looks is counted in `since` (`Counted`), and that
  what the alert list and the candidates hold of signed items is recent (`AllRecent`), late answers included.
* `MirrorStateFileProofs`: `TypeOK` and `CleanStop`. Once the threads have come back (`Alone`), only the main
  thread writes: `LastSave` follows its save from reading the attributes to the file.
* `SeederRecoveryProofs`: `TypeOK`, `OwedIsPending`, `RestartSpacing`, `OnlyPersistentFailure`, for any periods. The invariant relates
  the three files to what happened at each label: `Written` (what a cut script has written), `StampedAfter` (no restart
  is younger than its timestamp), `Apart`, `SickAfter` and `LongSick` (why a restart under way was due).
* `StatusChainProofs`: `ShownWasPublished` and `NeverOlderTorrent`, with deaths on both hosts and lost requests. `HostHeld` and `ApiHeld`
  say that every place from the DHT to the dashboard holds what the DHT has held, which is `StatePublished` for a DHT that forgets;
  `NotLater` says that no hash on the way is later than the archive, nor than the torrent file unless it is torn.
* The composition, there too: `ChainRunsApi` says that the chain's API is `StatusApi`. Its point is that every request
  the host makes of its changing files is a push that `StatusApi` allows (`Sendable`: a hash that was put has a torrent, and a
  sequence from 1 on, `Numbered`). Hence `DashboardKeepsPromises`: `StatusApiProofs` is instantiated, its assumptions are
  proved of the chain's payloads, and `BoardSpec`, `AcknowledgedIsShown` and `RedirectResolves` hold of the two hosts together,
  also when the DHT forgets and the sequence begins again.
* `PublisherStateProofs`: `TypeOK` and `RecordedWasHeld`. Whoever saves has found what it saves (`AboutToRecord`), because neither its
  torrent nor its sequence changes between the read-back and the save. `TypeOK` needs that who is about to put has signed (`Signed`),
  that there is an attempt (`AttemptsAssumption`; the code has three) and that an empty file is no record (`EmptyAssumption`).

The inductive invariants were checked with TLC before they were proved, where the instances allow it.

Only model-checked: everything temporal beyond safety (`ShutdownCompletes`, `FollowsNewest`,
`PublishesUpstream`, `DiscoveryReturns`, `NewestFound`, `Converges`, `SickIsRestarted`, `OwedIsPushed`, `SeederPrevails`), which is out of the
prover's reach.

## Not modelled

Signatures, encodings, HTML, metrics and logs; time (a timeout may come at any point
where the code waits); piece-level transfer; leech extraction; the seeder's fallback
publisher without `DHT_PUT_HELPER` (the systemd unit sets it); a put with the same key from another host; a
death of the seeder beside a publication by hand; a `status.json` or `torrent.bin` that cannot be read when the status API starts.

## Plan

Done: every module listed above, and a theorem for every safety property that a passing run checks. Next, in this order:

1. The seeder's deaths in `PublisherState`.
2. Files that cannot be read at the start of the status API.
