-------------------------- MODULE SnapshotProducer --------------------------
(***************************************************************************)
(* The producer's host: the hourly pipeline (scripts/daily-snapshot.sh)    *)
(* and the long-lived seeder (producer/seeder.py) with the DHT helper it   *)
(* runs (producer/dht_put_helper.cpp), which share files and a signal:     *)
(*                                                                         *)
(*   pipeline --snapshot-meta.json, archive, .torrent, SIGHUP--> seeder    *)
(*   seeder --seeder-stats.json, publisher_state.json--> pipeline          *)
(*                                                                         *)
(* The DHT keeps what it was given here, as it does while a seeder         *)
(* republishes, but its nodes hold different items and a lookup may miss   *)
(* any of them; StatusChain has a DHT that forgets, and the status push.   *)
(*                                                                         *)
(* Upstream's snapshots are numbered 1, 2, ... as they appear; a snapshot, *)
(* its file name, its archive and the v2 hash of its torrent are written   *)
(* with its number, and 0 stands for none.  Downloads are complete or the  *)
(* pipeline ends before it touches anything modelled here.                 *)
(***************************************************************************)
EXTENDS Naturals, Sequences, FiniteSetsExt

CONSTANTS
  Snapshots,   \* how many snapshots upstream publishes (a bound)
  Retention,   \* SNAPSHOT_RETENTION_COUNT
  MaxSeq,      \* the DHT sequences explored (a bound)
  MaxFaults    \* processes killed and loads that raise (a bound)

ASSUME SnapshotsAssumption == Snapshots \in Nat \ {0}
ASSUME BoundsAssumption == MaxSeq \in Nat /\ MaxFaults \in Nat
ASSUME RetentionAssumption == Retention \in Nat

VARIABLES
  upstream,   \* the latest snapshot upstream
  meta,       \* snapshot-meta.json: its file name and torrent_info_hash
  stable,     \* the archive behind nano-ledger-snapshot.7z
  torrent,    \* nano-ledger-snapshot.7z.torrent: whose, or Torn
  retained,   \* the retained pairs, newest first
  pipeline,   \* the pipeline's next step
  target,     \* the snapshot it processes
  seeder,     \* the seeder's next step
  starting,   \* whether it is still in main() before its loop
  reload,     \* reload_requested
  current,    \* current_info_hash
  session,    \* where its session finds the data of each torrent it seeds
  verified,   \* dht_verified
  known,      \* last_dht_sequence
  put,        \* the sequence of the put it waits to read back
  stats,      \* seeder-stats.json
  net,        \* the mutable items the DHT's nodes hold
  state,      \* publisher_state.json: last_dht_seq and last_info_hash
  faults      \* processes killed, and loads that raised, so far

fileVars     == <<meta, stable, torrent, retained>>
pipelineVars == <<pipeline, target>>
seederVars   == <<seeder, starting, current, session, verified, known, put, stats>>
vars == <<upstream, fileVars, pipelineVars, seederVars, reload, net, state, faults>>

Snapshot == 1 .. Snapshots
SnapshotOrNone == 0 .. Snapshots
Torn == Snapshots + 1   \* a file that is empty or ends early
Item == [seq : 0 .. MaxSeq, hash : SnapshotOrNone]
NoItem == [seq |-> 0, hash |-> 0]
NoMeta == [name |-> 0, hash |-> 0]
Pair == [name : Snapshot, archive : Snapshot, torrent : Snapshot]

PipelineLabels ==
  {"idle", "retain", "prune", "link", "meta", "torrent", "bytes", "hash", "reload",
   "wait"}
SeederLabels ==
  {"down", "load", "put", "readback", "record", "started", "report", "rest"}

(* Every file and attribute holds a value of its kind; a put awaits its    *)
(* read-back only while the seeder is publishing.                          *)
TypeOK ==
  /\ upstream \in Snapshot
  /\ meta \in [name : SnapshotOrNone, hash : SnapshotOrNone]
  /\ stable \in SnapshotOrNone /\ torrent \in SnapshotOrNone \cup {Torn}
  /\ retained \in Seq(Pair) /\ Len(retained) <= Retention + 1
  /\ pipeline \in PipelineLabels /\ target \in SnapshotOrNone
  /\ seeder \in SeederLabels
  /\ starting \in BOOLEAN /\ reload \in BOOLEAN /\ verified \in BOOLEAN
  /\ current \in SnapshotOrNone
  /\ session \in [Snapshot -> {"none", "canonical", "retained"}]
  /\ known \in 0 .. MaxSeq /\ put \in 0 .. MaxSeq
  /\ stats \in [hash : SnapshotOrNone, verified : BOOLEAN, seq : 0 .. MaxSeq]
  /\ net \subseteq Item
  /\ state \in Item
  /\ faults \in 0 .. MaxFaults
  /\ pipeline = "idle" <=> target = 0
  /\ put # 0 => seeder \in {"readback", "record"}

(* A new host. *)
Init ==
  /\ upstream = 1
  /\ meta = NoMeta /\ stable = 0 /\ torrent = 0 /\ retained = <<>>
  /\ pipeline = "idle" /\ target = 0
  /\ seeder = "down" /\ starting = FALSE /\ reload = FALSE /\ current = 0
  /\ session = [h \in Snapshot |-> "none"]
  /\ verified = FALSE /\ known = 0 /\ put = 0
  /\ stats = [hash |-> 0, verified |-> FALSE, seq |-> 0]
  /\ net = {} /\ state = NoItem
  /\ faults = 0

-----------------------------------------------------------------------------
(* The world. *)

NewUpstream ==
  /\ upstream < Snapshots
  /\ upstream' = upstream + 1
  /\ UNCHANGED <<fileVars, pipelineVars, seederVars, reload, net, state, faults>>

-----------------------------------------------------------------------------
(* The pipeline, one instance at a time by its lock file. *)

PipelineStep(from, to) == pipeline = from /\ pipeline' = to /\ UNCHANGED target

(* Mutant of Unchanged: the file name alone decides. *)
UnchangedByName == stable # 0 /\ meta.name = upstream

(* The early exit: this snapshot has its torrent already. *)
Unchanged == stable # 0 /\ meta.name = upstream /\ meta.hash # 0

(* A run with something to do resolves upstream and downloads its archive. *)
StartPipeline ==
  /\ pipeline = "idle" /\ ~Unchanged
  /\ pipeline' = "retain" /\ target' = upstream
  /\ UNCHANGED <<upstream, fileVars, seederVars, reload, net, state, faults>>

(* The metadata names a torrent, whose pair is there. *)
Loadable == meta.hash # 0 /\ stable # 0 /\ torrent # 0

RetainedNames == {retained[i].name : i \in DOMAIN retained}

RetainPair ==
  retained' = <<[name |-> meta.hash, archive |-> stable, torrent |-> torrent]>> \o retained

(* Mutant of Retain: an existing pair is made again. *)
RetainAgain ==
  /\ Loadable
  /\ PipelineStep("retain", "prune")
  /\ IF Retention > 0 THEN RetainPair ELSE UNCHANGED retained
  /\ UNCHANGED <<upstream, meta, stable, torrent, seederVars, reload, net, state, faults>>

(* retain_current_snapshot: the pair the metadata names is linked aside    *)
(* under its hash, unless that directory exists.                           *)
Retain ==
  /\ Loadable
  /\ PipelineStep("retain", "prune")
  /\ IF Retention > 0 /\ meta.hash \notin RetainedNames
       THEN RetainPair ELSE UNCHANGED retained
  /\ UNCHANGED <<upstream, meta, stable, torrent, seederVars, reload, net, state, faults>>

(* Without such a pair it is not called at all. *)
RetainNothing ==
  /\ ~Loadable
  /\ PipelineStep("retain", "link")
  /\ UNCHANGED <<upstream, fileVars, seederVars, reload, net, state, faults>>

(* Then all but the newest pairs are removed. *)
Prune ==
  /\ PipelineStep("prune", "link")
  /\ retained' = IF Len(retained) > Retention THEN SubSeq(retained, 1, Retention)
                                              ELSE retained
  /\ UNCHANGED <<upstream, meta, stable, torrent, seederVars, reload, net, state, faults>>

(* The stable name is pointed at the new archive. *)
Link ==
  /\ PipelineStep("link", "meta")
  /\ stable' = target
  /\ UNCHANGED <<upstream, meta, torrent, retained, seederVars, reload, net, state,
                 faults>>

(* Mutant of WriteMeta: the hash of the previous torrent is kept. *)
WriteMetaKeepsHash ==
  /\ PipelineStep("meta", "torrent")
  /\ meta' = [meta EXCEPT !.name = target]
  /\ UNCHANGED <<upstream, stable, torrent, retained, seederVars, reload, net, state,
                 faults>>

(* Mutant of WriteMeta: the hash is written before its torrent. *)
WriteMetaWithHash ==
  /\ PipelineStep("meta", "torrent")
  /\ meta' = [name |-> target, hash |-> target]
  /\ UNCHANGED <<upstream, stable, torrent, retained, seederVars, reload, net, state,
                 faults>>

(* The metadata of the new archive, without a torrent as yet. *)
WriteMeta ==
  /\ PipelineStep("meta", "torrent")
  /\ meta' = [name |-> target, hash |-> 0]
  /\ UNCHANGED <<upstream, stable, torrent, retained, seederVars, reload, net, state,
                 faults>>

(* cli publish --defer-dht-publish opens the torrent file, which empties it, *)
OpenTorrent ==
  /\ PipelineStep("torrent", "bytes")
  /\ torrent' = Torn
  /\ UNCHANGED <<upstream, meta, stable, retained, seederVars, reload, net, state,
                 faults>>

(* and writes the torrent of the archive to it. *)
CreateTorrent ==
  /\ PipelineStep("bytes", "hash")
  /\ torrent' = stable
  /\ UNCHANGED <<upstream, meta, stable, retained, seederVars, reload, net, state,
                 faults>>

WriteHash ==
  /\ PipelineStep("hash", "reload")
  /\ meta' = [meta EXCEPT !.hash = torrent]
  /\ UNCHANGED <<upstream, stable, torrent, retained, seederVars, reload, net, state,
                 faults>>

(* The seeder's process begins, if there is something to seed. *)
Boot ==
  /\ seeder = "down" /\ stable # 0 /\ torrent # 0
  /\ seeder' = "load" /\ starting' = TRUE
  /\ UNCHANGED <<current, session, verified, known, put, stats, reload>>

(* An active seeder is sent SIGHUP, another one is started. *)
RequestReload ==
  /\ PipelineStep("reload", "wait")
  /\ \/ Boot
     \/ seeder # "down" /\ reload' = TRUE /\ UNCHANGED seederVars
  /\ UNCHANGED <<upstream, fileVars, net, state, faults>>

(* Mutant of Confirmed: the files are not compared with the snapshot. *)
ConfirmedOfAny == stats.verified /\ stats.seq = state.seq /\ state.hash # 0

(* What wait_for_authoritative_seeder reads in the two files. *)
Confirmed ==
  /\ stats.hash = target /\ stats.verified
  /\ stats.seq = state.seq /\ state.hash = target

EndPipeline == pipeline' = "idle" /\ target' = 0

Succeed ==
  /\ pipeline = "wait" /\ Confirmed
  /\ EndPipeline
  /\ UNCHANGED <<upstream, fileVars, seederVars, reload, net, state, faults>>

(* 360 s without a confirmation: the run ends with an error. *)
TimeOut ==
  /\ pipeline = "wait" /\ ~Confirmed
  /\ EndPipeline
  /\ UNCHANGED <<upstream, fileVars, seederVars, reload, net, state, faults>>

(* The run is killed, or one of its commands fails.  The metadata is       *)
(* written in place: it is empty if the run was cut as it wrote it.        *)
PipelineDies ==
  /\ pipeline # "idle" /\ faults < MaxFaults
  /\ EndPipeline /\ faults' = faults + 1
  /\ UNCHANGED meta \/ (pipeline \in {"meta", "hash"} /\ meta' = NoMeta)
  /\ UNCHANGED <<upstream, stable, torrent, retained, seederVars, reload, net, state>>

-----------------------------------------------------------------------------
(* The seeder. *)

SystemdStarts ==
  /\ Boot
  /\ UNCHANGED <<upstream, fileVars, pipelineVars, net, state, faults>>

(* Its process ends: the files are all that is left of it. *)
Exit ==
  /\ seeder' = "down" /\ starting' = FALSE /\ reload' = FALSE
  /\ current' = 0 /\ session' = [h \in Snapshot |-> "none"]
  /\ verified' = FALSE /\ known' = 0 /\ put' = 0
  /\ UNCHANGED stats

SeederDies ==
  /\ seeder # "down" /\ faults < MaxFaults
  /\ Exit
  /\ faults' = faults + 1
  /\ UNCHANGED <<upstream, fileVars, pipelineVars, net, state>>

(* The previous torrent leaves the session unless its pair is retained; a  *)
(* torrent the session has is left as it is, where it is.                  *)
AfterPrevious ==
  IF current \in {0, meta.hash} THEN session
  ELSE IF current \notin RetainedNames THEN [session EXCEPT ![current] = "none"]
  ELSE [session EXCEPT ![current] = IF @ = "none" THEN "retained" ELSE @]

AfterCanonical ==
  [AfterPrevious EXCEPT ![torrent] = IF @ = "none" THEN "canonical" ELSE @]

(* Only main() adds the other retained pairs. *)
AfterRetained ==
  [h \in Snapshot |-> IF starting /\ h \in RetainedNames /\ AfterCanonical[h] = "none"
                        THEN "retained" ELSE AfterCanonical[h]]

(* _load_current_torrent and what follows it, at the start and on SIGHUP.  *)
(* The handle of meta.hash is there because torrent is its torrent.        *)
Load ==
  /\ seeder = "load" /\ Loadable
  /\ seeder' = "put"
  /\ session' = AfterRetained
  /\ current' = meta.hash /\ verified' = FALSE
  /\ UNCHANGED <<upstream, fileVars, pipelineVars, starting, known, put, stats, reload,
                 net, state, faults>>

(* A start ends without a torrent, a reload goes on with the old one.      *)
GiveUpLoad ==
  \/ starting /\ Exit
  \/ /\ ~starting /\ seeder' = "report"
     /\ UNCHANGED <<starting, current, verified, known, put, stats, reload>>

(* There is no torrent to load: the session is left alone. *)
LoadFails ==
  /\ seeder = "load" /\ ~Loadable
  /\ GiveUpLoad
  /\ starting \/ UNCHANGED session
  /\ UNCHANGED <<upstream, fileVars, pipelineVars, net, state, faults>>

(* A torrent cannot be added, or has no handle: the previous one may have  *)
(* left the session already, and the request is not made again.            *)
LoadAborts ==
  /\ seeder = "load" /\ Loadable /\ faults < MaxFaults
  /\ faults' = faults + 1
  /\ GiveUpLoad
  /\ starting \/ session' \in {session, AfterPrevious, AfterCanonical}
  /\ UNCHANGED <<upstream, fileVars, pipelineVars, net, state>>

(* Mutant of Published: the put is left pending. *)
PublishedPending(ok) ==
  /\ seeder' = IF starting THEN "started" ELSE "report"
  /\ verified' = ok /\ UNCHANGED put

(* publish_current returns to main() or to the loop. *)
Published(ok) ==
  /\ seeder' = IF starting THEN "started" ELSE "report"
  /\ verified' = ok /\ put' = 0

Highest(items) == IF items = {} THEN 0 ELSE Max({i.seq : i \in items})

(* The bound on sequences leaves one for every snapshot to come. *)
Spare == Highest(net) + (Snapshots - current) < MaxSeq

(* What the helper's lookup finds: any sequence the nodes hold, or none.   *)
Found == {0} \cup {i.seq : i \in net}

(* What the helper puts: it signs the next sequence of what it has found.  *)
Attempt(found) == [seq |-> found + 1, hash |-> current]

(* The put completes; no node need have taken it. *)
Put ==
  /\ seeder = "put" /\ Spare
  /\ seeder' = "readback"
  /\ \E found \in Found :
       /\ put' = Attempt(found).seq
       /\ net' \in {net, net \cup {Attempt(found)}}
  /\ UNCHANGED <<upstream, fileVars, pipelineVars, starting, current, session, verified,
                 known, stats, reload, state, faults>>

(* No bootstrap, no authoritative lookup, or no completion of a put that   *)
(* nodes may have taken all the same: the helper fails.                    *)
PutFails ==
  /\ seeder = "put"
  /\ Published(FALSE)
  /\ UNCHANGED <<upstream, fileVars, pipelineVars, starting, current, session, known, stats,
                 reload, state, faults>>
  /\ \/ UNCHANGED net
     \/ \E found \in Found : net' = net \cup {Attempt(found)} /\ Spare'

(* Mutant of ReadBack: the sequence read is not compared with the put's. *)
ReadBackAny ==
  /\ seeder = "readback"
  /\ \E i \in net : i.hash = current /\ known' = i.seq
  /\ seeder' = "record"
  /\ UNCHANGED <<upstream, fileVars, pipelineVars, starting, current, session, verified,
                 put, stats, reload, net, state, faults>>

(* An authoritative lookup gives the exact hash, not below the put. *)
ReadBack ==
  /\ seeder = "readback"
  /\ \E i \in net : i.hash = current /\ i.seq >= put /\ known' = i.seq
  /\ seeder' = "record"
  /\ UNCHANGED <<upstream, fileVars, pipelineVars, starting, current, session, verified,
                 put, stats, reload, net, state, faults>>

(* Mutant of ReadBackFails: a put without a read-back is recorded. *)
ReadBackSkipped ==
  /\ seeder = "readback"
  /\ known' = put /\ seeder' = "record"
  /\ UNCHANGED <<upstream, fileVars, pipelineVars, starting, current, session, verified,
                 put, stats, reload, net, state, faults>>

(* Nothing, an older item or another hash is read for 120 s: the put is    *)
(* not repeated before the retry interval.                                 *)
ReadBackFails ==
  /\ seeder = "readback"
  /\ Spare \/ ~\E i \in net : i.hash = current /\ i.seq >= put
  /\ Published(FALSE)
  /\ UNCHANGED <<upstream, fileVars, pipelineVars, starting, current, session, known, stats,
                 reload, net, state, faults>>

(* Mutant of Record: whatever the nodes hold at the sequence is recorded.  *)
RecordOfSequence ==
  /\ seeder = "record"
  /\ state' \in {i \in net : i.seq = known}
  /\ Published(TRUE)
  /\ UNCHANGED <<upstream, fileVars, pipelineVars, starting, current, session, known, stats,
                 reload, net, faults>>

(* _record_verified_publication replaces publisher_state.json. *)
Record ==
  /\ seeder = "record"
  /\ state' = [seq |-> known, hash |-> current]
  /\ Published(TRUE)
  /\ UNCHANGED <<upstream, fileVars, pipelineVars, starting, current, session, known, stats,
                 reload, net, faults>>

(* It cannot read or write the file. *)
RecordFails ==
  /\ seeder = "record" /\ Spare
  /\ Published(FALSE)
  /\ UNCHANGED <<upstream, fileVars, pipelineVars, starting, current, session, known, stats,
                 reload, net, state, faults>>

(* main() before its loop: a reload received since the process began is    *)
(* held to be satisfied.                                                   *)
FinishStart ==
  /\ seeder = "started"
  /\ seeder' = "report" /\ starting' = FALSE /\ reload' = FALSE
  /\ UNCHANGED <<upstream, fileVars, pipelineVars, current, session, verified, known, put,
                 stats, net, state, faults>>

(* The handle of a torrent that has left the session has no statistics.    *)
Report ==
  /\ seeder = "report"
  /\ seeder' = "rest"
  /\ stats' = IF session[current] = "none" THEN stats
              ELSE [hash |-> current, verified |-> verified, seq |-> known]
  /\ UNCHANGED <<upstream, fileVars, pipelineVars, starting, current, session, verified,
                 known, put, reload, net, state, faults>>

(* The top of the loop, when a reload was requested. *)
Reload ==
  /\ seeder = "rest" /\ reload
  /\ seeder' = "load" /\ reload' = FALSE
  /\ UNCHANGED <<upstream, fileVars, pipelineVars, starting, current, session, verified,
                 known, put, stats, net, state, faults>>

(* The republish interval, or the shorter one after a failure, has passed. *)
Republish ==
  /\ seeder = "rest" /\ ~reload
  /\ verified => Spare
  /\ seeder' = "put"
  /\ UNCHANGED <<upstream, fileVars, pipelineVars, starting, current, session, verified,
                 known, put, stats, reload, net, state, faults>>

-----------------------------------------------------------------------------
PipelineNext ==
  \/ StartPipeline \/ Retain \/ RetainNothing \/ Prune \/ Link \/ WriteMeta
  \/ OpenTorrent \/ CreateTorrent \/ WriteHash \/ RequestReload \/ Succeed \/ TimeOut

SeederNext ==
  \/ SystemdStarts \/ Load \/ LoadFails \/ LoadAborts \/ Put \/ PutFails \/ ReadBack
  \/ ReadBackFails \/ Record \/ RecordFails \/ FinishStart \/ Report \/ Reload \/ Republish

Next ==
  \/ NewUpstream \/ PipelineNext \/ PipelineDies \/ SeederNext \/ SeederDies

Spec == Init /\ [][Next]_vars

(* The timer starts the pipeline, systemd the seeder, and both run on; a   *)
(* publication that is tried again and again succeeds in the end, with a   *)
(* lookup that finds the highest item.                                     *)
TakenPut == Put /\ put' = Highest(net) + 1 /\ net' # net
Fairness ==
  /\ WF_vars(PipelineNext) /\ WF_vars(SeederNext)
  /\ SF_vars(TakenPut) /\ SF_vars(ReadBack) /\ SF_vars(Record)

FairSpec == Spec /\ Fairness

-----------------------------------------------------------------------------
(* Properties. *)

(* While the metadata names a torrent, the torrent file is that torrent,   *)
(* wherever a run was cut: the seeder loads one by the name of the other.  *)
CanonicalPair == meta.hash # 0 => torrent = meta.hash

(* A retained pair holds the archive and the torrent of its name, although *)
(* a run may be cut between the new archive and its metadata.              *)
RetainedPairs ==
  \A i \in DOMAIN retained :
    retained[i].archive = retained[i].name /\ retained[i].torrent = retained[i].name

(* The state the dashboard is fed from was held by the DHT.                *)
StatePublished == state.hash # 0 => state \in net

(* publisher_state.json never goes back to an earlier snapshot, although   *)
(* the seeder may be killed, fail to load, or go on with its old torrent   *)
(* while the pipeline replaces the files, and the DHT still holds the      *)
(* items of earlier snapshots, some of them above the sequence of its put. *)
StateNeverEarlier == [][state'.hash >= state.hash]_state

(* A run that ends well leaves its snapshot published.                     *)
SuccessMeansPublished ==
  [][Succeed => \E i \in net : i.hash = target /\ i.seq = state.seq]_pipeline

(* A snapshot the host has not processed when the last fault has happened  *)
(* and the seeder is in its loop is published, or a later one: no cut run, *)
(* death or aborted load leaves files or a session that a later snapshot   *)
(* cannot pass.  (A snapshot whose own load raised, or whose reload came   *)
(* while the seeder started, is not published: nothing asks again.)        *)
Recovered(h) ==
  /\ upstream = h /\ faults = MaxFaults
  /\ pipeline = "idle" /\ ~(meta.name = h /\ meta.hash # 0)
  /\ seeder = "rest"
PublishesUpstream == \A h \in Snapshot : Recovered(h) ~> state.hash >= h

(* A reload the pipeline requested is carried out: a seeder in its loop    *)
(* with no reload pending has loaded the snapshot the pipeline waits for   *)
(* (producer/seeder.py:440-441).                                           *)
ReloadSatisfied ==
  pipeline = "wait" /\ seeder = "rest" /\ ~reload => current = target

(* Every torrent in the session finds its own archive where it looks, when *)
(* the pipeline has done its work (docs/producer-guide.md:224).  This does *)
(* not hold, see README, and no run checks it.                             *)
ArchiveFor(h) ==
  IF session[h] = "canonical" THEN {stable}
  ELSE {p.archive : p \in {retained[i] : i \in {j \in DOMAIN retained : retained[j].name = h}}}
SeedsItsArchive ==
  pipeline = "idle" /\ seeder = "rest" /\ ~reload /\ current = stable
    => \A h \in Snapshot : session[h] # "none" => h \in ArchiveFor(h)
=============================================================================
