----------------------- MODULE SnapshotProducerProofs -----------------------
(***************************************************************************)
(* What the seeder and the retention rely on, for any number of snapshots  *)
(* and any retention count: wherever a pipeline run is cut, the torrent    *)
(* file is the one the metadata names, and a retained pair is a pair; then *)
(* what publisher_state.json names, type correctness, and that the file    *)
(* never goes back to an earlier snapshot.                                 *)
(*                                                                         *)
(* Only the pipeline writes the files, so the inductive invariant is about *)
(* them and the pipeline's label.  RetainedPairs needs most of it: a run   *)
(* cut after Link leaves the metadata of the previous snapshot beside the  *)
(* new archive, and the next run does not retain that mixture because the  *)
(* previous snapshot has been set aside already and is the newest of the   *)
(* retained pairs, where pruning does not reach it.                        *)
(***************************************************************************)
EXTENDS SnapshotProducer, SequenceTheorems, WellFoundedInduction, TLAPS

FilesType ==
  /\ upstream \in Snapshot
  /\ meta \in [name : SnapshotOrNone, hash : SnapshotOrNone]
  /\ stable \in SnapshotOrNone /\ torrent \in SnapshotOrNone \cup {Torn}
  /\ retained \in Seq(Pair)
  /\ pipeline \in PipelineLabels /\ target \in SnapshotOrNone
  /\ pipeline # "idle" => target \in Snapshot

(* What there is is no later than upstream, the metadata no later than the *)
(* archive, and the run in progress is of a snapshot that the metadata     *)
(* names no torrent of.                                                    *)
Progression ==
  /\ meta.hash \in {0, meta.name}
  /\ meta.name <= stable /\ stable <= upstream /\ target <= upstream
  /\ pipeline \in {"retain", "prune", "link", "meta"}
       => stable <= target /\ (meta.hash # 0 => meta.hash < target)

(* What the run in progress has written so far. *)
Written ==
  /\ pipeline \in {"meta", "torrent", "bytes", "hash"} => stable = target
  /\ pipeline \in {"torrent", "bytes", "hash"} => meta = [name |-> target, hash |-> 0]
  /\ pipeline = "hash" => torrent = target

(* The retained pairs are of earlier snapshots, except that the first may  *)
(* be the current one's.                                                   *)
RetainedOlder ==
  \A i \in DOMAIN retained :
    retained[i].name < stable \/ (i = 1 /\ retained[i].name = meta.hash)

Aside == retained # <<>> /\ retained[1].name = meta.hash

(* With retention, the snapshot the metadata names is the canonical one or *)
(* set aside, and is set aside before the canonical name moves on.         *)
SetAside ==
  Retention > 0 /\ meta.hash # 0
    => /\ stable = meta.hash \/ Aside
       /\ pipeline \in {"prune", "link"} => Aside

FilesInv ==
  /\ FilesType /\ Progression /\ Written
  /\ RetainedOlder /\ SetAside
  /\ Retention = 0 => retained = <<>>
  /\ CanonicalPair /\ RetainedPairs

-----------------------------------------------------------------------------
(* The two ways the retained pairs change. *)

(* A pair put in front moves the others by one. *)
LEMMA Pushed ==
  ASSUME NEW S, NEW s \in Seq(S), NEW e \in S
  PROVE  LET t == <<e>> \o s IN
           /\ t \in Seq(S) /\ t # <<>> /\ t[1] = e
           /\ DOMAIN t = 1 .. Len(s) + 1
           /\ \A i \in DOMAIN t : i # 1 => i - 1 \in DOMAIN s /\ t[i] = s[i - 1]
<1> DEFINE t == <<e>> \o s
<1>1. <<e>> \in Seq(S) /\ Len(<<e>>) = 1 /\ <<e>>[1] = e
  OBVIOUS
<1>2. /\ t \in Seq(S) /\ Len(t) = Len(s) + 1
      /\ \A i \in 1 .. Len(s) + 1 : t[i] = IF i <= 1 THEN <<e>>[i] ELSE s[i - 1]
  BY <1>1, ConcatProperties, LenProperties
<1>3. DOMAIN t = 1 .. Len(s) + 1 /\ DOMAIN s = 1 .. Len(s) /\ Len(s) \in Nat
  BY <1>2, LenProperties
<1>4. t # <<>> /\ t[1] = e
  BY <1>1, <1>2, <1>3
<1>5. \A i \in DOMAIN t : i # 1 => i - 1 \in DOMAIN s /\ t[i] = s[i - 1]
  BY <1>2, <1>3
<1> QED
  BY <1>2, <1>3, <1>4, <1>5

(* The pairs that prune leaves are where they were. *)
LEMMA Cut ==
  ASSUME NEW S, NEW s \in Seq(S), NEW n \in Nat, n < Len(s)
  PROVE  LET t == SubSeq(s, 1, n) IN
           /\ t \in Seq(S) /\ DOMAIN t = 1 .. n /\ DOMAIN t \subseteq DOMAIN s
           /\ \A i \in DOMAIN t : t[i] = s[i]
<1> DEFINE t == SubSeq(s, 1, n)
<1>1. Len(s) \in Nat /\ DOMAIN s = 1 .. Len(s) /\ \A i \in 1 .. n : s[i] \in S
  BY LenProperties
<1>2. /\ t \in Seq(S) /\ Len(t) = IF 1 <= n THEN n - 1 + 1 ELSE 0
      /\ \A i \in 1 .. n - 1 + 1 : t[i] = s[1 + i - 1]
  BY <1>1, SubSeqProperties
<1>3. DOMAIN t = 1 .. n
  BY <1>2, LenProperties
<1> QED
  BY <1>1, <1>2, <1>3

-----------------------------------------------------------------------------
(* The steps. *)

Files == <<upstream, fileVars, pipelineVars>>

(* A step that leaves the files and the label leaves the invariant. *)
LEMMA FilesStutter == FilesInv /\ UNCHANGED Files => FilesInv'
  BY DEF FilesInv, FilesType, Progression, Written, RetainedOlder, SetAside, Aside,
         CanonicalPair, RetainedPairs, Files, fileVars, pipelineVars

(* A new host has no files. *)
LEMMA FilesInit == Init => FilesInv
<1> SUFFICES ASSUME Init PROVE FilesInv
  OBVIOUS
<1> USE SnapshotsAssumption, RetentionAssumption DEF Init, NoMeta
<1>1. FilesType
  BY DEF FilesType, Snapshot, SnapshotOrNone, PipelineLabels
<1>2. Progression /\ Written
  BY DEF Progression, Written
<1>3. RetainedOlder /\ SetAside /\ (Retention = 0 => retained = <<>>)
  BY DEF RetainedOlder, SetAside
<1>4. CanonicalPair /\ RetainedPairs
  BY DEF CanonicalPair, RetainedPairs
<1> QED
  BY <1>1, <1>2, <1>3, <1>4 DEF FilesInv

(* Upstream moves on: only the bounds by it are concerned. *)
LEMMA UpstreamStep == FilesInv /\ NewUpstream => FilesInv'
<1> SUFFICES ASSUME FilesInv, NewUpstream PROVE FilesInv'
  OBVIOUS
<1> USE SnapshotsAssumption DEF NewUpstream, fileVars, pipelineVars
<1>1. FilesType'
  BY DEF FilesInv, FilesType, Snapshot, SnapshotOrNone
<1>2. Progression'
  BY DEF FilesInv, FilesType, Progression, Snapshot, SnapshotOrNone
<1>3. Written' /\ RetainedOlder' /\ SetAside' /\ (Retention = 0 => retained = <<>>)'
  BY DEF FilesInv, Written, RetainedOlder, SetAside, Aside
<1>4. CanonicalPair' /\ RetainedPairs'
  BY DEF FilesInv, CanonicalPair, RetainedPairs
<1> QED
  BY <1>1, <1>2, <1>3, <1>4 DEF FilesInv

(* A run starts only with something new to do. *)
LEMMA StartStep == FilesInv /\ StartPipeline => FilesInv'
<1> SUFFICES ASSUME FilesInv, StartPipeline PROVE FilesInv'
  OBVIOUS
<1> USE SnapshotsAssumption DEF StartPipeline, Unchanged, fileVars
<1>1. FilesType'
  BY DEF FilesInv, FilesType, Snapshot, SnapshotOrNone, PipelineLabels
<1>2. Progression'
  BY DEF FilesInv, FilesType, Progression, Snapshot, SnapshotOrNone
<1>3. Written' /\ RetainedOlder' /\ SetAside' /\ (Retention = 0 => retained = <<>>)'
  BY DEF FilesInv, Written, RetainedOlder, SetAside, Aside
<1>4. CanonicalPair' /\ RetainedPairs'
  BY DEF FilesInv, CanonicalPair, RetainedPairs
<1> QED
  BY <1>1, <1>2, <1>3, <1>4 DEF FilesInv

(* The pair set aside is one: either the canonical name is the metadata's, *)
(* or the metadata's snapshot is among the retained already.               *)
LEMMA RetainStep == FilesInv /\ Retain => FilesInv'
<1> SUFFICES ASSUME FilesInv, Retain PROVE FilesInv'
  OBVIOUS
<1> USE SnapshotsAssumption, RetentionAssumption
<1> DEFINE Fresh == Retention > 0 /\ meta.hash \notin RetainedNames
<1> DEFINE pair == [name |-> meta.hash, archive |-> stable, torrent |-> torrent]
<1>0. /\ pipeline = "retain" /\ pipeline' = "prune"
      /\ meta.hash # 0 /\ stable # 0 /\ torrent # 0
      /\ UNCHANGED <<target, upstream, meta, stable, torrent>>
  BY DEF Retain, PipelineStep, Loadable
<1>1. FilesType /\ Progression /\ RetainedOlder /\ SetAside /\ CanonicalPair
      /\ RetainedPairs /\ (Retention = 0 => retained = <<>>)
  BY DEF FilesInv
<1>2. Progression' /\ Written' /\ CanonicalPair'
  BY <1>0, <1>1 DEF Progression, Written, CanonicalPair
<1>3. CASE Fresh
  <2>1. retained' = <<pair>> \o retained
    BY <1>3 DEF Retain, RetainPair
  <2>2. pair \in Pair /\ retained \in Seq(Pair)
    BY <1>0, <1>1 DEF FilesType, CanonicalPair, Pair, Snapshot, SnapshotOrNone
  <2>3. /\ retained' \in Seq(Pair) /\ retained' # <<>> /\ retained'[1] = pair
        /\ \A i \in DOMAIN retained' :
             i # 1 => i - 1 \in DOMAIN retained /\ retained'[i] = retained[i - 1]
    BY <2>1, <2>2, Pushed
  <2>4. ~Aside
    <3>1. retained # <<>> => 1 \in DOMAIN retained
      BY <2>2, LenProperties, EmptySeq
    <3> QED
      BY <1>3, <3>1 DEF Aside, RetainedNames
  <2>5. pair.name = meta.hash /\ pair.archive = meta.hash /\ pair.torrent = meta.hash
    BY <1>0, <1>1, <1>3, <2>4 DEF SetAside, CanonicalPair
  <2>6. FilesType'
    BY <1>0, <1>1, <2>3 DEF FilesType, PipelineLabels
  <2>7. RetainedOlder'
    <3> SUFFICES ASSUME NEW i \in DOMAIN retained', i # 1
                 PROVE  retained'[i].name < stable'
      BY <1>0, <2>3, <2>5 DEF RetainedOlder
    <3>1. i - 1 \in DOMAIN retained /\ retained'[i] = retained[i - 1]
      BY <2>3
    <3>2. retained[i - 1].name # meta.hash
      BY <1>3, <3>1 DEF RetainedNames
    <3> QED
      BY <1>0, <1>1, <3>1, <3>2 DEF RetainedOlder
  <2>8. RetainedPairs'
    <3> SUFFICES ASSUME NEW i \in DOMAIN retained'
                 PROVE  retained'[i].archive = retained'[i].name
                        /\ retained'[i].torrent = retained'[i].name
      BY DEF RetainedPairs
    <3>1. i = 1 => retained'[i] = pair
      BY <2>3
    <3>2. i # 1 => i - 1 \in DOMAIN retained /\ retained'[i] = retained[i - 1]
      BY <2>3
    <3> QED
      BY <1>1, <2>5, <3>1, <3>2 DEF RetainedPairs
  <2>9. SetAside' /\ (Retention = 0 => retained = <<>>)'
    BY <1>0, <1>3, <2>3, <2>5 DEF SetAside, Aside
  <2> QED
    BY <1>2, <2>6, <2>7, <2>8, <2>9 DEF FilesInv
<1>4. CASE ~Fresh
  <2>1. retained' = retained
    BY <1>4 DEF Retain
  <2>2. FilesType' /\ RetainedOlder' /\ RetainedPairs'
        /\ (Retention = 0 => retained = <<>>)'
    BY <1>0, <1>1, <2>1 DEF FilesType, RetainedOlder, RetainedPairs, PipelineLabels
  <2>3. ASSUME Retention > 0 PROVE Aside
    <3>1. PICK i \in DOMAIN retained : retained[i].name = meta.hash
      BY <1>4, <2>3 DEF RetainedNames
    <3>2. CASE stable # meta.hash
      BY <1>0, <1>1, <2>3, <3>2 DEF SetAside
    <3>3. CASE stable = meta.hash
      <4>1. i = 1
        BY <1>1, <3>1, <3>3 DEF RetainedOlder, FilesType, SnapshotOrNone
      <4> QED
        BY <3>1, <4>1 DEF Aside
    <3> QED
      BY <3>2, <3>3
  <2>4. SetAside'
    BY <1>0, <2>1, <2>3 DEF SetAside, Aside
  <2> QED
    BY <1>2, <2>2, <2>4 DEF FilesInv
<1> QED
  BY <1>3, <1>4

(* Nothing is called where no pair is complete, so none can be mixed. *)
LEMMA RetainNothingStep == FilesInv /\ RetainNothing => FilesInv'
<1> SUFFICES ASSUME FilesInv, RetainNothing PROVE FilesInv'
  OBVIOUS
<1>0. /\ pipeline = "retain" /\ pipeline' = "link" /\ meta.hash = 0
      /\ UNCHANGED <<target, upstream, meta, stable, torrent, retained>>
  <2>1. meta.hash # 0 => stable # 0 /\ torrent # 0
    BY DEF FilesInv, FilesType, Progression, CanonicalPair, SnapshotOrNone
  <2> QED
    BY <2>1 DEF RetainNothing, PipelineStep, Loadable, fileVars
<1>1. FilesType' /\ Progression' /\ Written'
  BY <1>0 DEF FilesInv, FilesType, Progression, Written, PipelineLabels
<1>2. RetainedOlder' /\ SetAside' /\ (Retention = 0 => retained = <<>>)'
  BY <1>0 DEF FilesInv, RetainedOlder, SetAside
<1>3. CanonicalPair' /\ RetainedPairs'
  BY <1>0 DEF FilesInv, CanonicalPair, RetainedPairs
<1> QED
  BY <1>1, <1>2, <1>3 DEF FilesInv

(* What is cut off is not the newest pair, unless nothing is retained. *)
LEMMA PruneStep == FilesInv /\ Prune => FilesInv'
<1> SUFFICES ASSUME FilesInv, Prune PROVE FilesInv'
  OBVIOUS
<1> USE RetentionAssumption
<1>0. /\ pipeline = "prune" /\ pipeline' = "link"
      /\ UNCHANGED <<target, upstream, meta, stable, torrent>>
  BY DEF Prune, PipelineStep
<1>1. FilesType /\ Progression /\ RetainedOlder /\ SetAside /\ CanonicalPair
      /\ RetainedPairs /\ (Retention = 0 => retained = <<>>)
  BY DEF FilesInv
<1>2. retained \in Seq(Pair) /\ Len(retained) \in Nat
  BY <1>1, LenProperties DEF FilesType
<1>3. /\ retained' \in Seq(Pair)
      /\ \A i \in DOMAIN retained' : i \in DOMAIN retained /\ retained'[i] = retained[i]
  BY <1>2, Cut DEF Prune
<1>4. Retention > 0 /\ Aside => Aside'
  <2> SUFFICES ASSUME Retention > 0, Aside, Len(retained) > Retention PROVE Aside'
    BY <1>0 DEF Prune, Aside
  <2>1. DOMAIN retained' = 1 .. Retention
    BY <1>2, Cut DEF Prune
  <2>2. 1 \in DOMAIN retained' /\ retained' # <<>>
    BY <2>1
  <2> QED
    BY <1>0, <1>3, <2>2 DEF Aside
<1>5. Progression' /\ Written' /\ CanonicalPair'
  BY <1>0, <1>1 DEF Progression, Written, CanonicalPair
<1>6. FilesType' /\ RetainedOlder' /\ RetainedPairs'
  BY <1>0, <1>1, <1>3 DEF FilesType, RetainedOlder, RetainedPairs, PipelineLabels
<1>7. SetAside'
  BY <1>0, <1>1, <1>4 DEF SetAside
<1>8. (Retention = 0 => retained = <<>>)'
  BY <1>1, <1>2, EmptySeq DEF Prune
<1> QED
  BY <1>5, <1>6, <1>7, <1>8 DEF FilesInv

(* The metadata's pair is set aside by now, so the archive may change. *)
LEMMA LinkStep == FilesInv /\ Link => FilesInv'
<1> SUFFICES ASSUME FilesInv, Link PROVE FilesInv'
  OBVIOUS
<1> USE DEF Link, PipelineStep
<1>1. FilesType' /\ Progression'
  BY DEF FilesInv, FilesType, Progression, PipelineLabels, Snapshot, SnapshotOrNone
<1>2. Written' /\ (Retention = 0 => retained = <<>>)'
  BY DEF FilesInv, Written
<1>3. SetAside'
  BY DEF FilesInv, SetAside, Aside
<1>4. CanonicalPair' /\ RetainedPairs'
  BY DEF FilesInv, CanonicalPair, RetainedPairs
<1>5. RetainedOlder'
  <2> SUFFICES ASSUME NEW i \in DOMAIN retained
               PROVE  retained[i].name < target \/ (i = 1 /\ retained[i].name = meta.hash)
    BY DEF RetainedOlder
  <2>1. retained[i].name \in Nat
    <3>1. retained[i] \in Pair
      BY LenProperties DEF FilesInv, FilesType
    <3> QED
      BY <3>1 DEF Pair, Snapshot
  <2>2. stable \in Nat /\ target \in Nat /\ stable <= target
    BY DEF FilesInv, FilesType, Progression, SnapshotOrNone
  <2>3. retained[i].name < stable \/ (i = 1 /\ retained[i].name = meta.hash)
    BY DEF FilesInv, RetainedOlder
  <2> QED
    BY <2>1, <2>2, <2>3
<1> QED
  BY <1>1, <1>2, <1>3, <1>4, <1>5 DEF FilesInv

(* The metadata moves on to a snapshot later than all that are retained.  *)
LEMMA WriteMetaStep == FilesInv /\ WriteMeta => FilesInv'
<1> SUFFICES ASSUME FilesInv, WriteMeta PROVE FilesInv'
  OBVIOUS
<1> USE SnapshotsAssumption
<1>0. /\ pipeline = "meta" /\ pipeline' = "torrent"
      /\ meta' = [name |-> target, hash |-> 0]
      /\ UNCHANGED <<target, upstream, stable, torrent, retained>>
  BY DEF WriteMeta, PipelineStep
<1>1. FilesType' /\ Progression'
  BY <1>0 DEF FilesInv, FilesType, Progression, Written, PipelineLabels, Snapshot,
              SnapshotOrNone
<1>2. Written' /\ SetAside' /\ (Retention = 0 => retained = <<>>)'
  BY <1>0 DEF FilesInv, Written, SetAside
<1>3. RetainedOlder'
  <2> SUFFICES ASSUME NEW i \in DOMAIN retained PROVE retained[i].name < stable
    BY <1>0 DEF RetainedOlder
  <2>1. retained[i].name # 0
    <3>1. retained[i] \in Pair
      BY LenProperties DEF FilesInv, FilesType
    <3> QED
      BY <3>1 DEF Pair, Snapshot
  <2>2. retained[i].name < stable \/ retained[i].name = meta.hash
    BY DEF FilesInv, RetainedOlder
  <2>3. stable = target /\ (meta.hash # 0 => meta.hash < target)
    BY <1>0 DEF FilesInv, Progression, Written
  <2> QED
    BY <2>1, <2>2, <2>3
<1>4. CanonicalPair' /\ RetainedPairs'
  BY <1>0 DEF FilesInv, CanonicalPair, RetainedPairs
<1> QED
  BY <1>1, <1>2, <1>3, <1>4 DEF FilesInv

(* The metadata names no torrent while one is being made. *)
LEMMA CreateTorrentStep == FilesInv /\ (OpenTorrent \/ CreateTorrent) => FilesInv'
<1> SUFFICES ASSUME FilesInv, OpenTorrent \/ CreateTorrent PROVE FilesInv'
  OBVIOUS
<1> USE DEF OpenTorrent, CreateTorrent, PipelineStep
<1>1. FilesType' /\ Progression'
  BY DEF FilesInv, FilesType, Progression, PipelineLabels
<1>2. Written' /\ RetainedOlder' /\ SetAside' /\ (Retention = 0 => retained = <<>>)'
  BY DEF FilesInv, Written, RetainedOlder, SetAside, Aside
<1>3. CanonicalPair' /\ RetainedPairs'
  BY DEF FilesInv, Written, CanonicalPair, RetainedPairs
<1> QED
  BY <1>1, <1>2, <1>3 DEF FilesInv

(* The torrent named is the one made from the archive linked. *)
LEMMA WriteHashStep == FilesInv /\ WriteHash => FilesInv'
<1> SUFFICES ASSUME FilesInv, WriteHash PROVE FilesInv'
  OBVIOUS
<1>0. /\ pipeline = "hash" /\ pipeline' = "reload"
      /\ meta' = [name |-> target, hash |-> target]
      /\ stable = target /\ torrent = target /\ target \in Snapshot
      /\ meta = [name |-> target, hash |-> 0]
      /\ UNCHANGED <<target, upstream, stable, torrent, retained>>
  BY DEF WriteHash, PipelineStep, FilesInv, FilesType, Written
<1>1. FilesType'
  BY <1>0 DEF FilesInv, FilesType, PipelineLabels, Snapshot, SnapshotOrNone
<1>2. Progression' /\ Written'
  BY <1>0 DEF FilesInv, Progression, Written
<1>3. SetAside' /\ (Retention = 0 => retained = <<>>)'
  BY <1>0 DEF FilesInv, SetAside
<1>4. RetainedOlder'
  <2> SUFFICES ASSUME NEW i \in DOMAIN retained PROVE retained[i].name < target
    BY <1>0 DEF RetainedOlder
  <2>1. retained[i].name # 0
    <3>1. retained[i] \in Pair
      BY LenProperties DEF FilesInv, FilesType
    <3> QED
      BY <3>1 DEF Pair, Snapshot
  <2> QED
    BY <1>0, <2>1 DEF FilesInv, RetainedOlder
<1>5. CanonicalPair' /\ RetainedPairs'
  BY <1>0 DEF FilesInv, CanonicalPair, RetainedPairs
<1> QED
  BY <1>1, <1>2, <1>3, <1>4, <1>5 DEF FilesInv

(* The signal touches no file. *)
LEMMA RequestReloadStep == FilesInv /\ RequestReload => FilesInv'
<1> SUFFICES ASSUME FilesInv, RequestReload PROVE FilesInv'
  OBVIOUS
<1>0. /\ UNCHANGED <<upstream, fileVars, target>>
      /\ pipeline = "reload" /\ pipeline' = "wait"
  BY DEF RequestReload, PipelineStep
<1>1. FilesType' /\ Progression' /\ Written'
  BY <1>0 DEF FilesInv, FilesType, Progression, Written, PipelineLabels, fileVars
<1>2. RetainedOlder' /\ SetAside' /\ (Retention = 0 => retained = <<>>)'
  BY <1>0 DEF FilesInv, RetainedOlder, SetAside, Aside, fileVars
<1>3. CanonicalPair' /\ RetainedPairs'
  BY <1>0 DEF FilesInv, CanonicalPair, RetainedPairs, fileVars
<1> QED
  BY <1>1, <1>2, <1>3 DEF FilesInv

(* The end of a run, wherever it was, touches no file but the metadata it  *)
(* may have been writing.                                                  *)
LEMMA EndStep == FilesInv /\ (Succeed \/ TimeOut \/ PipelineDies) => FilesInv'
<1> SUFFICES ASSUME FilesInv, Succeed \/ TimeOut \/ PipelineDies PROVE FilesInv'
  OBVIOUS
<1> USE SnapshotsAssumption
<1>0. /\ UNCHANGED <<upstream, stable, torrent, retained>>
      /\ pipeline' = "idle" /\ target' = 0
      /\ meta' = meta \/ (pipeline \in {"meta", "hash"} /\ meta' = NoMeta)
  BY DEF Succeed, TimeOut, PipelineDies, EndPipeline, fileVars
<1>1. FilesType'
  BY <1>0 DEF FilesInv, FilesType, PipelineLabels, SnapshotOrNone, NoMeta
<1>2. Progression'
  BY <1>0 DEF FilesInv, FilesType, Progression, Snapshot, SnapshotOrNone, NoMeta
<1>3. Written' /\ SetAside' /\ (Retention = 0 => retained = <<>>)'
  BY <1>0 DEF FilesInv, Written, SetAside, Aside, NoMeta
<1>4. RetainedOlder'
  <2> SUFFICES ASSUME NEW i \in DOMAIN retained
               PROVE  retained[i].name < stable \/ (i = 1 /\ retained[i].name = meta'.hash)
    BY <1>0 DEF RetainedOlder
  <2>1. retained[i].name < stable \/ (i = 1 /\ retained[i].name = meta.hash)
    BY DEF FilesInv, RetainedOlder
  <2>2. retained[i].name # 0
    <3>1. retained[i] \in Pair
      BY LenProperties DEF FilesInv, FilesType
    <3> QED
      BY <3>1 DEF Pair, Snapshot
  <2>3. pipeline = "meta" => stable = target /\ (meta.hash # 0 => meta.hash < target)
    BY DEF FilesInv, Progression, Written
  <2>4. pipeline = "hash" => meta.hash = 0
    BY DEF FilesInv, Written
  <2> QED
    BY <1>0, <2>1, <2>2, <2>3, <2>4
<1>5. CanonicalPair' /\ RetainedPairs'
  BY <1>0 DEF FilesInv, CanonicalPair, RetainedPairs, NoMeta
<1> QED
  BY <1>1, <1>2, <1>3, <1>4, <1>5 DEF FilesInv

-----------------------------------------------------------------------------
(* Only upstream and the pipeline change what the invariant is about. *)
LEMMA FilesNext == FilesInv /\ [Next]_vars => FilesInv'
<1> SUFFICES ASSUME FilesInv, [Next]_vars PROVE FilesInv'
  OBVIOUS
<1>1. SeederNext \/ SeederDies \/ UNCHANGED vars => UNCHANGED Files
  BY DEF SeederNext, SystemdStarts, Load, LoadFails, LoadAborts, GiveUpLoad, Put,
     PutFails, ReadBack, ReadBackFails, Record, RecordFails, FinishStart, Report,
     Reload, Republish, SeederDies, vars, Files, fileVars, pipelineVars
<1>2. PipelineNext => FilesInv'
  BY StartStep, RetainStep, RetainNothingStep, PruneStep, LinkStep, WriteMetaStep,
     CreateTorrentStep, WriteHashStep, RequestReloadStep, EndStep DEF PipelineNext
<1> QED
  BY <1>1, <1>2, FilesStutter, UpstreamStep, EndStep DEF Next

(* The invariant holds for any number of snapshots and any retention.     *)
THEOREM FilesInvariance == Spec => []FilesInv
<1>1. Init => FilesInv
  BY FilesInit
<1>2. FilesInv /\ [Next]_vars => FilesInv'
  BY FilesNext
<1> QED
  BY <1>1, <1>2, PTL DEF Spec

(* Wherever a run is cut, the torrent file the seeder finds is the one the *)
(* metadata names (producer/seeder.py:247-298).                            *)
THEOREM CanonicalKept == Spec => []CanonicalPair
<1>1. FilesInv => CanonicalPair
  BY DEF FilesInv
<1> QED
  BY <1>1, FilesInvariance, PTL

(* Every retained directory holds the archive of its torrent, although the *)
(* run that set it aside began on what a cut run left behind               *)
(* (producer/retention.py:12-39).                                          *)
THEOREM RetainedSound == Spec => []RetainedPairs
<1>1. FilesInv => RetainedPairs
  BY DEF FilesInv
<1> QED
  BY <1>1, FilesInvariance, PTL

-----------------------------------------------------------------------------
(* What the seeder has read back, until it has recorded it, and what it    *)
(* has recorded are in the DHT, which loses nothing here.                  *)
KnownHeld ==
  /\ \A i \in net : i = [seq |-> i.seq, hash |-> i.hash]
  /\ seeder = "record" => [seq |-> known, hash |-> current] \in net
  /\ StatePublished

Attempts == {Attempt(found) : found \in Found}

(* The DHT gains an attempt at most, and only the seeder offers one. *)
LEMMA NetGrows ==
  ASSUME [Next]_vars PROVE net \subseteq net' /\ net' \subseteq net \cup Attempts
<1>1. CASE Put \/ PutFails
  <2>1. \A found \in Found : Attempt(found) \in Attempts
    BY Zenon DEF Attempts
  <2>2. net' = net \/ \E found \in Found : net' = net \cup {Attempt(found)}
    BY <1>1, Zenon DEF Put, PutFails
  <2> QED
    BY <2>1, <2>2, Zenon
<1>2. CASE net' = net
  BY <1>2
<1>3. PipelineNext \/ PipelineDies \/ SeederDies \/ NewUpstream => net' = net
  BY Zenon DEF PipelineNext, StartPipeline, Retain, RetainNothing, Prune, Link,
     WriteMeta, OpenTorrent, CreateTorrent, WriteHash, RequestReload, Succeed, TimeOut,
     PipelineDies, SeederDies, NewUpstream
<1>4. SeederNext => net' = net \/ Put \/ PutFails
  BY Zenon DEF SeederNext, SystemdStarts, Load, LoadFails, LoadAborts, GiveUpLoad,
     ReadBack, ReadBackFails, Record, RecordFails, FinishStart, Report, Reload,
     Republish
<1> QED
  BY <1>1, <1>2, <1>3, <1>4, Zenon DEF Next, vars

(* The seeder comes to record by a read-back only, and only it records. *)
LEMMA RecordedAfterReadBack ==
  ASSUME [Next]_vars
  PROVE  /\ \/ ReadBack \/ seeder' # "record"
            \/ UNCHANGED <<seeder, known, current>>
         /\ Record \/ state' = state
<1>1. SeederNext => ReadBack \/ seeder' # "record"
  BY SMT DEF SeederNext, SystemdStarts, Boot, Load, LoadFails, LoadAborts, GiveUpLoad,
     Exit, Put, PutFails, ReadBackFails, Record, RecordFails, FinishStart, Report,
     Reload, Republish, Published
<1>2. /\ PipelineNext \/ PipelineDies \/ NewUpstream
           => UNCHANGED <<seeder, known, current>> \/ seeder' # "record"
      /\ SeederDies => seeder' # "record"
  BY SMT DEF PipelineNext, StartPipeline, Retain, RetainNothing, Prune, Link, WriteMeta,
     OpenTorrent, CreateTorrent, WriteHash, RequestReload, Boot, Succeed, TimeOut, EndPipeline,
     PipelineDies, NewUpstream, SeederDies, Exit, seederVars
<1>3. Next => Record \/ state' = state
  BY Zenon DEF Next, NewUpstream, PipelineNext, StartPipeline, Retain, RetainNothing,
     Prune, Link, WriteMeta, OpenTorrent, CreateTorrent, WriteHash, RequestReload,
     Succeed, TimeOut, PipelineDies, SeederNext, SystemdStarts, Load, LoadFails,
     LoadAborts, GiveUpLoad, Put, PutFails, ReadBack, ReadBackFails, RecordFails,
     FinishStart, Report, Reload, Republish, SeederDies
<1> QED
  BY <1>1, <1>2, <1>3, Zenon DEF Next, vars, seederVars

LEMMA KnownNext == KnownHeld /\ [Next]_vars => KnownHeld'
<1> SUFFICES ASSUME KnownHeld, [Next]_vars PROVE KnownHeld'
  OBVIOUS
<1> USE DEF KnownHeld, StatePublished
<1>1. net \subseteq net' /\ net' \subseteq net \cup Attempts
  BY NetGrows
<1>2. \A i \in net' : i = [seq |-> i.seq, hash |-> i.hash]
  BY <1>1, SMT DEF Attempts, Attempt
<1>3. (seeder = "record" => [seq |-> known, hash |-> current] \in net)'
  <2>1. CASE ReadBack
    <3>1. PICK i \in net : i.hash = current /\ known' = i.seq
      BY <2>1, Zenon DEF ReadBack
    <3>2. current' = current /\ i = [seq |-> i.seq, hash |-> i.hash]
      BY <2>1, Zenon DEF ReadBack
    <3> QED
      BY <1>1, <3>1, <3>2
  <2> QED
    BY <1>1, <2>1, RecordedAfterReadBack
<1>4. StatePublished'
  <2>1. CASE Record
    BY <1>1, <2>1, SMT DEF Record
  <2> QED
    BY <1>1, <2>1, RecordedAfterReadBack
<1> QED
  BY <1>2, <1>3, <1>4

LEMMA KnownInvariance == Spec => []KnownHeld
<1>1. Init => KnownHeld
  BY SMT DEF Init, KnownHeld, StatePublished, NoItem
<1> QED
  BY <1>1, KnownNext, PTL DEF Spec

(* publisher_state.json, which the dashboard is fed from, names what the   *)
(* DHT was given (producer/seeder.py:48-98).                               *)
THEOREM StateHeld == Spec => []StatePublished
<1>1. KnownHeld => StatePublished
  BY DEF KnownHeld
<1> QED
  BY <1>1, KnownInvariance, PTL

(* A pipeline run that succeeds has published its snapshot, although it    *)
(* reads two files that the seeder writes at different times               *)
(* (scripts/daily-snapshot.sh).                                            *)
THEOREM SuccessHeld == Spec => SuccessMeansPublished
<1>1. FilesInv /\ KnownHeld /\ [Next]_vars
        => [Succeed => \E i \in net : i.hash = target /\ i.seq = state.seq]_pipeline
  <2> SUFFICES ASSUME FilesInv, KnownHeld, Succeed
               PROVE  \E i \in net : i.hash = target /\ i.seq = state.seq
    OBVIOUS
  <2>1. state.hash = target /\ target # 0
    BY SMT DEF Succeed, Confirmed, FilesInv, FilesType, Snapshot
  <2>2. state \in net
    BY <2>1 DEF KnownHeld, StatePublished
  <2> QED
    BY <2>1, <2>2
<1> QED
  BY <1>1, FilesInvariance, KnownInvariance, PTL DEF Spec, SuccessMeansPublished

-----------------------------------------------------------------------------
(* Sequences: what the model's Highest is.                                 *)

(* A nonempty set of naturals with a bound has a greatest element.         *)
LEMMA GreatestIs ==
  ASSUME NEW N \in Nat, NEW S \in SUBSET (0 .. N), S # {}
  PROVE  Max(S) \in S /\ \A x \in S : x <= Max(S)
<1> DEFINE Below == {N - x : x \in S}
<1> DEFINE Less == OpToRel(<, Nat)
<1>1. Below \subseteq Nat /\ Below # {}
  <2>1. PICK x \in S : TRUE
    OBVIOUS
  <2>2. N - x \in Below
    OBVIOUS
  <2>3. \A y \in S : N - y \in Nat
    OBVIOUS
  <2> QED
    BY <2>2, <2>3
<1>2. PICK d \in Below : \A e \in Below : ~(<<e, d>> \in Less)
  <2> HIDE DEF Less, Below
  <2>1. IsWellFoundedOn(Less, Nat)
    BY NatLessThanWellFounded DEF Less
  <2> QED
    BY <1>1, <2>1, WFMin, Zenon
<1>3. PICK m \in S : d = N - m
  BY <1>2
<1>4. ASSUME NEW x \in S PROVE x <= m
  <2>1. ~(<<N - x, N - m>> \in Less)
    BY <1>2, <1>3
  <2>2. N - x \in Nat /\ N - m \in Nat
    OBVIOUS
  <2> QED
    BY <2>1, <2>2 DEF OpToRel
<1> HIDE DEF Below, Less
<1> QED
  BY <1>3, <1>4 DEF Max

(* So Highest is a sequence of the items, or 0, and none is above it.      *)
LEMMA HighestIs ==
  ASSUME NEW N \in Nat, NEW items, \A i \in items : i.seq \in 0 .. N
  PROVE  Highest(items) \in 0 .. N /\ \A i \in items : i.seq <= Highest(items)
<1>1. CASE items = {}
  BY <1>1 DEF Highest
<1>2. CASE items # {}
  <2> DEFINE S == {i.seq : i \in items}
  <2>1. S \in SUBSET (0 .. N) /\ S # {}
    BY <1>2
  <2>2. Max(S) \in S /\ \A x \in S : x <= Max(S)
    <3> HIDE DEF S
    <3> QED BY <2>1, GreatestIs
  <2>3. Highest(items) = Max(S)
    BY <1>2 DEF Highest
  <2> HIDE DEF Highest
  <2> QED
    BY <2>1, <2>2, <2>3
<1> QED
  BY <1>1, <1>2

-----------------------------------------------------------------------------
(* Type correctness of the seeder's side; the files' kinds are FilesType.  *)
SeederKinds ==
  /\ seeder \in SeederLabels
  /\ current \in SnapshotOrNone
  /\ session \in [Snapshot -> {"none", "canonical", "retained"}]
  /\ known \in 0 .. MaxSeq /\ put \in 0 .. MaxSeq
  /\ net \subseteq Item
  /\ state \in Item
  /\ faults \in 0 .. MaxFaults
  /\ put # 0 => seeder \in {"readback", "record"}

Flags ==
  /\ starting \in BOOLEAN /\ reload \in BOOLEAN /\ verified \in BOOLEAN
  /\ stats \in [hash : SnapshotOrNone, verified : BOOLEAN, seq : 0 .. MaxSeq]

(* One pair more than the retention count is there between retain and      *)
(* prune, and if the run is cut there, until a run prunes: that run finds  *)
(* the newest pair set aside already and adds none.                        *)
RetainedBounded ==
  \/ Len(retained) <= Retention
  \/ /\ Len(retained) = Retention + 1 /\ Aside
     /\ pipeline \in {"idle", "retain", "prune"}

TInv ==
  /\ FilesInv /\ SeederKinds /\ Flags /\ RetainedBounded
  /\ pipeline = "idle" <=> target = 0

(* What the lookup finds is no higher than what the nodes hold, so the     *)
(* bound on sequences leaves one for the put.                              *)
LEMMA PutFits ==
  ASSUME SeederKinds, NEW found \in Found
  PROVE  /\ found \in 0 .. Highest(net) /\ Highest(net) \in 0 .. MaxSeq
         /\ Spare => Attempt(found) \in Item
         /\ net' = net \cup {Attempt(found)} /\ current' = current /\ Spare'
              => Attempt(found) \in Item
<1> USE SnapshotsAssumption, BoundsAssumption
<1>1. Highest(net) \in 0 .. MaxSeq /\ \A i \in net : i.seq <= Highest(net)
  BY HighestIs DEF SeederKinds, Item
<1>2. current \in 0 .. Snapshots
  BY DEF SeederKinds, SnapshotOrNone
<1>3. found \in 0 .. Highest(net)
  BY <1>1 DEF Found, SeederKinds, Item
<1>4. Spare => Attempt(found) \in Item
  BY <1>1, <1>2, <1>3 DEF Spare, Attempt, Item, SnapshotOrNone
<1>5. ASSUME net' = net \cup {Attempt(found)}, current' = current, Spare'
      PROVE  Attempt(found) \in Item
  <2>1. \A i \in net' : i.seq \in 0 .. MaxSeq + 1
    BY <1>1, <1>3, <1>5 DEF SeederKinds, Item, Attempt
  <2>2. /\ Highest(net') \in 0 .. MaxSeq + 1
        /\ \A i \in net' : i.seq <= Highest(net')
    <3> HIDE DEF Attempt
    <3> QED BY <2>1, HighestIs
  <2>3. Highest(net') + (Snapshots - current) < MaxSeq
    BY <1>5 DEF Spare
  <2>4. Attempt(found).seq <= Highest(net') /\ Attempt(found).seq = found + 1
    <3>1. Attempt(found) \in net'
      BY <1>5
    <3> QED
      BY <2>2, <3>1 DEF Attempt
  <2> QED
    BY <1>1, <1>2, <1>3, <2>2, <2>3, <2>4 DEF Attempt, Item, SnapshotOrNone
<1> QED
  BY <1>1, <1>3, <1>4, <1>5

(* Where a torrent is loaded, or was to be, the session stays one. *)
LEMMA SessionFits ==
  ASSUME FilesInv, SeederKinds, Loadable
  PROVE  LET Places == [Snapshot -> {"none", "canonical", "retained"}] IN
           AfterPrevious \in Places /\ AfterCanonical \in Places /\ AfterRetained \in Places
<1> DEFINE Places == [Snapshot -> {"none", "canonical", "retained"}]
<1>1. torrent \in Snapshot /\ meta.hash \in SnapshotOrNone
  BY DEF Loadable, FilesInv, FilesType, CanonicalPair, Snapshot, SnapshotOrNone
<1>2. current \in SnapshotOrNone /\ session \in Places
  BY DEF SeederKinds
<1>3. AfterPrevious \in Places
  BY <1>2 DEF AfterPrevious
<1>4. AfterCanonical \in Places
  BY <1>3 DEF AfterCanonical
<1>5. AfterRetained \in Places
  BY <1>4 DEF AfterRetained
<1> QED
  BY <1>3, <1>4, <1>5

(* The seeder's steps keep its kinds. *)
LEMMA SeederStepKinds == FilesInv /\ SeederKinds /\ SeederNext => SeederKinds'
<1> SUFFICES ASSUME FilesInv, SeederKinds, SeederNext PROVE SeederKinds'
  OBVIOUS
<1> USE SnapshotsAssumption, BoundsAssumption DEF SeederKinds, SeederLabels
<1>1. CASE SystemdStarts
  BY <1>1 DEF SystemdStarts, Boot
<1>2. CASE Load
  BY <1>2, SessionFits DEF Load, FilesInv, FilesType
<1>3. CASE LoadFails
  BY <1>3 DEF LoadFails, GiveUpLoad, Exit, SnapshotOrNone
<1>10. CASE LoadAborts
  BY <1>10, SessionFits DEF LoadAborts, GiveUpLoad, Exit, SnapshotOrNone
<1>4. CASE Put
  <2>1. PICK found \in Found : /\ put' = Attempt(found).seq
                               /\ net' \in {net, net \cup {Attempt(found)}}
    BY <1>4 DEF Put
  <2>2. Attempt(found) \in Item
    BY <1>4, PutFits DEF Put
  <2>3. put' \in 0 .. MaxSeq /\ net' \subseteq Item
    BY <2>1, <2>2 DEF Item
  <2> QED
    BY <1>4, <2>3 DEF Put
<1>5. CASE PutFails
  <2>1. net' \subseteq Item
    BY <1>5, PutFits DEF PutFails
  <2> QED
    BY <1>5, <2>1 DEF PutFails, Published
<1>6. CASE ReadBack
  BY <1>6 DEF ReadBack, Item
<1>7. CASE ReadBackFails \/ RecordFails
  BY <1>7 DEF ReadBackFails, RecordFails, Published
<1>8. CASE Record
  BY <1>8 DEF Record, Published, Item
<1>9. CASE FinishStart \/ Report \/ Reload \/ Republish
  BY <1>9 DEF FinishStart, Report, Reload, Republish
<1> QED
  BY <1>1, <1>2, <1>3, <1>4, <1>5, <1>6, <1>7, <1>8, <1>9, <1>10 DEF SeederNext

(* Everybody else's steps end it, start it or leave it as it is. *)
LEMMA NextKinds == FilesInv /\ SeederKinds /\ [Next]_vars => SeederKinds'
<1> SUFFICES ASSUME FilesInv, SeederKinds, [Next]_vars PROVE SeederKinds'
  OBVIOUS
<1> USE SnapshotsAssumption, BoundsAssumption DEF SeederKinds, SeederLabels, seederVars
<1>1. CASE NewUpstream
  BY <1>1 DEF NewUpstream
<1>2. CASE PipelineNext
  BY <1>2 DEF PipelineNext, StartPipeline, Retain, RetainNothing, Prune, Link, WriteMeta,
     OpenTorrent, CreateTorrent, WriteHash, RequestReload, Boot, Succeed, TimeOut
<1>3. CASE PipelineDies
  BY <1>3 DEF PipelineDies
<1>4. CASE SeederDies
  BY <1>4 DEF SeederDies, Exit, SnapshotOrNone
<1>5. CASE UNCHANGED vars
  BY <1>5 DEF vars
<1> QED
  BY <1>1, <1>2, <1>3, <1>4, <1>5, SeederStepKinds DEF Next

(* Booleans stay Booleans, apart because another prover does them. *)
LEMMA NextFlags == SeederKinds /\ Flags /\ [Next]_vars => Flags'
<1> SUFFICES ASSUME SeederKinds, Flags, [Next]_vars PROVE Flags'
  OBVIOUS
<1> USE DEF Flags, seederVars
<1>1. CASE NewUpstream
  BY <1>1, Zenon DEF NewUpstream
<1>2. CASE PipelineNext
  BY <1>2, Zenon DEF PipelineNext, StartPipeline, Retain, RetainNothing, Prune, Link,
     WriteMeta, OpenTorrent, CreateTorrent, WriteHash, RequestReload, Boot, Succeed, TimeOut
<1>3. CASE PipelineDies
  BY <1>3, Zenon DEF PipelineDies
<1>4. CASE SeederDies
  BY <1>4, Zenon DEF SeederDies, Exit
<1>5. CASE UNCHANGED vars
  BY <1>5, Zenon DEF vars
<1>6. CASE Report
  BY <1>6 DEF Report, SeederKinds
<1>7. CASE SystemdStarts \/ Load \/ LoadFails \/ LoadAborts \/ FinishStart \/ Reload \/ Republish
  BY <1>7, Zenon DEF SystemdStarts, Boot, Load, LoadFails, LoadAborts, GiveUpLoad,
     Exit, FinishStart, Reload, Republish
<1>8. CASE Put \/ PutFails \/ ReadBack \/ ReadBackFails \/ Record \/ RecordFails
  BY <1>8, Zenon DEF Put, PutFails, ReadBack, ReadBackFails, Record, RecordFails, Published
<1> QED
  BY <1>1, <1>2, <1>3, <1>4, <1>5, <1>6, <1>7, <1>8 DEF Next, SeederNext

(* Retaining adds a pair only where there is room for one more. *)
LEMMA NextRetained == FilesInv /\ RetainedBounded /\ [Next]_vars => RetainedBounded'
<1> SUFFICES ASSUME FilesInv, RetainedBounded, [Next]_vars PROVE RetainedBounded'
  OBVIOUS
<1> USE RetentionAssumption
<1>1. retained \in Seq(Pair) /\ Len(retained) \in Nat
  BY LenProperties DEF FilesInv, FilesType
<1>2. Aside => meta.hash \in RetainedNames /\ meta.hash # 0
  <2>1. retained # <<>> => 1 \in DOMAIN retained /\ retained[1] \in Pair
    BY <1>1, LenProperties, EmptySeq
  <2> QED
    BY <2>1 DEF Aside, RetainedNames, Pair, Snapshot
<1>3. CASE Retain
  <2>0. pipeline' = "prune" /\ meta' = meta
    BY <1>3 DEF Retain, PipelineStep
  <2>1. CASE retained' = retained
    BY <1>3, <2>0, <2>1 DEF RetainedBounded, Aside, Retain, PipelineStep
  <2>2. CASE RetainPair /\ meta.hash \notin RetainedNames
    <3> DEFINE pair == [name |-> meta.hash, archive |-> stable, torrent |-> torrent]
    <3>1. pair \in Pair
      BY <1>3 DEF Retain, Loadable, FilesInv, FilesType, CanonicalPair, Pair,
         Snapshot, SnapshotOrNone
    <3>2. /\ retained' \in Seq(Pair) /\ retained' # <<>> /\ retained'[1] = pair
          /\ DOMAIN retained' = 1 .. Len(retained) + 1
      BY <1>1, <2>2, <3>1, Pushed DEF RetainPair
    <3>3. Len(retained') = Len(retained) + 1
      BY <1>1, <3>2, LenProperties
    <3>4. Len(retained) <= Retention
      BY <1>2, <2>2 DEF RetainedBounded
    <3> QED
      BY <1>1, <2>0, <3>2, <3>3, <3>4 DEF RetainedBounded, Aside
  <2> QED
    BY <1>3, <2>1, <2>2 DEF Retain
<1>4. CASE Prune
  <2>1. Len(retained) > Retention => Len(retained') = Retention
    <3> SUFFICES ASSUME Len(retained) > Retention PROVE Len(retained') = Retention
      OBVIOUS
    <3>1. retained' \in Seq(Pair) /\ DOMAIN retained' = 1 .. Retention
      BY <1>1, <1>4, Cut DEF Prune
    <3> QED
      BY <3>1, LenProperties
  <2> QED
    BY <1>1, <1>4, <2>1 DEF Prune, RetainedBounded
<1>5. CASE RetainNothing
  <2>1. meta.hash = 0
    BY <1>5 DEF RetainNothing, Loadable, FilesInv, FilesType, Progression, CanonicalPair,
       SnapshotOrNone
  <2> QED
    BY <1>2, <1>5, <2>1 DEF RetainNothing, RetainedBounded, fileVars
<1>6. CASE StartPipeline \/ Succeed \/ TimeOut \/ PipelineDies
  BY <1>6 DEF StartPipeline, Succeed, TimeOut, PipelineDies, EndPipeline, RetainedBounded,
     Aside, fileVars
<1>7. CASE Link \/ WriteMeta \/ OpenTorrent \/ CreateTorrent \/ WriteHash \/ RequestReload
  BY <1>7 DEF Link, WriteMeta, OpenTorrent, CreateTorrent, WriteHash, RequestReload,
     PipelineStep, RetainedBounded, fileVars
<1>8. CASE UNCHANGED <<fileVars, pipelineVars>>
  BY <1>8 DEF RetainedBounded, Aside, fileVars, pipelineVars
<1>9. SeederNext \/ SeederDies \/ NewUpstream \/ UNCHANGED vars
        => UNCHANGED <<fileVars, pipelineVars>>
  BY DEF SeederNext, SystemdStarts, Load, LoadFails, LoadAborts, GiveUpLoad, Put,
     PutFails, ReadBack, ReadBackFails, Record, RecordFails, FinishStart, Report,
     Reload, Republish, SeederDies, NewUpstream, vars
<1> QED
  BY <1>3, <1>4, <1>5, <1>6, <1>7, <1>8, <1>9 DEF Next, PipelineNext

(* A run has a snapshot to process, and only a run has. *)
LEMMA NextTarget ==
  FilesInv /\ FilesInv' /\ (pipeline = "idle" <=> target = 0) /\ [Next]_vars
    => (pipeline = "idle" <=> target = 0)'
<1> SUFFICES ASSUME FilesInv, FilesInv', pipeline = "idle" <=> target = 0, [Next]_vars
             PROVE  pipeline' = "idle" <=> target' = 0
  OBVIOUS
<1>1. pipeline' # "idle" => target' # 0
  BY DEF FilesInv, FilesType, Snapshot
<1>2. pipeline' = "idle" => target' = 0
  BY DEF Next, NewUpstream, PipelineNext, StartPipeline, Retain, RetainNothing, Prune,
     Link, WriteMeta, OpenTorrent, CreateTorrent, WriteHash, RequestReload,
     PipelineStep, Succeed, TimeOut, EndPipeline, PipelineDies, SeederNext,
     SystemdStarts, Load, LoadFails, LoadAborts, GiveUpLoad, Put, PutFails, ReadBack,
     ReadBackFails, Record, RecordFails, FinishStart, Report, Reload, Republish,
     SeederDies, vars, pipelineVars
<1> QED
  BY <1>1, <1>2

LEMMA InitTInv == Init => TInv
<1> SUFFICES ASSUME Init PROVE TInv
  OBVIOUS
<1> USE SnapshotsAssumption, BoundsAssumption, RetentionAssumption DEF Init
<1>1. SeederKinds
  BY DEF SeederKinds, SeederLabels, SnapshotOrNone, Item, NoItem
<1>2. Flags
  <2>1. starting \in BOOLEAN /\ reload \in BOOLEAN /\ verified \in BOOLEAN
    BY Zenon
  <2>2. stats \in [hash : SnapshotOrNone, verified : BOOLEAN, seq : 0 .. MaxSeq]
    BY SMT DEF SnapshotOrNone
  <2> QED
    BY <2>1, <2>2 DEF Flags
<1>3. RetainedBounded
  BY EmptySeq DEF RetainedBounded
<1> QED
  BY <1>1, <1>2, <1>3, FilesInit DEF TInv

LEMMA ProducerInvariance == Spec => []TInv
<1>1. TInv /\ [Next]_vars => TInv'
  BY FilesNext, NextKinds, NextFlags, NextRetained, NextTarget DEF TInv
<1> QED
  BY <1>1, InitTInv, PTL DEF Spec

(* Every file and attribute of the host holds a value of its kind, and no  *)
(* run, wherever one was cut, leaves more than one pair over the retention *)
(* count (producer/retention.py:12-39).                                    *)
THEOREM ProducerTypeCorrect == Spec => []TypeOK
<1>1. TInv => TypeOK
  <2> SUFFICES ASSUME TInv PROVE TypeOK
    OBVIOUS
  <2>1. Len(retained) <= Retention + 1
    BY RetentionAssumption, LenProperties DEF TInv, RetainedBounded, FilesInv, FilesType
  <2> QED
    BY <2>1 DEF TInv, FilesInv, FilesType, SeederKinds, Flags, TypeOK
<1> QED
  BY <1>1, ProducerInvariance, PTL

-----------------------------------------------------------------------------
(* publisher_state.json does not go back.                                  *)

(* No later than the archive, nor than the torrent the file will name.     *)
NotAfter(h) == h <= stable /\ (torrent = Torn \/ h <= torrent)

(* The seeder is in its loop or publishes: it has a torrent. *)
Busy == seeder \notin {"down", "load"} \/ (seeder = "load" /\ ~starting)

(* What is recorded is no later than what the seeder has, or will load.    *)
InOrder ==
  /\ NotAfter(current) /\ NotAfter(state.hash)
  /\ current # 0 => state.hash <= current
  /\ Busy => current # 0

(* The archive is replaced by a later one, and then the torrent by its.    *)
LEMMA StaysNotAfter ==
  ASSUME FilesInv, [Next]_vars, NEW h \in SnapshotOrNone, NotAfter(h)
  PROVE  h <= stable' /\ (torrent' = Torn \/ h <= torrent')
<1>1. h \in Nat /\ stable \in Nat /\ target \in Nat
  BY SnapshotsAssumption DEF FilesInv, FilesType, SnapshotOrNone
<1>2. CASE Link
  <2>1. stable <= target /\ stable' = target /\ torrent' = torrent
    BY <1>2, SMT DEF Link, PipelineStep, FilesInv, Progression
  <2>2. QED
    BY <1>1, <2>1 DEF NotAfter
<1>3. CASE OpenTorrent \/ CreateTorrent
  BY <1>1, <1>3, SMT DEF OpenTorrent, CreateTorrent, NotAfter
<1>4. CASE UNCHANGED <<stable, torrent>>
  BY <1>4 DEF NotAfter
<1>5. Next => Link \/ OpenTorrent \/ CreateTorrent \/ UNCHANGED <<stable, torrent>>
  BY Zenon DEF Next, NewUpstream, PipelineNext, StartPipeline, Retain, RetainNothing, Prune,
     WriteMeta, WriteHash, RequestReload, Succeed, TimeOut, PipelineDies, SeederNext,
     SystemdStarts, Load, LoadFails, LoadAborts, Put, PutFails, ReadBack, ReadBackFails,
     Record, RecordFails, FinishStart, Report, Reload, Republish, SeederDies, fileVars
<1>6. QED
  BY <1>2, <1>3, <1>4, <1>5, Zenon DEF vars, fileVars

(* The seeder's torrent only changes for the torrent file's, which is whole *)
(* and the metadata's.                                                     *)
LEMMA CurrentIsTorrent ==
  ASSUME FilesInv, [Next]_vars
  PROVE  \/ current' \in {0, current}
         \/ /\ current' = torrent /\ torrent \in Snapshot /\ torrent <= stable
            /\ UNCHANGED <<stable, torrent>>
<1>1. CASE Load
  <2>1. current' = torrent /\ UNCHANGED <<stable, torrent>>
    BY <1>1, Zenon DEF Load, Loadable, FilesInv, CanonicalPair, fileVars
  <2>2. torrent \in Snapshot /\ torrent <= stable
    BY <1>1, SnapshotsAssumption, SMT DEF Load, Loadable, FilesInv, FilesType, Progression,
       CanonicalPair, Snapshot, SnapshotOrNone
  <2> QED
    BY <2>1, <2>2
<1>2. (Exit => current' = 0) /\ (Boot => current' = current)
  BY SMT DEF Exit, Boot
<1>3. GiveUpLoad => current' = 0 \/ current' = current
  BY <1>2, Zenon DEF GiveUpLoad
<1>4. Next => Load \/ current' = 0 \/ current' = current
  BY <1>2, <1>3, Zenon DEF Next, NewUpstream, PipelineNext, StartPipeline, Retain,
     RetainNothing, Prune, Link, WriteMeta, OpenTorrent, CreateTorrent, WriteHash,
     RequestReload, Succeed, TimeOut, EndPipeline, PipelineDies, SeederNext, SystemdStarts,
     LoadFails, LoadAborts, Put, PutFails, ReadBack, ReadBackFails, Record, RecordFails,
     FinishStart, Report, Reload, Republish, SeederDies, seederVars
<1>5. QED
  BY <1>1, <1>4 DEF vars, seederVars

(* The seeder leaves its start, and comes to publish, with a torrent only. *)
LEMMA BusyHasTorrent ==
  ASSUME TInv, Busy => current # 0, [Next]_vars PROVE Busy' => current' # 0
<1> USE DEF Busy, SeederLabels
<1>1. CASE SystemdStarts \/ RequestReload
  BY <1>1 DEF SystemdStarts, RequestReload, Boot, seederVars
<1>2. CASE Load \/ LoadFails \/ LoadAborts
  BY <1>2 DEF Load, Loadable, LoadFails, LoadAborts, GiveUpLoad, Exit
<1>3. CASE SeederDies
  BY <1>3 DEF SeederDies, Exit
<1>4. CASE Put \/ PutFails \/ ReadBack \/ ReadBackFails \/ Record \/ RecordFails
  BY <1>4 DEF Put, PutFails, ReadBack, ReadBackFails, Record, RecordFails, Published
<1>5. CASE FinishStart \/ Report \/ Reload \/ Republish
  BY <1>5 DEF FinishStart, Report, Reload, Republish, TInv, Flags
<1>6. CASE UNCHANGED seederVars
  BY <1>6 DEF seederVars
<1>7. PipelineNext \/ PipelineDies \/ NewUpstream \/ UNCHANGED vars
        => RequestReload \/ UNCHANGED seederVars
  BY Zenon DEF PipelineNext, StartPipeline, Retain, RetainNothing, Prune, Link, WriteMeta,
     OpenTorrent, CreateTorrent, WriteHash, Succeed, TimeOut, PipelineDies, NewUpstream, vars
<1> QED
  BY <1>1, <1>2, <1>3, <1>4, <1>5, <1>6, <1>7 DEF Next, SeederNext

LEMMA NextInOrder ==
  ASSUME TInv, InOrder, [Next]_vars PROVE InOrder'
<1> USE SnapshotsAssumption
<1>1. current \in SnapshotOrNone /\ state.hash \in SnapshotOrNone /\ stable \in Nat
  BY DEF TInv, SeederKinds, Item, FilesInv, FilesType, SnapshotOrNone
<1>2. \/ current' \in {0, current}
      \/ /\ current' = torrent /\ torrent \in Snapshot /\ torrent <= stable
         /\ UNCHANGED <<stable, torrent>>
  BY CurrentIsTorrent DEF TInv
<1>3. /\ current <= stable' /\ (torrent' = Torn \/ current <= torrent')
      /\ state.hash <= stable' /\ (torrent' = Torn \/ state.hash <= torrent')
  BY <1>1, StaysNotAfter DEF TInv, InOrder
<1>4. /\ stable' \in Nat
      /\ torrent' \in Nat
  BY FilesNext DEF TInv, FilesInv, FilesType, SnapshotOrNone, Torn
<1>5. \/ state' = state
      \/ state'.hash = current /\ current' = current /\ seeder = "record"
  <2>1. CASE Record
    BY <2>1, SMT DEF Record
  <2>2. QED
    BY <2>1, RecordedAfterReadBack
<1>6. NotAfter(current)'
  BY <1>1, <1>2, <1>3, <1>4 DEF NotAfter, Snapshot, SnapshotOrNone
<1>7. NotAfter(state.hash)'
  BY <1>3, <1>5 DEF NotAfter
<1>8. (current # 0 => state.hash <= current)'
  BY <1>1, <1>2, <1>5 DEF InOrder, NotAfter, Torn, Snapshot, SnapshotOrNone
<1> QED
  BY <1>6, <1>7, <1>8, BusyHasTorrent DEF InOrder

(* publisher_state.json never goes back to an earlier snapshot, wherever a *)
(* run or the seeder was cut, whatever its lookups found and although a    *)
(* load may raise and leave the old torrent current                        *)
(* (producer/seeder.py:48-80, 448-484).                                    *)
THEOREM NeverEarlier == Spec => StateNeverEarlier
<1>1. Init => InOrder
  BY SnapshotsAssumption DEF Init, InOrder, NotAfter, Busy, NoItem
<1>2. TInv /\ InOrder /\ [Next]_vars => InOrder'
  BY NextInOrder
<1>3. TInv /\ InOrder /\ [Next]_vars => [state'.hash >= state.hash]_state
  <2> SUFFICES ASSUME TInv, InOrder, [Next]_vars, Record PROVE state'.hash >= state.hash
    BY RecordedAfterReadBack
  <2>1. state'.hash = current /\ current # 0
    BY DEF Record, InOrder, Busy
  <2>2. state.hash \in Nat /\ current \in Nat
    BY DEF TInv, SeederKinds, Item, SnapshotOrNone
  <2> QED
    BY <2>1, <2>2 DEF InOrder
<1> QED
  BY <1>1, <1>2, <1>3, ProducerInvariance, PTL DEF Spec, StateNeverEarlier
=============================================================================
