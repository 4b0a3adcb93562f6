-------------------------- MODULE StatusChainProofs --------------------------
(***************************************************************************)
(* What the dashboard can show, for any number of snapshots, sequences,    *)
(* deaths and loads that raise.                                            *)
(*                                                                         *)
(* ShownWasPublished is not inductive: the status came through a save from *)
(* a request, the request from what the push had read, that from the       *)
(* publisher's state, and that from the item the seeder read back.  The    *)
(* invariant says of each of these places that what it holds was held by   *)
(* the DHT.                                                                *)
(*                                                                         *)
(* NeverOlderTorrent likewise needs that no hash on this way is later than *)
(* the archive, nor than the torrent file where that is whole: the archive *)
(* is replaced by a later one, and then the torrent by the archive's.      *)
(*                                                                         *)
(* Last, the API in the chain is StatusApi: every request the host sends   *)
(* is a push that StatusApi allows, so what StatusApiProofs shows holds of *)
(* the dashboard of this producer.                                         *)
(***************************************************************************)
EXTENDS StatusChain, SnapshotProducerProofs, TLAPS

Held(i) == [seq |-> i.seq, hash |-> i.hash] \in published

(* What the producer's host knows of the DHT. *)
HostHeld ==
  /\ net \subseteq published
  /\ \A i \in published : i = [seq |-> i.seq, hash |-> i.hash]
  /\ seeder = "record" => [seq |-> known, hash |-> current] \in published
  /\ state.hash # 0 => Held(state)
  /\ reading # NoItem => Held(reading)

(* What was sent to the API. *)
ApiHeld ==
  /\ request # NoStatus => Held(request)
  /\ saving # NoStatus => Held(saving)
  /\ statusFile # NoStatus => Held(statusFile)
  /\ status # NoStatus => Held(status)

(* No hash on the way is later than the archive and its torrent file. *)
NotLater ==
  /\ NotAfter(current) /\ NotAfter(state.hash)
  /\ reading.hash \in SnapshotOrNone /\ NotAfter(reading.hash)
  /\ NeverOlderTorrent

-----------------------------------------------------------------------------
(* What every step does to the items the DHT has held. *)
LEMMA PublishedGrows ==
  ASSUME [ChainNext]_chainVars PROVE published \subseteq published'
<1>1. CASE HostStep
  BY <1>1, Zenon DEF HostStep
<1>2. CASE Forget \/ StartPush \/ Send \/ Receive \/ Lose \/ ApiStep \/ UNCHANGED chainVars
  BY <1>2, Zenon DEF Forget, StartPush, Send, Receive, Lose, ApiStep, chainVars
<1>3. QED
  BY <1>1, <1>2, Zenon DEF ChainNext

(* The push and the API leave the producer's host alone. *)
LEMMA HostIsNext == [ChainNext]_chainVars => [Next]_vars \/ Forget
BY Zenon DEF ChainNext, HostStep, StartPush, Send, Receive, Lose, ApiStep, chainVars

LEMMA FilesKeep == FilesInv /\ [ChainNext]_chainVars => FilesInv'
<1>1. Forget => UNCHANGED Files
  BY DEF Forget, Files, fileVars, pipelineVars
<1>2. QED
  BY <1>1, HostIsNext, FilesNext, FilesStutter

(* The producer's invariant does not depend on what the DHT forgets. *)
LEMMA HostTyped == TInv /\ [ChainNext]_chainVars => TInv'
<1> SUFFICES ASSUME TInv, [ChainNext]_chainVars PROVE TInv'
  OBVIOUS
<1>1. CASE [Next]_vars
  BY <1>1, FilesNext, NextKinds, NextFlags, NextRetained, NextTarget DEF TInv
<1>2. CASE Forget
  <2>1. UNCHANGED <<fileVars, pipelineVars, seederVars, reload, state, faults>> /\ net' = {}
    BY <1>2 DEF Forget
  <2>2. FilesInv'
    BY <1>2, FilesKeep DEF ChainNext, TInv
  <2>3. SeederKinds' /\ Flags'
    BY <2>1 DEF TInv, SeederKinds, Flags, seederVars
  <2>4. RetainedBounded' /\ (pipeline = "idle" <=> target = 0)'
    BY <2>1 DEF TInv, RetainedBounded, Aside, fileVars, pipelineVars
  <2> QED
    BY <2>2, <2>3, <2>4 DEF TInv
<1> QED
  BY <1>1, <1>2, HostIsNext

LEMMA InitHeld == ChainInit => HostHeld /\ ApiHeld
BY SMT DEF ChainInit, Init, Api!Init, HostHeld, ApiHeld, Held, NoItem

(* What the seeder knows when it records a publication was read back; what *)
(* the state and the push hold came from there.                            *)
LEMMA HostStepHeld ==
  ASSUME HostHeld, HostStep PROVE HostHeld'
<1> USE DEF HostHeld, Held
<1>1. Next /\ published' = published \cup net' /\ reading' = reading
  BY Zenon DEF HostStep, pushVars
<1>2. net' \subseteq net \cup Attempts
  BY <1>1, NetGrows
<1>3. net' \subseteq published' /\ (\A i \in published : i = [seq |-> i.seq, hash |-> i.hash])'
  BY <1>1, <1>2, SMT DEF Attempts, Attempt
<1>4. (seeder = "record" => [seq |-> known, hash |-> current] \in published)'
  <2>1. CASE ReadBack
    <3>1. PICK i \in net : i.hash = current /\ known' = i.seq
      BY <2>1, Zenon DEF ReadBack
    <3>2. current' = current /\ i \in published /\ i = [seq |-> i.seq, hash |-> i.hash]
      BY <2>1, Zenon DEF ReadBack
    <3>3. QED
      BY <1>1, <3>1, <3>2
  <2>2. QED
    BY <1>1, <2>1, RecordedAfterReadBack
<1>5. (state.hash # 0 => Held(state))'
  <2>1. CASE Record
    BY <1>1, <2>1, SMT DEF Record
  <2>2. QED
    BY <1>1, <2>1, RecordedAfterReadBack
<1>6. QED
  BY <1>1, <1>3, <1>4, <1>5 DEF NoItem

(* A save moves what a request brought towards the status. *)
LEMMA ApiStepHeld ==
  ASSUME ApiHeld, ApiStep PROVE ApiHeld'
<1> USE DEF ApiHeld, Held, Api!job, Api!files, Api!memory
<1>1. request' = request /\ published' = published
  BY Zenon DEF ApiStep, pushVars
<1>2. saving' \in {saving, statusFile, NoStatus}
  BY SMT DEF ApiStep, Api!Start, Api!StartWith, Api!Crash, Api!SaveStatus, Api!SaveTorrent,
     Api!SaveNamed, Api!Commit, Api!SaveFails
<1>3. statusFile' \in {statusFile, saving} /\ status' \in {status, statusFile, saving}
  BY SMT DEF ApiStep, Api!Start, Api!StartWith, Api!Crash, Api!SaveStatus, Api!SaveTorrent,
     Api!SaveNamed, Api!Commit, Api!SaveFails
<1>4. QED
  BY <1>1, <1>2, <1>3

LEMMA HeldKeeps ==
  ASSUME HostHeld, ApiHeld, [ChainNext]_chainVars PROVE HostHeld' /\ ApiHeld'
<1>1. CASE HostStep
  <2>1. UNCHANGED <<request, apiVars>>
    BY <1>1, Zenon DEF HostStep, pushVars
  <2>2. published \subseteq published'
    BY PublishedGrows
  <2>3. ApiHeld'
    BY <2>1, <2>2 DEF ApiHeld, Held, apiVars
  <2>4. QED
    BY <1>1, <2>3, HostStepHeld
<1>2. CASE Forget \/ StartPush \/ Send
  <2>1. UNCHANGED <<apiVars, published, seeder, known, current, state>> /\ net' \in {net, {}}
    BY <1>2, Zenon DEF Forget, StartPush, Send, vars, seederVars
  <2>2. CASE Forget \/ StartPush
    <3>1. request' = request /\ reading' \in {reading, state}
      BY <2>2, Zenon DEF Forget, StartPush, pushVars
    <3>2. reading' = state => state.hash # 0 \/ reading' = reading
      BY <2>2, Zenon DEF Forget, StartPush, pushVars
    <3>3. QED
      BY <2>1, <3>1, <3>2 DEF HostHeld, ApiHeld, Held, NoItem, apiVars
  <2>3. CASE Send
    <3>1. /\ reading # NoItem /\ reading' = NoItem
          /\ \E bytes \in TorrentBytes :
               request' = [seq |-> reading.seq, hash |-> reading.hash,
                           bytes |-> bytes, time |-> 1]
      BY <2>3, Zenon DEF Send, Payload
    <3>2. HostHeld'
      BY <2>1, <3>1 DEF HostHeld, Held, NoItem
    <3>3. Held(request)'
      BY <2>1, <3>1, SMT DEF HostHeld, Held
    <3>4. QED
      BY <2>1, <3>1, <3>2, <3>3 DEF ApiHeld, Held, apiVars
  <2>4. QED
    BY <1>2, <2>2, <2>3
<1>3. CASE Receive
  <2>1. request # NoStatus /\ request' = NoStatus /\ UNCHANGED <<vars, reading, published>>
    BY <1>3, Zenon DEF Receive
  <2>2. saving' \in {saving, request} /\ UNCHANGED <<statusFile, status>>
    BY <1>3, SMT DEF Receive, Api!Accept, Api!Repeat, Api!files, Api!memory, Api!job, apiVars
  <2>3. HostHeld'
    BY <2>1 DEF HostHeld, Held, vars, seederVars, NoItem
  <2>4. ApiHeld'
    BY <2>1, <2>2 DEF ApiHeld, Held
  <2>5. QED
    BY <2>3, <2>4
<1>4. CASE Lose \/ ApiStep \/ UNCHANGED chainVars
  <2>1. UNCHANGED <<vars, reading, published>>
    BY <1>4, Zenon DEF Lose, ApiStep, chainVars, pushVars
  <2>2. HostHeld'
    BY <2>1 DEF HostHeld, Held, vars, seederVars, NoItem
  <2>3. CASE ApiStep
    BY <2>2, <2>3, ApiStepHeld
  <2>4. CASE Lose \/ UNCHANGED chainVars
    <3>1. request' \in {request, NoStatus} /\ UNCHANGED <<apiVars, published>>
      BY <2>4, SMT DEF Lose, chainVars, pushVars
    <3>2. ApiHeld'
      BY <3>1 DEF ApiHeld, Held, apiVars
    <3>3. QED
      BY <2>2, <3>2
  <2>5. QED
    BY <1>4, <2>3, <2>4
<1>5. QED
  BY <1>1, <1>2, <1>3, <1>4, Zenon DEF ChainNext

-----------------------------------------------------------------------------
(* A hash that is not after the torrent file stays so. *)
LEMMA KeepsBehind ==
  ASSUME TInv, [ChainNext]_chainVars, NEW h \in SnapshotOrNone, NotAfter(h)
  PROVE  h <= stable' /\ (torrent' = Torn \/ h <= torrent')
<1>1. Forget => UNCHANGED <<torrent, stable>>
  BY DEF Forget, fileVars
<1>2. QED
  BY <1>1, HostIsNext, StaysNotAfter DEF TInv, NotAfter

LEMMA NotLaterKeeps ==
  ASSUME TInv, TInv', NotLater, [ChainNext]_chainVars PROVE NotLater'
<1> USE SnapshotsAssumption
<1>0. /\ current \in SnapshotOrNone /\ state.hash \in SnapshotOrNone
      /\ stable' \in Nat /\ torrent' \in Nat
  <2>1. current \in SnapshotOrNone /\ state.hash \in SnapshotOrNone
    BY DEF TInv, SeederKinds, Item
  <2>2. FilesType'
    BY DEF TInv, FilesInv
  <2>3. stable' \in SnapshotOrNone /\ torrent' \in SnapshotOrNone \cup {Torn}
    BY <2>2 DEF FilesType
  <2> QED
    BY <2>1, <2>3 DEF SnapshotOrNone, Torn
<1>1. NotAfter(current)'
  <2>1. current <= stable' /\ (torrent' = Torn \/ current <= torrent')
    BY <1>0, KeepsBehind DEF NotLater
  <2>2. Forget => current' = current
    BY DEF Forget, seederVars
  <2>3. \/ current' \in {0, current}
        \/ /\ current' = torrent /\ torrent \in Snapshot /\ torrent <= stable
           /\ UNCHANGED <<stable, torrent>>
    BY <2>2, HostIsNext, CurrentIsTorrent DEF TInv
  <2> QED
    BY <1>0, <2>1, <2>3 DEF NotAfter
<1>2. NotAfter(state.hash)'
  <2>1. state' = state \/ state'.hash = current
    <3>1. Forget => state' = state
      BY DEF Forget
    <3>2. Record => state'.hash = current
      BY SMT DEF Record
    <3> QED
      BY <3>1, <3>2, HostIsNext, RecordedAfterReadBack
  <2> QED
    BY <1>0, <2>1, KeepsBehind DEF NotLater, NotAfter
<1>3. reading.hash' \in SnapshotOrNone /\ NotAfter(reading.hash)'
  <2>1. reading' \in {reading, state, NoItem}
    BY SMT DEF ChainNext, HostStep, Forget, StartPush, Send, Receive, Lose, ApiStep,
       chainVars, pushVars
  <2>2. NotAfter(0)'
    BY <1>0 DEF NotAfter
  <2>3. NoItem.hash = 0 /\ 0 \in SnapshotOrNone
    BY DEF NoItem, SnapshotOrNone
  <2> QED
    BY <1>0, <2>1, <2>2, <2>3, KeepsBehind DEF NotLater, NotAfter
<1>4. NeverOlderTorrent'
  <2>1. CASE Send
    <3>1. PICK bytes \in TorrentBytes :
            request' = [seq |-> reading.seq, hash |-> reading.hash,
                        bytes |-> bytes, time |-> 1]
      BY <2>1, Zenon DEF Send, Payload
    <3>2. bytes \in Snapshot => bytes = torrent /\ torrent # Torn
      BY DEF TorrentBytes, Torn, Snapshot
    <3>3. bytes \in Snapshot => bytes >= reading.hash
      BY <3>2 DEF NotLater, NotAfter, Snapshot, SnapshotOrNone
    <3> QED
      BY <3>1, <3>3 DEF NeverOlderTorrent
  <2>2. request' \in {request, NoStatus} \/ Send
    BY SMT DEF ChainNext, HostStep, Forget, StartPush, Receive, Lose, ApiStep, chainVars,
           pushVars
  <2> QED
    BY <2>1, <2>2 DEF NotLater, NeverOlderTorrent
<1> QED
  BY <1>1, <1>2, <1>3, <1>4 DEF NotLater

-----------------------------------------------------------------------------
IInv == TInv /\ HostHeld /\ ApiHeld /\ NotLater

(* The invariant holds of every behaviour of the two hosts. *)
THEOREM ChainInvariance == ChainSpec => []IInv
<1>1. ChainInit => IInv
  <2>1. ChainInit => Init /\ reading = NoItem /\ request = NoStatus
    BY DEF ChainInit
  <2>2. Init /\ reading = NoItem /\ request = NoStatus => NotLater
    BY SnapshotsAssumption, SMT DEF Init, NotLater, NotAfter, NeverOlderTorrent, NoItem,
       SnapshotOrNone
  <2>3. QED
    BY <2>1, <2>2, InitTInv, InitHeld DEF IInv
<1>2. IInv /\ [ChainNext]_chainVars => IInv'
  BY HostTyped, HeldKeeps, NotLaterKeeps DEF IInv
<1>3. QED
  BY <1>1, <1>2, PTL DEF ChainSpec

(* Whatever is lost, delayed, cut or read at different times, the          *)
(* dashboard shows only what the DHT has held, as it held it               *)
(* (producer/push_status.py:80-106, producer/seeder.py:48-98).             *)
THEOREM OnlyPublishedIsShown == ChainSpec => []ShownWasPublished
<1>1. IInv => ShownWasPublished
  BY DEF IInv, ApiHeld, Held, ShownWasPublished
<1>2. QED
  BY ChainInvariance, <1>1, PTL

(* A push carries the torrent of the hash it announces or a later one, if  *)
(* it carries one (producer/push_status.py:80, 131-135).                   *)
THEOREM PushesNoOlderTorrent == ChainSpec => []NeverOlderTorrent
<1>1. IInv => NeverOlderTorrent
  BY DEF IInv, NotLater
<1>2. QED
  BY ChainInvariance, <1>1, PTL

-----------------------------------------------------------------------------
(* The requests of the host are pushes StatusApi knows.                    *)

(* What the DHT has held was put, with a sequence of its own from 1 on.    *)
Numbered == published \subseteq [seq : 1 .. MaxSeq, hash : SnapshotOrNone]

(* Hence what the push sends is a sequence and a hash with a torrent.      *)
Sendable ==
  /\ reading # NoItem => reading.seq \in 1 .. MaxSeq /\ reading.hash \in Snapshot
  /\ request # NoStatus => request \in Payloads

HInv == IInv /\ Numbered /\ Sendable

(* A put is signed above what the DHT holds, be it nothing. *)
LEMMA NumberedKeeps ==
  ASSUME TInv, TInv', Numbered, HostHeld, [ChainNext]_chainVars PROVE Numbered'
<1>1. CASE HostStep
  <2>1. \A found \in Found : found \in Nat
    BY BoundsAssumption DEF Found, TInv, SeederKinds, Item
  <2>2. \A i \in Attempts : i.seq >= 1
    BY <2>1 DEF Attempts, Attempt
  <2>3. published' = published \cup net' /\ net' \subseteq net \cup Attempts
    BY <1>1, NetGrows, Zenon DEF HostStep
  <2>4. net' \subseteq Item
    BY DEF TInv, SeederKinds
  <2>5. \A i \in net' \ published : i \in [seq : 1 .. MaxSeq, hash : SnapshotOrNone]
    <3> SUFFICES ASSUME NEW i \in net' \ published
                 PROVE  i \in [seq : 1 .. MaxSeq, hash : SnapshotOrNone]
      OBVIOUS
    <3>1. i.seq >= 1 /\ i \in Item
      BY <2>2, <2>3, <2>4 DEF HostHeld
    <3> QED
      BY <3>1, BoundsAssumption DEF Item
  <2> QED
    BY <2>3, <2>5 DEF Numbered
<1>2. ~HostStep => published' = published
  BY Zenon DEF ChainNext, Forget, StartPush, Send, Receive, Lose, ApiStep, chainVars
<1> QED
  BY <1>1, <1>2 DEF Numbered

LEMMA SendableKeeps ==
  ASSUME IInv, Numbered, Sendable, [ChainNext]_chainVars PROVE Sendable'
<1> USE SnapshotsAssumption, BoundsAssumption
<1>1. CASE StartPush
  <2>1. state.hash # 0 /\ reading' = state /\ request' = request
    BY <1>1, Zenon DEF StartPush
  <2>2. state \in Item /\ [seq |-> state.seq, hash |-> state.hash] \in published
    BY <2>1 DEF IInv, HostHeld, Held, TInv, SeederKinds
  <2>3. state.seq \in 1 .. MaxSeq /\ state.hash \in Snapshot
    BY <2>1, <2>2 DEF Numbered, Item, Snapshot, SnapshotOrNone
  <2> QED
    BY <2>1, <2>3 DEF Sendable
<1>2. CASE Send
  <2>1. reading # NoItem /\ reading' = NoItem
        /\ \E bytes \in TorrentBytes :
             request' = [seq |-> reading.seq, hash |-> reading.hash,
                         bytes |-> bytes, time |-> 1]
    BY <1>2, Zenon DEF Send, Payload
  <2>2. TorrentBytes \subseteq SnapshotOrNone \cup {Torn}
    BY DEF TorrentBytes, IInv, TInv, FilesInv, FilesType, SnapshotOrNone
  <2>3. request' \in Payloads
    BY <2>1, <2>2 DEF Sendable, Payloads
  <2> QED
    BY <2>1, <2>3 DEF Sendable
<1>3. ~StartPush /\ ~Send => reading' = reading /\ request' \in {request, NoStatus}
  BY SMT DEF ChainNext, HostStep, Forget, Receive, Lose, ApiStep, chainVars, pushVars
<1> QED
  BY <1>1, <1>2, <1>3 DEF Sendable

(* What the two hosts do is, for the status API, one of its own steps. *)
LEMMA ApiIsNext == HInv /\ [ChainNext]_chainVars => [Api!Next]_(Api!vars)
<1> SUFFICES ASSUME HInv, ChainNext PROVE Api!Next \/ UNCHANGED apiVars
  BY DEF chainVars, apiVars, Api!vars, Api!memory, Api!files, Api!job
<1>1. CASE Receive
  <2>1. request \in Payloads
    BY <1>1 DEF Receive, HInv, Sendable
  <2> QED
    BY <1>1, <2>1, Zenon DEF Receive, Api!Next
<1>2. CASE ApiStep
  BY <1>2, Zenon DEF ApiStep, Api!Next
<1>3. CASE HostStep \/ Forget \/ StartPush \/ Send \/ Lose
  BY <1>3, Zenon DEF HostStep, Forget, StartPush, Send, Lose
<1> QED
  BY <1>1, <1>2, <1>3 DEF ChainNext

LEMMA HostInvariance == ChainSpec => []HInv
<1>1. ChainInit => Numbered /\ Sendable
  BY DEF ChainInit, Numbered, Sendable
<1>2. IInv /\ IInv' /\ Numbered /\ Sendable /\ [ChainNext]_chainVars
        => Numbered' /\ Sendable'
  BY NumberedKeeps, SendableKeeps DEF IInv
<1> QED
  BY <1>1, <1>2, ChainInvariance, PTL DEF ChainSpec, HInv

(* Every push that the producer's host makes of its files is one that      *)
(* StatusApi's set of pushes has, so that what is proved of StatusApi      *)
(* holds of the API in the chain (producer/push_status.py:80-135).         *)
THEOREM ChainRunsApi == ChainSpec => Api!Spec
<1>1. ChainInit => Api!Init
  BY DEF ChainInit
<1> QED
  BY <1>1, HostInvariance, ApiIsNext, PTL DEF ChainSpec, Api!Spec

(* What StatusApiProofs shows of the API, shown of the API in the chain.   *)
ApiProofs == INSTANCE StatusApiProofs WITH
  Hash <- Snapshot, Bytes <- Snapshot \cup {Torn}, NoBytes <- 0, Push <- Payloads,
  torrent <- shownTorrent

(* The chain's payloads are as StatusApi assumes its pushes to be. *)
LEMMA PayloadsFit ==
  /\ 0 \notin Snapshot \cup {Torn} /\ NoFile \notin Snapshot \cup {Torn} \cup {0}
  /\ Payloads \subseteq [seq : Nat, hash : Snapshot,
                         bytes : Snapshot \cup {Torn} \cup {0}, time : Nat]
  /\ NoStatus \notin Payloads
BY SnapshotsAssumption, BoundsAssumption
DEF Snapshot, SnapshotOrNone, Torn, NoFile, Payloads, NoStatus

(* The two instances of StatusApi are one. *)
LEMMA SameApi ==
  /\ Api!Init <=> ApiProofs!Init
  /\ [Api!Next]_(Api!vars) <=> [ApiProofs!Next]_(ApiProofs!vars)
<1>1. Api!Init <=> ApiProofs!Init
  BY DEF Api!Init, ApiProofs!Init
<1>2. [Api!Next]_(Api!vars) <=> [ApiProofs!Next]_(ApiProofs!vars)
  BY Zenon
  DEF Api!Next, Api!Start, Api!StartWith, Api!Crash, Api!Repeat, Api!Accept, Api!Unlocked,
      Api!SamePayload, Api!SameSnapshot, Api!CurrentSeq, Api!Acceptable, Api!Acknowledge,
      Api!SaveStatus, Api!SaveTorrent, Api!SaveNamed, Api!Commit, Api!SaveFails,
      Api!files, Api!memory, Api!job, Api!vars,
      ApiProofs!Next, ApiProofs!Start, ApiProofs!StartWith, ApiProofs!Crash,
      ApiProofs!Repeat, ApiProofs!Accept, ApiProofs!Unlocked, ApiProofs!SamePayload,
      ApiProofs!SameSnapshot, ApiProofs!CurrentSeq, ApiProofs!Acceptable,
      ApiProofs!Acknowledge, ApiProofs!SaveStatus, ApiProofs!SaveTorrent,
      ApiProofs!SaveNamed, ApiProofs!Commit, ApiProofs!SaveFails, ApiProofs!files,
      ApiProofs!memory, ApiProofs!job, ApiProofs!vars
<1> QED
  BY <1>1, <1>2

LEMMA SameBoard ==
  /\ Api!Board!Init <=> ApiProofs!Board!Init
  /\ [Api!Board!Next]_status <=> [ApiProofs!Board!Next]_status
BY DEF Api!Board!Init, Api!Board!Next, Api!Board!Show, Api!Board!Follows,
       ApiProofs!Board!Init, ApiProofs!Board!Next, ApiProofs!Board!Show,
       ApiProofs!Board!Follows

(* The readers of the dashboard are never taken back and a sequence keeps  *)
(* its torrent, also when the DHT has forgotten the item and the seeder    *)
(* begins again at the first sequence; and a push that was told ok is      *)
(* shown, and its redirect resolves (status-api/app/main.py:69-135,        *)
(* 203-259).                                                               *)
THEOREM DashboardKeepsPromises ==
  ChainSpec => Api!BoardSpec /\ []Api!AcknowledgedIsShown /\ []Api!RedirectResolves
<1>1. ApiProofs!Spec => ApiProofs!BoardSpec
  BY PayloadsFit, ApiProofs!ImplementsBoard
<1>2. ApiProofs!Spec => []ApiProofs!AcknowledgedIsShown
  BY PayloadsFit, ApiProofs!AcknowledgedKept
<1>3. ApiProofs!Spec => []ApiProofs!RedirectResolves
  BY PayloadsFit, ApiProofs!RedirectWorks
<1>4. /\ Api!AcknowledgedIsShown <=> ApiProofs!AcknowledgedIsShown
      /\ Api!RedirectResolves <=> ApiProofs!RedirectResolves
  BY DEF Api!AcknowledgedIsShown, Api!RedirectResolves,
         ApiProofs!AcknowledgedIsShown, ApiProofs!RedirectResolves
<1> QED
  BY <1>1, <1>2, <1>3, <1>4, SameApi, SameBoard, ChainRunsApi, PTL
  DEF Api!Spec, ApiProofs!Spec, Api!BoardSpec, ApiProofs!BoardSpec,
      Api!Board!Spec, ApiProofs!Board!Spec
=============================================================================
