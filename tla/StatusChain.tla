----------------------------- MODULE StatusChain ------------------------------
(***************************************************************************)
(* The way of a publication to the dashboard: the producer's host and the  *)
(* status API, joined by the request of the status push                    *)
(* (producer/push_status.py).  The push is a process of its own: it may    *)
(* read the publisher's state, be overtaken by the pipeline and the        *)
(* seeder, read the torrent file as it is being written, and send a        *)
(* request that is lost, refused or answered.  A request in flight         *)
(* outlives the state it was made from.                                    *)
(***************************************************************************)
EXTENDS SnapshotProducer

VARIABLES
  reading,    \* the state the push has read, seq 0 when none runs
  request,    \* the request in flight, or NoStatus
  server, status, shownTorrent, statusFile, legacy, torrentFile, named,
  save, saving, savedBytes, acked,   \* the status API, see StatusApi
  published   \* every item that the DHT has held

(* A payload takes a moment of its own; refreshes, which differ in it      *)
(* only, are in StatusApi.  Its torrent file may be Torn, and 0 if empty.  *)
Payloads ==
  [seq : 1 .. MaxSeq, hash : Snapshot, bytes : SnapshotOrNone \cup {Torn}, time : {1}]
NoFile == Torn + 1
NoStatus == [seq |-> 0, hash |-> 0, bytes |-> 0, time |-> 0]

pushVars == <<reading, request>>
apiVars == <<server, status, shownTorrent, statusFile, legacy, torrentFile, named,
             save, saving, savedBytes, acked>>

Api == INSTANCE StatusApi WITH
  Hash <- Snapshot, Bytes <- Snapshot \cup {Torn}, NoBytes <- 0, Push <- Payloads,
  torrent <- shownTorrent

(* The API is first deployed on an empty volume. *)
ChainInit ==
  /\ Init /\ published = {}
  /\ reading = NoItem /\ request = NoStatus
  /\ Api!Init /\ statusFile = NoStatus

-----------------------------------------------------------------------------
(* The push, by its timer, at the end of the pipeline or by the recovery   *)
(* watchdog, reads the publisher's state.                                  *)
StartPush ==
  /\ reading = NoItem /\ state.hash # 0
  /\ reading' = state
  /\ UNCHANGED <<vars, request, apiVars, published>>

(* Mutant of Payload: the hash comes from the metadata. *)
PayloadOfMeta(bytes) ==
  [seq |-> reading.seq, hash |-> meta.hash, bytes |-> bytes, time |-> 1]

(* Sequence and hash were read from publisher_state.json before the bytes. *)
Payload(bytes) ==
  [seq |-> reading.seq, hash |-> reading.hash, bytes |-> bytes, time |-> 1]

(* What push_status reads of a torrent file that is being written, or was  *)
(* left half-written, is nothing or a part.                                *)
TorrentBytes == IF torrent = Torn THEN {0, Torn} ELSE {torrent}

(* The torrent file is read and the request is sent. *)
Send ==
  /\ reading # NoItem /\ request = NoStatus
  /\ reading' = NoItem
  /\ \E bytes \in TorrentBytes : request' = Payload(bytes)
  /\ UNCHANGED <<vars, apiVars, published>>

(* push() accepts it, repeats its answer to it, or refuses it. *)
Receive ==
  /\ request # NoStatus /\ Api!Unlocked
  /\ \/ Api!Accept(request) \/ Api!Repeat(request)
     \/ ~Api!SamePayload(request) /\ ~Api!Acceptable(request) /\ UNCHANGED apiVars
  /\ request' = NoStatus
  /\ UNCHANGED <<vars, reading, published>>

(* It does not reach the API, or not within 30 s; the next push of the     *)
(* hourly timer takes its place.                                           *)
Lose ==
  /\ request # NoStatus
  /\ request' = NoStatus
  /\ UNCHANGED <<vars, reading, apiVars, published>>

(* The rest of the status API: its process and the steps of a save. *)
ApiStep ==
  /\ \/ Api!Start \/ Api!Crash
     \/ Api!SaveStatus \/ Api!SaveTorrent \/ Api!SaveNamed \/ Api!Commit \/ Api!SaveFails
  /\ UNCHANGED <<vars, pushVars, published>>

(* The rest of the producer's host. *)
HostStep ==
  /\ Next
  /\ published' = published \cup net'
  /\ UNCHANGED <<pushVars, apiVars>>

(* Nodes drop an item two hours after its last put: they go unless a       *)
(* seeder is up whose publications succeed; a put takes minutes only.      *)
Forget ==
  /\ seeder = "down" \/ (seeder = "rest" /\ ~verified)
  /\ net # {} /\ net' = {}
  /\ UNCHANGED <<upstream, fileVars, pipelineVars, seederVars, reload, state, faults>>
  /\ UNCHANGED <<pushVars, apiVars, published>>

ChainNext == HostStep \/ Forget \/ StartPush \/ Send \/ Receive \/ Lose \/ ApiStep

chainVars == <<vars, pushVars, apiVars, published>>

ChainSpec == ChainInit /\ [][ChainNext]_chainVars

-----------------------------------------------------------------------------
(* The dashboard shows only what the DHT has held, as it held it, although *)
(* the push mixes files of different times ("A publication is not pushed   *)
(* to the dashboard until the exact DHT value has been verified",          *)
(* docs/producer-guide.md:340).                                            *)
ShownWasPublished ==
  status # NoStatus => [seq |-> status.seq, hash |-> status.hash] \in published

(* A push never carries the torrent of a snapshot older than the hash it   *)
(* announces, whatever the pipeline and the seeder do between its two      *)
(* reads: the state is read first, and the torrent file of a published     *)
(* hash is only ever replaced by a later one.  (What it carries need not   *)
(* be a torrent: the file may be read while it is written.)                *)
NeverOlderTorrent ==
  request # NoStatus /\ request.bytes \in Snapshot => request.bytes >= request.hash

(* The immutable route of a hash gives no other torrent than that hash's   *)
(* ("A publication is not pushed to the dashboard until ... the seeder     *)
(* reports the matching torrent as loaded", docs/producer-guide.md:340-342).*)
RouteGivesItsHash ==
  \A h \in Snapshot : named[h] \in Snapshot => named[h] = h
=============================================================================
