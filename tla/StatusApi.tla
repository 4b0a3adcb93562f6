----------------------------- MODULE StatusApi ------------------------------
(***************************************************************************)
(* The status API (status-api/app/main.py): the state in memory, its three *)
(* files, and a save that writes them one after the other.  _state_lock    *)
(* lets one push at a time into the section that decides and saves, so the *)
(* section is one sequence of steps, which the death of the process or a   *)
(* failed write may cut anywhere.  Signature and name checks, which touch  *)
(* no state, leave only the pushes the producer signed.                    *)
(***************************************************************************)
EXTENDS Naturals

CONSTANTS
  Hash,       \* v2 info hashes
  Bytes,      \* contents of torrent files; the torrent of hash h is written h too
  NoBytes,    \* an empty torrent file, or none
  NoFile,     \* no torrent file under a name
  Push,       \* signed pushes [seq, hash, bytes, time]
  NoStatus    \* no status

ASSUME NoBytesAssumption == NoBytes \notin Bytes /\ NoFile \notin Bytes \cup {NoBytes}
ASSUME PushAssumption ==
  Push \subseteq [seq : Nat, hash : Hash, bytes : Bytes \cup {NoBytes}, time : Nat]
ASSUME NoStatusAssumption == NoStatus \notin Push

VARIABLES
  server,      \* "down", "starting" while _load_state runs, or "up"
  status,      \* _current_status, as the push it was made of
  torrent,     \* _torrent_bytes
  statusFile,  \* status.json
  legacy,      \* whether an older release, with its field names, wrote it
  torrentFile, \* torrent.bin
  named,       \* torrents/<hash>/nano-ledger-snapshot.7z.torrent
  save,        \* the next statement of the save, "idle" when none runs
  saving,      \* the push being saved
  savedBytes,  \* the bytes saved with it
  acked        \* the highest sequence a sender was told is stored

files == <<statusFile, legacy, torrentFile, named>>
memory == <<status, torrent>>
job == <<saving, savedBytes>>
vars == <<server, memory, files, save, job, acked>>

StatusOrNone == Push \cup {NoStatus}
BytesOrNone == Bytes \cup {NoBytes}
SaveLabels == {"idle", "status", "torrent", "named", "commit"}

(* Every variable holds a value of its kind, a save has something to save, *)
(* and only the start of the process saves while it is starting.           *)
TypeOK ==
  /\ server \in {"down", "starting", "up"}
  /\ status \in StatusOrNone /\ statusFile \in StatusOrNone
  /\ torrent \in BytesOrNone /\ torrentFile \in BytesOrNone
  /\ legacy \in BOOLEAN
  /\ named \in [Hash -> BytesOrNone \cup {NoFile}]
  /\ save \in SaveLabels
  /\ saving \in StatusOrNone /\ savedBytes \in BytesOrNone
  /\ acked \in Nat
  /\ save # "idle" => saving \in Push /\ server # "down"
  /\ server = "starting" => save \in {"status", "torrent", "named"}

(* An empty volume, or the one an older release left, which need not have  *)
(* known the named route.                                                  *)
Init ==
  /\ server = "down"
  /\ status = NoStatus /\ torrent = NoBytes
  /\ save = "idle" /\ saving = NoStatus /\ savedBytes = NoBytes
  /\ acked = 0
  /\ \/ /\ statusFile = NoStatus /\ torrentFile = NoBytes /\ legacy = FALSE
        /\ named = [h \in Hash |-> NoFile]
     \/ /\ statusFile \in Push /\ torrentFile = statusFile.bytes /\ legacy = TRUE
        /\ named \in { [h \in Hash |-> NoFile],
                       [h \in Hash |-> IF h = statusFile.hash
                                         THEN statusFile.bytes ELSE NoFile] }

-----------------------------------------------------------------------------
(* The process. *)

StartWith(resave) ==
  /\ server = "down"
  /\ status' = statusFile /\ torrent' = torrentFile
  /\ IF statusFile # NoStatus /\ torrentFile # NoBytes /\ resave
       THEN /\ server' = "starting" /\ save' = "status"
            /\ saving' = statusFile /\ savedBytes' = torrentFile
       ELSE server' = "up" /\ UNCHANGED <<save, job>>
  /\ UNCHANGED <<files, acked>>

(* Mutant of Start: the named file is not looked for. *)
StartTrustsVolume == StartWith(legacy)

(* lifespan runs _load_state: memory is what the files hold, and a volume  *)
(* of an older release, or one without the named file, is saved again      *)
(* before the first request is served.                                     *)
Start ==
  StartWith(legacy \/ (statusFile # NoStatus /\ named[statusFile.hash] = NoFile))

(* The process dies; its readers have seen what its memory held. *)
Crash ==
  /\ server # "down"
  /\ server' = "down" /\ save' = "idle"
  /\ saving' = NoStatus /\ savedBytes' = NoBytes
  /\ UNCHANGED <<memory, files, acked>>

-----------------------------------------------------------------------------
(* push(), under the lock.  A push of a lower sequence, or of the stored   *)
(* sequence with another content, is answered 409 and changes nothing.     *)

Unlocked == server = "up" /\ save = "idle"
CurrentSeq == IF status = NoStatus THEN 0 ELSE status.seq

(* The digest of the whole payload, and the bytes, are the stored ones.    *)
(* (A status of an older release may have no digest; its retry is then     *)
(* saved once more, as a refresh is.)                                      *)
SamePayload(p) == p = status /\ p.bytes = torrent

(* _same_snapshot_identity: only the time may differ. *)
SameSnapshot(p) ==
  /\ status # NoStatus
  /\ p.seq = status.seq /\ p.hash = status.hash
  /\ p.bytes = torrent

(* Mutant of Acceptable: the comparison with the stored sequence is gone. *)
AcceptableAnySequence(p) ==
  ~(p.seq = CurrentSeq /\ status # NoStatus /\ ~SameSnapshot(p))

(* Neither a replay nor a conflict with the stored sequence. *)
Acceptable(p) ==
  /\ p.seq >= CurrentSeq
  /\ ~(p.seq = CurrentSeq /\ status # NoStatus /\ ~SameSnapshot(p))

Acknowledge(p) == acked' = IF p.seq > acked THEN p.seq ELSE acked

(* An identical retry is answered at once. *)
Repeat(p) ==
  /\ Unlocked /\ SamePayload(p)
  /\ Acknowledge(p)
  /\ UNCHANGED <<server, memory, files, save, job>>

(* Mutant of Accept: the sender is answered before the save. *)
AcceptAtOnce(p) ==
  /\ Unlocked /\ ~SamePayload(p) /\ Acceptable(p)
  /\ save' = "status" /\ saving' = p /\ savedBytes' = p.bytes
  /\ Acknowledge(p)
  /\ UNCHANGED <<server, memory, files>>

(* Any other acceptable push is saved first. *)
Accept(p) ==
  /\ Unlocked /\ ~SamePayload(p) /\ Acceptable(p)
  /\ save' = "status" /\ saving' = p /\ savedBytes' = p.bytes
  /\ UNCHANGED <<server, memory, files, acked>>

(* _save_state: each file is written aside, synced and renamed into place. *)
SaveStatus ==
  /\ save = "status"
  /\ save' = "torrent"
  /\ statusFile' = saving /\ legacy' = FALSE
  /\ UNCHANGED <<server, memory, torrentFile, named, job, acked>>

SaveTorrent ==
  /\ save = "torrent"
  /\ save' = "named"
  /\ torrentFile' = savedBytes
  /\ UNCHANGED <<server, memory, statusFile, legacy, named, job, acked>>

(* The last file; at the start of the process the requests may come. *)
SaveNamed ==
  /\ save = "named"
  /\ named' = [named EXCEPT ![saving.hash] = savedBytes]
  /\ IF server = "starting"
       THEN /\ server' = "up" /\ save' = "idle"
            /\ saving' = NoStatus /\ savedBytes' = NoBytes
       ELSE save' = "commit" /\ UNCHANGED <<server, job>>
  /\ UNCHANGED <<memory, statusFile, legacy, torrentFile, acked>>

(* The assignments after the save, and the answer. *)
Commit ==
  /\ save = "commit"
  /\ save' = "idle" /\ saving' = NoStatus /\ savedBytes' = NoBytes
  /\ status' = saving /\ torrent' = savedBytes
  /\ Acknowledge(saving)
  /\ UNCHANGED <<server, files>>

(* Mutant of SaveFails: a failed start is not reported. *)
SaveFailsSilently ==
  /\ save \in {"status", "torrent", "named"}
  /\ save' = "idle" /\ saving' = NoStatus /\ savedBytes' = NoBytes
  /\ UNCHANGED <<server, memory, files, acked>>

(* A write fails, a full volume for one: the request ends with an error    *)
(* and memory as it was; at the start the process does not come up.        *)
SaveFails ==
  /\ save \in {"status", "torrent", "named"}
  /\ save' = "idle" /\ saving' = NoStatus /\ savedBytes' = NoBytes
  /\ server' = IF server = "starting" THEN "down" ELSE server
  /\ UNCHANGED <<memory, files, acked>>

Next ==
  \/ Start \/ Crash
  \/ \E p \in Push : Repeat(p) \/ Accept(p)
  \/ SaveStatus \/ SaveTorrent \/ SaveNamed \/ Commit \/ SaveFails

Spec == Init /\ [][Next]_vars

-----------------------------------------------------------------------------
(* Properties. *)

(* Across restarts, failed saves and pushes in any order, what readers are *)
(* shown never goes back, and a sequence never changes its snapshot.       *)
Board == INSTANCE StatusBoard WITH shown <- status
BoardSpec == Board!Spec

(* A push whose sender was told ok is never lost: whenever the service     *)
(* answers, it shows that sequence or a later one.                         *)
AcknowledgedIsShown ==
  server = "up" /\ acked > 0 => status # NoStatus /\ status.seq >= acked

(* /api/torrent redirects readers to a named route that exists, whatever   *)
(* release or crash the volume comes from.                                 *)
RedirectResolves ==
  server = "up" /\ status # NoStatus /\ torrent # NoBytes
    => named[status.hash] # NoFile
=============================================================================
