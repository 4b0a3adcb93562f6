-------------------------- MODULE SnapshotFollower --------------------------
(***************************************************************************)
(* What the mirror promises its operator, without threads, locks or a      *)
(* BitTorrent session: it follows one signed record at a time, never goes  *)
(* back to a lower sequence, runs at most one transfer, starts a transfer  *)
(* only for the record it follows and gives one up only because it follows *)
(* another snapshot.  MirrorWatcher implements this specification.         *)
(***************************************************************************)
EXTENDS Naturals

CONSTANTS
  Hash,     \* v2 info hashes
  NoHash,   \* the absence of one
  Signed    \* the records signed by the producer's key: [seq, hash]

VARIABLES
  record,   \* the record followed: [seq, hash], hash = NoHash before the first
  transfer  \* the snapshot being transferred or seeded, NoHash if none

vars == <<record, transfer>>

(* The record and the transfer hold what the mirror can really hold. *)
TypeOK ==
  /\ record \in [seq : Nat, hash : Hash \cup {NoHash}]
  /\ transfer \in Hash \cup {NoHash}

(* A service starts with whatever record its state file kept. *)
Init ==
  /\ record \in [seq : {0}, hash : {NoHash}] \cup Signed
  /\ transfer = NoHash

Adopt(r) ==
  /\ r.seq >= record.seq
  /\ record' = r
  /\ UNCHANGED transfer

Begin ==
  /\ transfer = NoHash
  /\ record.hash # NoHash
  /\ transfer' = record.hash
  /\ UNCHANGED record

GiveUp ==
  /\ transfer # NoHash
  /\ transfer # record.hash
  /\ transfer' = NoHash
  /\ UNCHANGED record

Next ==
  \/ \E r \in Signed : Adopt(r)
  \/ Begin
  \/ GiveUp

Spec == Init /\ [][Next]_vars
=============================================================================
