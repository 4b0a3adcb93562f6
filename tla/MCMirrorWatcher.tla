-------------------------- MODULE MCMirrorWatcher ---------------------------
(***************************************************************************)
(* Small instances of MirrorWatcher: three snapshots and the records a     *)
(* producer that counts up by one signs for them.                          *)
(***************************************************************************)
EXTENDS MirrorWatcher

CONSTANTS a, b, c

(* One replacement at most: a, then b. *)
TwoRecords == {[seq |-> 1, hash |-> a], [seq |-> 2, hash |-> b]}

(* Two replacements: the second may come while the first is rechecked. *)
ThreeRecords == TwoRecords \cup {[seq |-> 3, hash |-> c]}

(* The producer's seeder publishes a torrent again and again: the sequence *)
(* also advances without a new snapshot.                                   *)
Refreshed == {[seq |-> 1, hash |-> a], [seq |-> 2, hash |-> b],
              [seq |-> 3, hash |-> b], [seq |-> 4, hash |-> c]}
=============================================================================
