---------------------------- MODULE MCStatusApi -----------------------------
(* Two snapshots.  Sequence 2 is published for either and sequence 3       *)
(* returns to the first one, pushes are refreshed at a later time, some    *)
(* carry the torrent of the other snapshot, as a push between the creation *)
(* of a torrent and its publication does, and one is of a torrent file     *)
(* that has just been opened to be written (StatusChain).                  *)
EXTENDS StatusApi

CONSTANTS a, b

Signed(seq, h, bytes, time) == [seq |-> seq, hash |-> h, bytes |-> bytes, time |-> time]

TwoSnapshots ==
  { Signed(1, a, a, 1), Signed(1, a, b, 2), Signed(2, b, b, 1), Signed(2, b, b, 2),
    Signed(2, a, b, 1), Signed(2, a, a, 1), Signed(3, a, a, 1), Signed(3, b, b, 1),
    Signed(3, a, NoBytes, 1) }
=============================================================================
