-------------------------- MODULE MCMirrorStateFile --------------------------
(***************************************************************************)
(* MirrorStateFile with two snapshots, published one after the other.      *)
(***************************************************************************)
EXTENDS MirrorStateFile

CONSTANTS a, b

TwoRecords == {[seq |-> 1, hash |-> a], [seq |-> 2, hash |-> b]}
=============================================================================
