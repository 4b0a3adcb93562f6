----------------------------- MODULE MCDhtLookup -----------------------------
(***************************************************************************)
(* DhtLookup with three sequences, the second signed for two hashes, and   *)
(* an item above them all that does not verify.                            *)
(***************************************************************************)
EXTENDS DhtLookup

CONSTANTS a, b, c

TwiceSigned == {[seq |-> 1, hash |-> a], [seq |-> 1, hash |-> b],
                [seq |-> 2, hash |-> c]}

Bogus == {[seq |-> 3, hash |-> a]}
=============================================================================
