--------------------------- MODULE SnapshotLookup ---------------------------
(***************************************************************************)
(* What discover_latest_snapshot promises the mirror, without a DHT: asked *)
(* by a service that knows a sequence, it gives a record the producer      *)
(* signed, never below that sequence, or nothing.  MirrorWatcher builds on *)
(* this promise and DhtLookup implements it.                               *)
(***************************************************************************)
EXTENDS Naturals

CONSTANTS
  Signed,   \* the records signed by the producer's key: [seq, hash]
  NoItem    \* the answer that there is nothing, [seq |-> 0, hash |-> ...]

VARIABLES
  asking,   \* whether a discovery is under way
  known,    \* the sequence the service knows
  answer    \* what the last discovery returned

vars == <<asking, known, answer>>

Init ==
  /\ asking = FALSE
  /\ known \in {0} \cup {i.seq : i \in Signed}
  /\ answer = NoItem

Ask ==
  /\ ~asking /\ asking' = TRUE
  /\ UNCHANGED <<known, answer>>

Give(i) ==
  /\ asking /\ asking' = FALSE
  /\ i.seq >= known
  /\ known' = i.seq /\ answer' = i

GiveNothing ==
  /\ asking /\ asking' = FALSE
  /\ answer' = NoItem
  /\ UNCHANGED known

Next == Ask \/ GiveNothing \/ \E i \in Signed : Give(i)

Spec == Init /\ [][Next]_vars
=============================================================================
