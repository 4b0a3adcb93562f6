---------------------------- MODULE StatusBoard -----------------------------
(***************************************************************************)
(* What the status API promises the readers of /api/status and of the      *)
(* dashboard: one status at a time, replaced only by one of a later        *)
(* sequence or by a refresh of the snapshot it shows.  A restart may lose  *)
(* nothing and may reveal a push whose sender never got an answer.         *)
(***************************************************************************)
EXTENDS Naturals

CONSTANTS Push, NoStatus

VARIABLE shown

(* A reader who has seen p may next be shown q. *)
Follows(p, q) ==
  \/ p = NoStatus
  \/ q.seq > p.seq
  \/ q.seq = p.seq /\ q.hash = p.hash

Init == shown \in Push \cup {NoStatus}

Show(p) == Follows(shown, p) /\ shown' = p

Next == \E p \in Push : Show(p)

Spec == Init /\ [][Next]_shown
=============================================================================
