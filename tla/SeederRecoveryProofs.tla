------------------------ MODULE SeederRecoveryProofs -------------------------
(***************************************************************************)
(* The watchdog's restarts, for any periods and any number of kills.  The  *)
(* files are behind what they stand for: last-restart is never older than  *)
(* the last restart, and unhealthy-since begins after the last check that  *)
(* found the seeder healthy.  A restart erases both before it happens, so  *)
(* the invariant also says what was known when it was decided.             *)
(***************************************************************************)
EXTENDS SeederRecovery, TLAPS

USE PeriodsAssumption, NoneAssumption, KillsAssumption

Restarting == at \in {"stamp", "mark", "clear", "restart"}

(* What the script has written at each step of a restart. *)
Written ==
  /\ at \in {"mark", "clear", "restart"} => lastRestart = 0
  /\ at \in {"clear", "restart"} => pushPending
  /\ at = "unmark" => ~owed

(* last-restart is stamped before the restart, and not removed. *)
StampedAfter ==
  restarted # None => lastRestart # None /\ lastRestart <= restarted

Apart == Restarting => restarted = None \/ restarted >= CooldownSeconds

(* The wait begins in a check that came after the healthy one. *)
SickAfter ==
  unhealthySince # None => unhealthySince <= seenHealthy

LongSick == Restarting => seenHealthy >= UnhealthySeconds

IInv ==
  /\ TypeOK /\ Written /\ OwedIsPending
  /\ StampedAfter /\ Apart
  /\ SickAfter /\ LongSick

-----------------------------------------------------------------------------
(* Nothing is known, nothing is owed. *)
LEMMA InitIInv == Init => IInv
<1> SUFFICES ASSUME Init PROVE IInv
  OBVIOUS
<1>1. pushPending \in BOOLEAN /\ owed \in BOOLEAN /\ ~owed
  BY Zenon DEF Init
<1>2. QED
  BY <1>1, SMT DEF Init, IInv, TypeOK, Labels, Written, OwedIsPending, StampedAfter,
                   Apart, SickAfter, LongSick, Restarting

(* A period, which passes between two checks. *)
LEMMA TickIInv ==
  ASSUME IInv, Tick PROVE IInv'
<1> USE DEF IInv, TypeOK, Tick
<1>1. /\ statsAge' \in 0 .. StaleStatsSeconds + 1
      /\ unhealthySince' \in {None} \cup 0 .. UnhealthySeconds
      /\ lastRestart' \in {None} \cup 0 .. CooldownSeconds
      /\ restarted' \in {None} \cup 0 .. CooldownSeconds
      /\ seenHealthy' \in 0 .. UnhealthySeconds
  BY SMT DEF Older
<1>2. TypeOK'
  BY <1>1, SMT DEF Labels
<1>3. Written' /\ OwedIsPending'
  BY SMT DEF Written, OwedIsPending
<1>4. StampedAfter'
  BY SMT DEF StampedAfter, Older
<1>5. Apart' /\ LongSick'
  BY SMT DEF Apart, LongSick, Restarting
<1>6. SickAfter'
  BY SMT DEF SickAfter, Older
<1>7. QED
  BY <1>2, <1>3, <1>4, <1>5, <1>6

(* A check of the watchdog, one of its writes, or the host. *)
LEMMA NextIInv == IInv /\ [Next]_vars => IInv'
<1> SUFFICES ASSUME IInv, [Next]_vars PROVE IInv'
  OBVIOUS
<1> USE DEF IInv, TypeOK, Labels, Written, OwedIsPending, StampedAfter, Apart, SickAfter,
            LongSick, Restarting, seederVars, fileVars, historyVars
<1>1. CASE Tick
  BY <1>1, TickIInv
<1>2. CASE Disk
  BY <1>2, SMT DEF Disk
<1>3. CASE SeederNext
  <2>1. ASSUME NEW kind \in Kinds, Report(kind)
        PROVE  IInv'
    BY <2>1, SMT DEF Report
  <2>2. CASE SeederEnds
    <3>1. active' \in BOOLEAN
      BY <2>2, Zenon DEF SeederEnds
    <3>2. QED
      BY <2>2, <3>1, SMT DEF SeederEnds
  <2>3. CASE SeederStarts
    BY <2>3, SMT DEF SeederStarts
  <2>4. QED
    BY <1>3, <2>1, <2>2, <2>3 DEF SeederNext
<1>4. CASE Check
  <2>1. CASE CheckReady
    BY <2>1, SMT DEF CheckReady, Checks
  <2>2. CASE CheckFiles
    BY <2>2, SMT DEF CheckFiles, Checks
  <2>3. CASE BecomesSick
    BY <2>3, SMT DEF BecomesSick, Sick, Checks
  <2>4. CASE Recover
    BY <2>4, SMT DEF Recover, Sick, Checks, Persistent, Cooling
  <2>5. QED
    BY <1>4, <2>1, <2>2, <2>3, <2>4 DEF Check
<1>5. CASE Step
  <2>1. CASE Stamp
    BY <2>1, SMT DEF Stamp
  <2>2. CASE Mark
    BY <2>2, SMT DEF Mark
  <2>3. CASE Clear
    BY <2>3, SMT DEF Clear
  <2>4. CASE Unmark
    <3>1. pushPending' \in BOOLEAN /\ ~owed'
      BY <2>4, Zenon DEF Unmark, IInv, Written, historyVars
    <3>2. QED
      BY <2>4, <3>1, SMT DEF Unmark
  <2>5. QED
    BY <1>5, <2>1, <2>2, <2>3, <2>4 DEF Step
<1>6. CASE PushSucceeds
  <2>1. owed' \in BOOLEAN /\ ~owed'
    BY <1>6, Zenon DEF PushSucceeds
  <2>2. QED
    BY <1>6, <2>1, SMT DEF PushSucceeds
<1>7. CASE PushFails
  BY <1>7, SMT DEF PushFails
<1>8. CASE Restart
  BY <1>8, SMT DEF Restart
<1>9. CASE RestartFails
  BY <1>9, SMT DEF RestartFails
<1>10. CASE Killed
  BY <1>10, SMT DEF Killed
<1>11. CASE UNCHANGED vars
  BY <1>11, SMT DEF vars
<1>12. QED
  BY <1>1, <1>2, <1>3, <1>4, <1>5, <1>6, <1>7, <1>8, <1>9, <1>10, <1>11 DEF Next

-----------------------------------------------------------------------------
(* The invariant holds of every behaviour of the watchdog. *)
THEOREM Invariance == Spec => []IInv
BY InitIInv, NextIInv, PTL DEF Spec

(* Every attribute holds a value of its kind (check-seeder-recovery.sh).   *)
THEOREM TypeCorrect == Spec => []TypeOK
<1>1. IInv => TypeOK
  BY DEF IInv
<1>2. QED
  BY Invariance, <1>1, PTL

(* The push that a restart needs is never forgotten (the marker of line    *)
(* 81).                                                                    *)
THEOREM OwedKept == Spec => []OwedIsPending
<1>1. IInv => OwedIsPending
  BY DEF IInv
<1>2. QED
  BY Invariance, <1>1, PTL

(* Two restarts are never closer than the cooldown (lines 70-80).          *)
THEOREM SpacingKept == Spec => RestartSpacing
<1>1. IInv /\ [Next]_vars => [Restart => restarted = None \/ restarted >= CooldownSeconds]_vars
  BY DEF IInv, Apart, Restarting, Restart
<1>2. QED
  BY Invariance, <1>1, PTL DEF Spec, RestartSpacing

(* Only a seeder that every check found sick, for the whole period, is     *)
(* restarted (lines 55-68).                                                *)
THEOREM PersistenceNeeded == Spec => OnlyPersistentFailure
<1>1. IInv /\ [Next]_vars => [Restart => seenHealthy >= UnhealthySeconds]_vars
  BY DEF IInv, LongSick, Restarting, Restart
<1>2. QED
  BY Invariance, <1>1, PTL DEF Spec, OnlyPersistentFailure
=============================================================================
