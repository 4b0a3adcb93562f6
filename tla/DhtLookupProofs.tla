--------------------------- MODULE DhtLookupProofs ---------------------------
(***************************************************************************)
(* A discovery keeps its promise and is no staler than its requests, for   *)
(* any items, any number of attempts, and any number of late answers.  An  *)
(* answer can only come from a request that was under way when the list    *)
(* was last cleared or was made since: `since` holds all of them.          *)
(***************************************************************************)
EXTENDS DhtLookup, TLAPS

USE ItemAssumption, AttemptAssumption, LookupBounds

Looking == caller \in {"get", "wait", "judge"}

(* The alerts that may still come are those of the requests in since, *)
Counted == Looking => Underway \subseteq since

(* and so are those that came. *)
Recent(i) == \E s \in since : s <= i.seq
AllRecent == Looking => \A i \in (alerts \cup candidates) \cap Signed : Recent(i)

IInv == TypeOK /\ Counted /\ AllRecent

-----------------------------------------------------------------------------
(* Sequences are natural numbers. *)
LEMMA SequenceNat == Sequence \subseteq Nat /\ \A i \in Items : i.seq \in Sequence
<1>1. \A i \in Items : i.seq \in Nat
  BY SMT DEF Items
<1>2. QED
  BY <1>1, SMT DEF Sequence

(* What is selected from items is one of them, and verifies. *)
LEMMA SelectedSigned ==
  ASSUME NEW C \in SUBSET Items
  PROVE  Selected(C) \subseteq C \cap Signed
BY Zenon DEF Selected, Highest, Verified

(* What an accepted judgement answers. *)
Answers(i) ==
  /\ Selected(candidates) = {i} /\ Acceptable(i)
  /\ answer' = i /\ known' = i.seq
  /\ caller' = "idle" /\ candidates' = {} /\ attempt' = attempt

LEMMA JudgeCases ==
  ASSUME Judge PROVE (\E i : Answers(i)) \/ (Retry /\ known' = known)
<1> DEFINE best == Selected(candidates)
<1>1. CASE \E i \in best : best = {i} /\ Acceptable(i)
  <2>1. PICK i \in best : best = {i} /\ Acceptable(i)
    BY <1>1
  <2>2. (CHOOSE j \in best : TRUE) = i
    BY <2>1, Zenon
  <2>3. /\ answer' = CHOOSE j \in best : TRUE
        /\ known' = answer'.seq
        /\ caller' = "idle" /\ candidates' = {} /\ attempt' = attempt
    BY <1>1, Zenon DEF Judge
  <2>4. Answers(i)
    BY <2>1, <2>2, <2>3, Zenon DEF Answers
  <2>5. QED
    BY <2>4
<1>2. CASE ~\E i \in best : best = {i} /\ Acceptable(i)
  BY <1>2, Zenon DEF Judge
<1>3. QED
  BY <1>1, <1>2

-----------------------------------------------------------------------------
LEMMA InitIInv == Init => IInv
<1> SUFFICES ASSUME Init PROVE IInv
  OBVIOUS
<1>1. 0 \in Sequence /\ known \in Sequence
  BY SequenceNat, SMT DEF Init, Sequence, Items
<1>2. ended \in BOOLEAN
  BY Zenon DEF Init
<1>3. open \in [Sequence -> Nat]
  BY SMT DEF Init
<1>4. TypeOK
  BY <1>1, <1>2, <1>3, SMT DEF Init, TypeOK, CallerLabels
<1>5. ~Looking
  BY SMT DEF Init, Looking
<1>6. QED
  BY <1>4, <1>5 DEF IInv, Counted, AllRecent

(* The nodes and the session: what arrives is of a request in since. *)
LEMMA WorldIInv ==
  ASSUME IInv, WorldNext \/ SessionNext PROVE IInv'
<1> USE SequenceNat DEF IInv, TypeOK
<1>1. ASSUME NEW i \in Signed, Put(i) PROVE IInv'
  <2>1. i.seq \in Sequence
    BY SMT DEF Items
  <2>2. TypeOK'
    BY <1>1, <2>1, SMT DEF Put, listVars, callerVars
  <2>3. QED
    BY <1>1, <2>2, Zenon DEF Put, listVars, callerVars, Counted, AllRecent, Looking, Recent,
                             Underway
<1>2. ASSUME NEW s \in Sequence, Spread(s) PROVE IInv'
  <2>1. TypeOK'
    BY <1>2, SMT DEF Spread, listVars, callerVars
  <2>2. QED
    BY <1>2, <2>1, Zenon DEF Spread, listVars, callerVars, Counted, AllRecent, Looking,
                             Recent, Underway
<1>3. ASSUME NEW after \in Sequence, DropFinal(after) PROVE IInv'
  <2>1. /\ after \in Sequence /\ open[after] > 0
        /\ open' = [open EXCEPT ![after] = open[after] - 1]
        /\ late' \in 0 .. MaxLate
    BY <1>3, SMT DEF DropFinal, Underway
  <2>2. open' \in [Sequence -> Nat]
    BY <2>1, SMT
  <2>3. Underway' \subseteq Underway
    BY <2>1, <2>2, SMT DEF Underway
  <2>4. TypeOK'
    BY <1>3, <2>1, <2>2, SMT DEF DropFinal, listVars, callerVars
  <2>5. QED
    BY <1>3, <2>3, <2>4, Zenon DEF DropFinal, listVars, callerVars, Counted, AllRecent,
                                   Looking, Recent
<1>4. ASSUME NEW after \in Sequence, NEW i \in Items \cup {NoItem},
             NEW final \in BOOLEAN, AlertLoop(after, i, final)
      PROVE  IInv'
  <2>1. /\ after \in Sequence /\ open[after] > 0 /\ after \in Underway
        /\ open' = IF final THEN [open EXCEPT ![after] = open[after] - 1] ELSE open
    BY <1>4, SMT DEF AlertLoop, Underway
  <2>2. open' \in [Sequence -> Nat]
    BY <2>1, SMT
  <2>3. Underway' \subseteq Underway
    BY <2>1, <2>2, SMT DEF Underway
  <2>4. ended' \in BOOLEAN
    BY <1>4, Zenon DEF AlertLoop
  <2>5. TypeOK'
    BY <1>4, <2>2, <2>4, SMT DEF AlertLoop, callerVars
  <2>6. Counted'
    BY <1>4, <2>3, Zenon DEF AlertLoop, callerVars, Counted, Looking
  <2>7. AllRecent'
    <3> SUFFICES ASSUME Looking, NEW j \in (alerts' \cup candidates') \cap Signed
                 PROVE  \E s \in since : s <= j.seq
      BY <1>4, Zenon DEF AlertLoop, callerVars, AllRecent, Looking, Recent
    <3>1. CASE j \in alerts \cup candidates
      BY <3>1, Zenon DEF AllRecent, Recent
    <3>2. CASE j = i
      <4>1. i # NoItem
        BY <3>2, SMT DEF NoItem
      <4>2. after <= i.seq
        BY <1>4, <3>2, <4>1, SMT DEF AlertLoop, Response
      <4>3. QED
        BY <2>1, <3>2, <4>2, Zenon DEF Counted
    <3>3. QED
      BY <1>4, <3>1, <3>2, Zenon DEF AlertLoop, callerVars
  <2>8. QED
    BY <2>5, <2>6, <2>7
<1>5. QED
  BY <1>1, <1>2, <1>3, <1>4, Zenon DEF WorldNext, SessionNext

(* The end of an attempt, which leaves the lookup. *)
LEMMA RetryIInv ==
  ASSUME IInv, Retry, UNCHANGED <<worldVars, listVars, known, since>>, late' \in 0 .. MaxLate
  PROVE  IInv'
<1> USE DEF IInv, TypeOK, worldVars, listVars
<1>1. /\ attempt' \in 1 .. Attempts /\ answer' \in Signed \cup {NoItem}
      /\ caller' \in {"clear", "idle"} /\ candidates' = {}
  BY SMT DEF Retry
<1>2. TypeOK'
  BY <1>1, SMT DEF CallerLabels
<1>3. ~Looking'
  BY <1>1, SMT DEF Looking
<1>4. QED
  BY <1>2, <1>3, Zenon DEF Counted, AllRecent

(* The discovering thread. *)
LEMMA CallerIInv ==
  ASSUME IInv, CallerNext PROVE IInv'
<1> USE DEF IInv, TypeOK, worldVars, listVars, CallerLabels
<1>1. CASE Ask
  <2>1. TypeOK'
    BY <1>1, SMT DEF Ask
  <2>2. ~Looking'
    BY <1>1, SMT DEF Ask, Looking
  <2>3. QED
    BY <2>1, <2>2, Zenon DEF Counted, AllRecent
<1>2. CASE ClearAlerts
  <2>1. ended' \in BOOLEAN
    BY <1>2, Zenon DEF ClearAlerts
  <2>2. TypeOK'
    BY <1>2, <2>1, SMT DEF ClearAlerts, Underway
  <2>3. Underway' = Underway /\ since' = Underway
    BY <1>2, Zenon DEF ClearAlerts, Underway
  <2>4. alerts' = {} /\ candidates' = {}
    BY <1>2, Zenon DEF ClearAlerts
  <2>5. QED
    BY <2>2, <2>3, <2>4, Zenon DEF Counted, AllRecent
<1>3. CASE Get
  <2>1. /\ open' = [open EXCEPT ![reached] = open[reached] + 1]
        /\ since' = since \cup {reached} /\ Looking /\ caller' = "wait"
        /\ candidates' = candidates /\ alerts' = alerts /\ candidates = {}
    BY <1>3, SMT DEF Get, Looking
  <2>2. open' \in [Sequence -> Nat]
    BY <2>1, SMT
  <2>3. Underway' \subseteq Underway \cup {reached}
    BY <2>1, SMT DEF Underway
  <2>4. TypeOK'
    BY <1>3, <2>2, SMT DEF Get
  <2>5. QED
    BY <2>1, <2>3, <2>4, Zenon DEF Counted, AllRecent, Recent
<1>4. CASE Collect
  <2>1. ended' \in BOOLEAN
    BY <1>4, Zenon DEF Collect
  <2>2. TypeOK'
    BY <1>4, <2>1, SMT DEF Collect
  <2>3. /\ Looking /\ since' = since /\ Underway' = Underway
        /\ alerts' = {} /\ candidates' = candidates \cup alerts
    BY <1>4, SMT DEF Collect, Looking, Underway
  <2>4. QED
    BY <2>2, <2>3, Zenon DEF Counted, AllRecent, Recent
<1>5. CASE TimeOut
  <2>1. Retry /\ UNCHANGED <<worldVars, listVars, known, since>>
    BY <1>5, Zenon DEF TimeOut
  <2>2. late' \in 0 .. MaxLate
    BY <1>5, SMT DEF TimeOut
  <2>3. QED
    BY <2>1, <2>2, RetryIInv
<1>6. CASE Judge
  <2>1. UNCHANGED <<worldVars, listVars, late, since>>
    BY <1>6, Zenon DEF Judge
  <2>2. CASE Retry /\ known' = known
    BY <2>1, <2>2, RetryIInv
  <2>3. ASSUME NEW i, Answers(i) PROVE IInv'
    <3>1. i \in Signed /\ i \in Items
      BY <2>3, SelectedSigned, Zenon DEF Answers, Items
    <3>2. i.seq \in Sequence
      BY <3>1, SequenceNat, Zenon
    <3>3. TypeOK'
      BY <2>1, <2>3, <3>1, <3>2, SMT DEF Answers
    <3>4. ~Looking'
      BY <2>3, SMT DEF Answers, Looking
    <3>5. QED
      BY <3>3, <3>4, Zenon DEF Counted, AllRecent
  <2>4. QED
    BY <1>6, <2>2, <2>3, JudgeCases, Zenon
<1>7. QED
  BY <1>1, <1>2, <1>3, <1>4, <1>5, <1>6 DEF CallerNext

LEMMA NextIInv == IInv /\ [Next]_vars => IInv'
<1> SUFFICES ASSUME IInv, [Next]_vars PROVE IInv'
  OBVIOUS
<1>1. CASE Next
  BY <1>1, WorldIInv, CallerIInv DEF Next
<1>2. CASE UNCHANGED vars
  BY <1>2, Zenon DEF vars, worldVars, listVars, callerVars, IInv, TypeOK, Counted, AllRecent,
                     Looking, Recent, Underway
<1>3. QED
  BY <1>1, <1>2

-----------------------------------------------------------------------------
(* The invariant holds of every behaviour of the lookups. *)
THEOREM Invariance == Spec => []IInv
BY InitIInv, NextIInv, PTL DEF Spec

(* Every attribute holds a value of its kind (libtorrent_session.py:522-546). *)
THEOREM TypeCorrect == Spec => []TypeOK
<1>1. IInv => TypeOK
  BY DEF IInv
<1>2. QED
  BY Invariance, <1>1, PTL

(* No step but an accepted judgement is an answer. *)
LEMMA AnsweredSteps ==
  ASSUME IInv, Next, Answered PROVE \E i : Answers(i)
<1>1. caller = "judge" /\ caller' = "idle" /\ answer' # NoItem
  BY DEF Answered
<1>2. ~WorldNext /\ ~SessionNext
  BY <1>1, SMT DEF WorldNext, SessionNext, Put, Spread, DropFinal, AlertLoop, callerVars
<1>3. Judge
  BY <1>1, <1>2, SMT DEF Next, CallerNext, Ask, ClearAlerts, Get, Collect, TimeOut
<1>4. ~Retry
  BY <1>1, SMT DEF Retry
<1>5. QED
  BY <1>3, <1>4, JudgeCases, Zenon

(* No answer is older than the oldest request that could still bring one   *)
(* (libtorrent_session.py:505-546).                                        *)
THEOREM AnswersFresh == Spec => FreshAnswer
<1>1. ASSUME IInv, [Next]_vars
      PROVE  [Answered => \E s \in since : s <= answer'.seq]_vars
  <2> SUFFICES ASSUME Next, Answered PROVE \E s \in since : s <= answer'.seq
    BY <1>1, Zenon
  <2>1. PICK i : Answers(i)
    BY <1>1, AnsweredSteps, Zenon
  <2>2. i \in candidates \cap Signed /\ answer' = i
    BY <1>1, <2>1, SelectedSigned, Zenon DEF Answers, IInv, TypeOK
  <2>3. Looking
    BY SMT DEF Answered, Looking
  <2>4. QED
    BY <1>1, <2>2, <2>3, Zenon DEF IInv, AllRecent, Recent
<1>2. QED
  BY Invariance, <1>1, PTL DEF Spec, FreshAnswer

(* DhtLookup implements SnapshotLookup: what discover_latest_snapshot      *)
(* returns is signed and not below what the service knows.                 *)
THEOREM ImplementsLookup == Spec => PromiseKept
<1>1. Init => Promise!Init
  BY SMT DEF Init, Promise!Init, Asking
<1>2. ASSUME IInv, [Next]_vars PROVE [Promise!Next]_(Promise!vars)
  <2> USE DEF Promise!Next, Promise!vars, Asking
  <2>1. CASE WorldNext \/ SessionNext
    BY <2>1, Zenon DEF WorldNext, SessionNext, Put, Spread, DropFinal, AlertLoop, callerVars
  <2>2. CASE Ask
    BY <2>2, SMT DEF Ask, Promise!Ask
  <2>3. CASE ClearAlerts \/ Get \/ Collect
    BY <2>3, SMT DEF ClearAlerts, Get, Collect
  <2>4. CASE caller # "idle" /\ Retry /\ known' = known
    BY <2>4, SMT DEF Retry, Promise!GiveNothing
  <2>5. CASE TimeOut
    <3>1. caller # "idle" /\ Retry /\ known' = known
      BY <2>5, SMT DEF TimeOut
    <3>2. QED
      BY <2>4, <3>1
  <2>6. CASE Judge
    <3>1. caller # "idle"
      BY <2>6, SMT DEF Judge
    <3>2. ASSUME NEW i, Answers(i) PROVE \E j \in Signed : Promise!Give(j)
      <4>1. i \in Signed
        BY <1>2, <3>2, SelectedSigned, Zenon DEF Answers, IInv, TypeOK
      <4>2. Promise!Give(i)
        BY <3>1, <3>2, SMT DEF Answers, Acceptable, Promise!Give
      <4>3. QED
        BY <4>1, <4>2
    <3>3. QED
      BY <2>4, <2>6, <3>1, <3>2, JudgeCases, Zenon
  <2>7. CASE UNCHANGED vars
    BY <2>7, Zenon DEF vars, callerVars
  <2>8. QED
    BY <1>2, <2>1, <2>2, <2>3, <2>5, <2>6, <2>7, Zenon DEF Next, CallerNext
<1>3. QED
  BY Invariance, <1>1, <1>2, PTL DEF Spec, PromiseKept, Promise!Spec
=============================================================================
