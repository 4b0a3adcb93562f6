------------------------- MODULE PublisherStateProofs -------------------------
(***************************************************************************)
(* What publisher_state.json names is in the DHT, and what the two         *)
(* publishers and the file hold is of its kind, for every set of torrents  *)
(* and every number of attempts, publications, reloads and deaths.         *)
(***************************************************************************)
EXTENDS PublisherState, WellFoundedInduction, TLAPS

(* The attributes of the two publishers are functions of the publisher. *)
Attributes ==
  /\ at \in [Publisher -> Labels]
  /\ DOMAIN hash = Publisher
  /\ DOMAIN found = Publisher

(* The DHT holds items and nothing else. *)
OnlyItems == \A i \in net : i = [seq |-> i.seq, hash |-> i.hash]

(* Between its read-back and the end of its save. *)
Saving(p) == at[p] \in {"read", "replace", "open", "write"}

(* Whoever is about to record has found what it will record.  Neither the  *)
(* torrent nor the sequence changes between the read-back and the save.    *)
Proven(p) == [seq |-> found[p], hash |-> hash[p]] \in net
AboutToRecord == \A p \in Publisher : Saving(p) => Proven(p)

RInv == Attributes /\ OnlyItems /\ AboutToRecord /\ RecordedWasHeld

(* A step that keeps the file, and the torrents and sequences of those     *)
(* that save, and loses no item keeps the invariant.                       *)
LEMMA SavingUndisturbed ==
  ASSUME RInv, Attributes', OnlyItems', net \subseteq net', file' = file,
         \A p \in Publisher : Saving(p)' =>
           Saving(p) /\ found'[p] = found[p] /\ hash'[p] = hash[p]
  PROVE  RInv'
<1>1. AboutToRecord'
  BY DEF RInv, AboutToRecord, Proven
<1>2. RecordedWasHeld'
  BY DEF RInv, RecordedWasHeld, NewFile
<1> QED
  BY <1>1, <1>2 DEF RInv

LEMMA LookUpKeeps == ASSUME RInv, NEW p \in Publisher, LookUp(p) PROVE RInv'
<1> USE DEF RInv, Attributes
<1>1. Attributes' /\ OnlyItems' /\ net \subseteq net' /\ file' = file
  BY DEF LookUp, Go, Labels, OnlyItems
<1>2. \A q \in Publisher : Saving(q)' =>
        Saving(q) /\ found'[q] = found[q] /\ hash'[q] = hash[q]
  BY DEF LookUp, Go, Saving
<1> QED
  BY <1>1, <1>2, SavingUndisturbed

(* A put adds an item at most. *)
LEMMA PutKeeps ==
  ASSUME RInv, NEW p \in Publisher, Complete(p) \/ Unanswered(p)
  PROVE  RInv'
<1> USE DEF RInv, Attributes
<1>1. net \subseteq net' /\ net' \subseteq net \cup {Item(p)}
  BY DEF Complete, Unanswered
<1>2. OnlyItems'
  BY <1>1 DEF OnlyItems, Item
<1>3. Attributes' /\ file' = file
  BY DEF Complete, Unanswered, Go, Labels
<1>4. \A q \in Publisher : Saving(q)' =>
        Saving(q) /\ found'[q] = found[q] /\ hash'[q] = hash[q]
  BY DEF Complete, Unanswered, Go, Saving
<1> QED
  BY <1>1, <1>2, <1>3, <1>4, SavingUndisturbed

(* The read-back finds the item that is recorded next. *)
LEMMA ReadBackKeeps == ASSUME RInv, NEW p \in Publisher, ReadBack(p) PROVE RInv'
<1> USE DEF RInv, Attributes
<1>1. PICK i \in net : i.hash = hash[p] /\ found' = [found EXCEPT ![p] = i.seq]
  BY DEF ReadBack
<1>2. i = [seq |-> i.seq, hash |-> i.hash]
  BY DEF OnlyItems
<1>3. Proven(p)'
  BY <1>1, <1>2 DEF Proven, ReadBack
<1>4. \A q \in Publisher \ {p} : Saving(q)' => Saving(q) /\ Proven(q)' = Proven(q)
  BY <1>1 DEF ReadBack, Go, Saving, Proven
<1>5. AboutToRecord'
  BY <1>3, <1>4 DEF AboutToRecord
<1>6. Attributes' /\ OnlyItems' /\ RecordedWasHeld'
  BY <1>1 DEF ReadBack, Go, Labels, OnlyItems, RecordedWasHeld, NewFile
<1> QED
  BY <1>5, <1>6

LEMMA StepKeeps == ASSUME RInv, NEW p \in Publisher, Step(p) PROVE RInv'
<1> QED
  BY LookUpKeeps, PutKeeps, ReadBackKeeps DEF Step

-----------------------------------------------------------------------------
(* Only one who is not saving begins to publish, and nothing it does then  *)
(* touches the file.                                                       *)
LEMMA BeginningKeeps ==
  ASSUME RInv, Reload \/ Republish \/ GiveUp \/ Publish \/ TryAgain \/ Fail \/ Killed
  PROVE  RInv'
<1> USE DEF RInv, Attributes, Publisher
<1> DEFINE Undisturbed ==
      \A q \in Publisher : Saving(q)' =>
        Saving(q) /\ found'[q] = found[q] /\ hash'[q] = hash[q]
<1>1. OnlyItems' /\ net \subseteq net' /\ file' = file
  BY DEF OnlyItems, Reload, Republish, GiveUp, Publish, TryAgain, Fail, Killed
<1>2. CASE Reload
  <2>1. Attributes' /\ Undisturbed
    BY <1>2 DEF Reload, Go, Labels, Saving
  <2> QED BY <1>1, <2>1, SavingUndisturbed
<1>3. CASE Publish
  <2>1. Attributes' /\ Undisturbed
    BY <1>3 DEF Publish, Go, Labels, Saving
  <2> QED BY <1>1, <2>1, SavingUndisturbed
<1>4. CASE Republish \/ GiveUp \/ TryAgain \/ Fail \/ Killed
  <2>1. Attributes' /\ Undisturbed
    BY <1>4 DEF Republish, GiveUp, TryAgain, Fail, Killed, Go, Labels, Saving
  <2> QED BY <1>1, <2>1, SavingUndisturbed
<1> QED
  BY <1>2, <1>3, <1>4

(* The steps of the two saves before the file holds the new record.  A     *)
(* truncated file names nothing.                                           *)
LEMMA PreparingKeeps == ASSUME RInv, Read \/ ReadFails \/ Open PROVE RInv'
<1> USE DEF RInv, Attributes, Publisher
<1>1. Attributes' /\ OnlyItems'
  BY DEF Read, ReadFails, Open, Go, Labels, OnlyItems
<1>2. RecordedWasHeld'
  BY DEF Read, ReadFails, Open, RecordedWasHeld, NewFile
<1>3. AboutToRecord'
  BY DEF Read, ReadFails, Open, Go, Saving, AboutToRecord, Proven
<1> QED
  BY <1>1, <1>2, <1>3

LEMMA RecordingKeeps == ASSUME RInv, Replace \/ Write PROVE RInv'
<1> USE DEF RInv, Attributes, Publisher
<1>1. Attributes' /\ OnlyItems'
  BY DEF Replace, Write, Go, Labels, OnlyItems
<1>2. AboutToRecord'
  BY DEF Replace, Write, Go, Saving, AboutToRecord, Proven
<1>3. CASE Replace
  <2>1. Proven("seeder")
    BY <1>3 DEF Replace, Go, Saving, AboutToRecord
  <2>2. RecordedWasHeld'
    BY <1>3, <2>1 DEF Replace, Record, Proven, RecordedWasHeld
  <2> QED BY <1>1, <1>2, <2>2
<1>4. CASE Write
  <2>1. Proven("cli")
    BY <1>4 DEF Write, Go, Saving, AboutToRecord
  <2>2. RecordedWasHeld'
    BY <1>4, <2>1 DEF Write, Record, Proven, RecordedWasHeld, NewFile
  <2> QED BY <1>1, <1>2, <2>2
<1> QED
  BY <1>3, <1>4

LEMMA InitRInv == Init => RInv
BY DEF Init, RInv, Attributes, OnlyItems, AboutToRecord, Saving, RecordedWasHeld,
       Publisher, Labels

LEMMA StutterRInv == RInv /\ UNCHANGED vars => RInv'
BY DEF vars, publisherVars, RInv, Attributes, OnlyItems, AboutToRecord, Saving, Proven,
       RecordedWasHeld, NewFile

LEMMA NextRInv == RInv /\ [Next]_vars => RInv'
<1> SUFFICES ASSUME RInv, [Next]_vars PROVE RInv'
  OBVIOUS
<1>1. CASE SeederNext
  BY <1>1, StepKeeps, BeginningKeeps, PreparingKeeps, RecordingKeeps
     DEF SeederNext, Publisher
<1>2. CASE CliNext
  BY <1>2, StepKeeps, BeginningKeeps, PreparingKeeps, RecordingKeeps
     DEF CliNext, Publisher
<1>3. CASE Publish \/ Killed
  BY <1>3, BeginningKeeps
<1>4. CASE UNCHANGED vars
  BY <1>4, StutterRInv
<1> QED
  BY <1>1, <1>2, <1>3, <1>4 DEF Next

(* Whichever of the two wrote publisher_state.json last, it names an item  *)
(* that the DHT has held, as docs/producer-guide.md:354 promises.          *)
THEOREM OnlyHeldIsRecorded == Spec => []RecordedWasHeld
<1>1. RInv => RecordedWasHeld
  BY DEF RInv
<1> QED
  BY <1>1, InitRInv, NextRInv, PTL DEF Spec

-----------------------------------------------------------------------------
(* Type correctness, which needs that the next sequence can be computed:   *)
(* a nonempty set of naturals with a bound has a greatest element.         *)
LEMMA GreatestIs ==
  ASSUME NEW N \in Nat, NEW S \in SUBSET (0 .. N), S # {}
  PROVE  Max(S) \in S /\ \A x \in S : x <= Max(S)
<1> DEFINE Below == {N - x : x \in S}
<1> DEFINE Less == OpToRel(<, Nat)
<1>1. Below \subseteq Nat /\ Below # {}
  <2>1. PICK x \in S : TRUE
    OBVIOUS
  <2>2. N - x \in Below
    OBVIOUS
  <2>3. \A y \in S : N - y \in Nat
    OBVIOUS
  <2> QED
    BY <2>2, <2>3
<1>2. PICK d \in Below : \A e \in Below : ~(<<e, d>> \in Less)
  <2> HIDE DEF Less, Below
  <2>1. IsWellFoundedOn(Less, Nat)
    BY NatLessThanWellFounded DEF Less
  <2> QED
    BY <1>1, <2>1, WFMin, Zenon
<1>3. PICK m \in S : d = N - m
  BY <1>2
<1>4. ASSUME NEW x \in S PROVE x <= m
  <2>1. ~(<<N - x, N - m>> \in Less)
    BY <1>2, <1>3
  <2>2. N - x \in Nat /\ N - m \in Nat
    OBVIOUS
  <2> QED
    BY <2>1, <2>2 DEF OpToRel
<1> HIDE DEF Below, Less
<1> QED
  BY <1>3, <1>4 DEF Max

LEMMA HighestIs ==
  ASSUME net \subseteq Items
  PROVE  Highest \in 0 .. MaxSeq /\ \A i \in net : i.seq <= Highest
<1> USE PublisherBounds
<1>1. CASE net = {}
  BY <1>1 DEF Highest
<1>2. CASE net # {}
  <2> DEFINE S == {i.seq : i \in net}
  <2>1. S \in SUBSET (0 .. MaxSeq) /\ S # {}
    BY <1>2 DEF Items
  <2>2. Max(S) \in S /\ \A x \in S : x <= Max(S)
    <3> HIDE DEF S
    <3> QED BY <2>1, GreatestIs
  <2>3. Highest = Max(S)
    BY <1>2 DEF Highest
  <2> HIDE DEF Highest
  <2> QED
    BY <2>1, <2>2, <2>3
<1> QED
  BY <1>1, <1>2

(* A publisher that is about to put has signed a sequence.                 *)
Signed == \A p \in Publisher : at[p] = "put" => put[p] > 0
TInv == TypeOK /\ Signed

(* What the two have in common. *)
LEMMA StepTyped == ASSUME TInv, NEW p \in Publisher, Step(p) PROVE TInv'
<1> USE PublisherBounds DEF TInv, TypeOK, Signed, Publisher, Labels
<1>1. CASE LookUp(p)
  <2>1. PICK seq \in Found : put' = [put EXCEPT ![p] = seq + 1]
    BY <1>1 DEF LookUp
  <2>2. seq \in 0 .. Highest
    BY HighestIs DEF Found, Items
  <2>3. Highest + 1 \in 1 .. MaxSeq
    BY <1>1, HighestIs DEF LookUp, Spare, Last
  <2> HIDE DEF Highest, Spare, Last
  <2>4. put' \in [Publisher -> 0 .. MaxSeq] /\ put'[p] > 0
    <3>1. seq + 1 \in 1 .. MaxSeq
      <4>1. Highest \in Nat
        BY HighestIs
      <4> QED
        BY <2>2, <2>3, <4>1
    <3> QED
      BY <2>1, <3>1
  <2>5. TypeOK'
    BY <1>1, <2>4 DEF LookUp, Go, bounds
  <2>6. Signed'
    BY <1>1, <2>4 DEF LookUp, Go
  <2> QED
    BY <2>5, <2>6
<1>2. CASE Complete(p) \/ Unanswered(p)
  <2>1. Item(p) \in Items
    BY <1>2 DEF Complete, Unanswered, Go, Item, Items
  <2>2. net' \subseteq Items
    BY <1>2, <2>1 DEF Complete, Unanswered
  <2>3. TypeOK'
    BY <1>2, <2>2 DEF Complete, Unanswered, Go, bounds
  <2>4. Signed'
    BY <1>2 DEF Complete, Unanswered, Go
  <2> QED
    BY <2>3, <2>4
<1>3. CASE ReadBack(p)
  <2>1. PICK i \in net : found' = [found EXCEPT ![p] = i.seq]
    BY <1>3 DEF ReadBack
  <2>2. i.seq \in 0 .. MaxSeq
    BY DEF Items
  <2>3. TypeOK'
    BY <1>3, <2>1, <2>2 DEF ReadBack, Go, bounds
  <2>4. Signed'
    BY <1>3 DEF ReadBack, Go
  <2> QED
    BY <2>3, <2>4
<1> QED
  BY <1>1, <1>2, <1>3 DEF Step

(* Nobody records, nor empties the file, while beginning or giving up. *)
LEMMA BeginningTyped ==
  ASSUME TInv, Reload \/ Republish \/ GiveUp \/ Publish \/ TryAgain \/ Fail \/ Killed
  PROVE  TInv'
<1> USE PublisherBounds, AttemptsAssumption
    DEF TInv, TypeOK, Signed, Publisher, Labels, bounds, Go
<1>1. CASE Reload
  BY <1>1 DEF Reload
<1>2. CASE Publish
  BY <1>2 DEF Publish, File
<1>3. CASE Republish \/ GiveUp \/ TryAgain \/ Fail
  BY <1>3 DEF Republish, GiveUp, TryAgain, Fail
<1>4. CASE Killed
  <2>1. /\ deaths' \in 0 .. MaxDeaths /\ deaths' > 0
        /\ UNCHANGED <<file, net, hash, rev, put, completed, found, runs, reloads>>
    BY <1>4 DEF Killed
  <2>2. /\ at' \in [Publisher -> Labels] /\ at' = [at EXCEPT !["cli"] = "rest"]
        /\ attempt' \in 0 .. Attempts
    BY <1>4 DEF Killed
  <2>3. detached' \in BOOLEAN
    BY <1>4, Zenon DEF Killed
  <2> QED
    BY <2>1, <2>2, <2>3
<1> QED
  BY <1>1, <1>2, <1>3, <1>4

(* The two saves: a record is of the file's kind and is not an empty file. *)
LEMMA SavingTyped == ASSUME TInv, Read \/ ReadFails \/ Replace \/ Open \/ Write PROVE TInv'
<1> USE PublisherBounds, AttemptsAssumption, EmptyAssumption
    DEF TInv, TypeOK, Signed, Publisher, Labels, bounds, Go
<1>1. \A p \in Publisher : Record(p) \in File
  BY DEF Record, File
<1>2. CASE Read
  BY <1>2 DEF Read, Revision, File
<1>3. CASE ReadFails
  BY <1>3 DEF ReadFails
<1>4. CASE Replace
  BY <1>1, <1>4 DEF Replace
<1>5. CASE Open
  BY <1>5 DEF Open
<1>6. CASE Write
  <2>1. (file' = file /\ detached) \/ file' \in File
    BY <1>1, <1>6, Zenon DEF Write
  <2>2. /\ at["cli"] = "write" /\ at' = [at EXCEPT !["cli"] = "rest"]
        /\ attempt' \in 0 .. Attempts
        /\ UNCHANGED <<net, hash, rev, put, completed, found, bounds>>
    BY <1>6 DEF Write
  <2>3. detached' \in BOOLEAN
    BY <1>6, Zenon DEF Write
  <2> QED
    BY <2>1, <2>2, <2>3
<1> QED
  BY <1>2, <1>3, <1>4, <1>5, <1>6

LEMMA InitTInv == Init => TInv
<1> SUFFICES ASSUME Init PROVE TInv
  OBVIOUS
<1> USE PublisherBounds, AttemptsAssumption DEF Init
<1>1. file \in File /\ file # Empty
  BY EmptyAssumption DEF File, NewFile
<1>2. detached \in BOOLEAN
  BY Zenon
<1>3. {put, completed, found} \subseteq [Publisher -> 0 .. MaxSeq]
  OBVIOUS
<1> QED
  BY <1>1, <1>2, <1>3 DEF TInv, TypeOK, Signed, Publisher, Labels

LEMMA NextTInv == TInv /\ [Next]_vars => TInv'
<1> SUFFICES ASSUME TInv, [Next]_vars PROVE TInv'
  OBVIOUS
<1>1. CASE UNCHANGED vars
  BY <1>1 DEF vars, publisherVars, bounds, TInv, TypeOK, Signed
<1> QED
  BY <1>1, StepTyped, BeginningTyped, SavingTyped DEF Next, SeederNext, CliNext, Publisher

LEMMA TypedInvariance == Spec => []TInv
BY InitTInv, NextTInv, PTL DEF Spec

(* Every attribute of both publishers holds a value of its kind, and an    *)
(* empty publisher_state.json is either being written by hand or left by a *)
(* publication that was killed (producer/publish.py:35).                   *)
THEOREM PublisherTypeCorrect == Spec => []TypeOK
<1>1. TInv => TypeOK
  BY DEF TInv
<1> QED
  BY <1>1, TypedInvariance, PTL

=============================================================================
