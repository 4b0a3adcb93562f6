------------------------ MODULE MirrorStateFileProofs ------------------------
(***************************************************************************)
(* A stopped mirror leaves its record in the file, for any hashes and      *)
(* records, any number of deaths and of failing writes.  Once both workers *)
(* are joined only main writes: the invariant follows its last save.       *)
(***************************************************************************)
EXTENDS MirrorStateFile, TLAPS

USE StateHashAssumption, StateRecordAssumption, StateBounds, FileAssumption

(* No thread but main is left. *)
Alone == stage = "stop" /\ \A t \in Worker : at[t] = "joined"

(* How far the last save has come. *)
LastSave ==
  Alone =>
    /\ at["main"] \in {"seq", "hash", "open", "write", "rest"}
    /\ at["main"] \in {"hash", "open", "write"} => copy["main"].seq = memory.seq
    /\ at["main"] \in {"open", "write"} => copy["main"].hash = memory.hash
    /\ at["main"] = "write" => file = Empty
    /\ at["main"] = "rest" => file = memory

IInv == TypeOK /\ LastSave

-----------------------------------------------------------------------------
LEMMA Defaults == Default \in Record
BY SMT DEF Default, Record

LEMMA InitIInv == Init => IInv
<1> SUFFICES ASSUME Init PROVE IInv
  OBVIOUS
<1>1. running \in BOOLEAN
  BY Zenon DEF Init
<1>2. TypeOK
  BY <1>1, Defaults, SMT DEF Init, TypeOK, Stages, Labels, Tasks, Thread, Worker
<1>3. ~Alone
  BY SMT DEF Init, Alone
<1>4. QED
  BY <1>2, <1>3 DEF IInv, LastSave

(* One thread's entry changes. *)
LEMMA OneEntry ==
  ASSUME NEW S, NEW f \in [Thread -> S], NEW t, NEW v \in S
  PROVE  [f EXCEPT ![t] = v] \in [Thread -> S]
OBVIOUS

(* The end of the process. *)
LEMMA GoneKeeps ==
  ASSUME TypeOK, Gone, file' \in Record \cup {Absent, Empty, Garbled},
         deaths' \in 0 .. MaxDeaths, failures' \in 0 .. MaxFailures
  PROVE  IInv'
<1>1. running' \in BOOLEAN
  BY Zenon DEF Gone
<1>2. TypeOK'
  BY <1>1, Defaults, SMT DEF Gone, TypeOK, Stages, Labels, Tasks, Thread, Worker
<1>3. ~Alone'
  BY SMT DEF Gone, Alone
<1>4. QED
  BY <1>2, <1>3, Zenon DEF IInv, LastSave

(* The thread of a step is not joined, so that a step of a worker finds it *)
(* still at work.                                                          *)
LEMMA WorkerAtWork ==
  ASSUME TypeOK, NEW t \in Worker, at'[t] # "joined"
  PROVE  LastSave'
BY Zenon DEF LastSave, Alone

(* One step of a save. *)
LEMMA SaveStepKeeps ==
  ASSUME IInv, NEW t \in Thread, SaveStep(t) PROVE IInv'
<1> USE DEF IInv, TypeOK, At, Go, processVars, followVars
<1>1. CASE GatherSeq(t)
  <2>1. /\ at' = [at EXCEPT ![t] = "hash"] /\ at[t] = "seq" /\ stage # "down"
        /\ copy' = [copy EXCEPT ![t] = [copy[t] EXCEPT !.seq = memory.seq]]
        /\ UNCHANGED <<memory, file, stage, running, desired, active, task, deaths, failures>>
    BY <1>1, SMT DEF GatherSeq
  <2>2. [copy[t] EXCEPT !.seq = memory.seq] \in Record
    BY SMT DEF Record
  <2>3. at' \in [Thread -> Labels] /\ copy' \in [Thread -> Record]
    BY <2>1, <2>2, SMT DEF Labels
  <2>4. TypeOK'
    BY <2>1, <2>3, SMT DEF Labels, Thread, Worker
  <2>5. CASE t = "main"
    <3>1. copy'["main"].seq = memory.seq /\ at'["main"] = "hash"
      BY <2>1, <2>2, <2>5, SMT DEF Record
    <3>2. QED
      BY <2>1, <2>4, <3>1, SMT DEF LastSave
  <2>6. CASE t # "main"
    BY <2>1, <2>4, <2>6, WorkerAtWork, SMT DEF Thread
  <2>7. QED
    BY <2>5, <2>6
<1>2. CASE GatherHash(t)
  <2>1. /\ at' = [at EXCEPT ![t] = "open"] /\ at[t] = "hash" /\ stage # "down"
        /\ copy' = [copy EXCEPT ![t] = [copy[t] EXCEPT !.hash = memory.hash]]
        /\ UNCHANGED <<memory, file, stage, running, desired, active, task, deaths, failures>>
    BY <1>2, SMT DEF GatherHash
  <2>2. [copy[t] EXCEPT !.hash = memory.hash] \in Record
    BY SMT DEF Record
  <2>3. at' \in [Thread -> Labels] /\ copy' \in [Thread -> Record]
    BY <2>1, <2>2, SMT DEF Labels
  <2>4. TypeOK'
    BY <2>1, <2>3, SMT DEF Labels, Thread, Worker
  <2>5. CASE t = "main"
    <3>1. /\ copy'["main"].seq = copy["main"].seq /\ copy'["main"].hash = memory.hash
          /\ at'["main"] = "open" /\ at["main"] = "hash"
      BY <2>1, <2>2, <2>5, SMT DEF Record
    <3>2. Alone' => Alone
      BY <2>1, <2>5, SMT DEF Alone, Worker, Thread
    <3>3. QED
      BY <2>1, <2>4, <3>1, <3>2, SMT DEF LastSave
  <2>6. CASE t # "main"
    BY <2>1, <2>4, <2>6, WorkerAtWork, SMT DEF Thread
  <2>7. QED
    BY <2>5, <2>6
<1>3. CASE Open(t)
  <2>1. /\ at' = [at EXCEPT ![t] = "write"] /\ at[t] = "open" /\ stage # "down"
        /\ file' = Empty
        /\ UNCHANGED <<memory, stage, running, desired, active, task, copy, deaths, failures>>
    BY <1>3, SMT DEF Open
  <2>2. TypeOK'
    BY <2>1, SMT DEF Labels, Thread, Worker
  <2>3. CASE t = "main"
    <3>1. at'["main"] = "write" /\ at["main"] = "open"
      BY <2>1, <2>3, SMT
    <3>2. Alone' => Alone
      BY <2>1, <2>3, SMT DEF Alone, Worker, Thread
    <3>3. QED
      BY <2>1, <2>2, <3>1, <3>2, SMT DEF LastSave
  <2>4. CASE t # "main"
    BY <2>1, <2>2, <2>4, WorkerAtWork, SMT DEF Thread
  <2>5. QED
    BY <2>3, <2>4
<1>4. CASE Write(t)
  <2>1. /\ at[t] = "write" /\ stage # "down"
        /\ at' = [at EXCEPT ![t] = AfterSave(t)]
        /\ file' \in {copy[t]} \cup (IF file = Empty THEN {} ELSE {Garbled})
        /\ copy' = [copy EXCEPT ![t] = Default] /\ task' = [task EXCEPT ![t] = "phase"]
        /\ UNCHANGED <<memory, stage, desired, active, deaths, failures>>
    BY <1>4, SMT DEF Write
  <2>2. running' \in BOOLEAN
    BY <1>4, Zenon DEF Write
  <2>3. /\ AfterSave(t) \in {"meta", "ended", "rest"}
        /\ AfterSave(t) = "meta" => t = "driver"
        /\ t = "main" => AfterSave(t) = "rest"
    BY <2>1, SMT DEF AfterSave, Thread, Worker
  <2>4. /\ at' \in [Thread -> Labels] /\ copy' \in [Thread -> Record]
        /\ task' \in [Thread -> Tasks] /\ file' \in Record \cup {Absent, Empty, Garbled}
    BY <2>1, <2>3, Defaults, SMT DEF Labels, Tasks
  <2>5. TypeOK'
    BY <2>1, <2>2, <2>3, <2>4, SMT DEF Thread, Worker
  <2>6. CASE t = "main"
    <3>1. at'["main"] = "rest" /\ at["main"] = "write"
      BY <2>1, <2>3, <2>6, SMT
    <3>2. Alone' => Alone
      BY <2>1, <2>6, SMT DEF Alone, Worker, Thread
    <3>3. Alone => copy["main"] = memory
      BY <3>1, SMT DEF LastSave, Record, Thread
    <3>4. Alone' => file' = memory'
      BY <2>1, <2>6, <3>1, <3>2, <3>3, SMT DEF LastSave
    <3>5. QED
      BY <2>5, <3>1, <3>4, SMT DEF LastSave
  <2>7. CASE t # "main"
    BY <2>1, <2>3, <2>5, <2>7, WorkerAtWork, SMT DEF Thread
  <2>8. QED
    BY <2>6, <2>7
<1>5. QED
  BY <1>1, <1>2, <1>3, <1>4, Zenon DEF SaveStep

(* An exception, and the handler of its thread. *)
LEMMA RaiseKeeps ==
  ASSUME IInv, NEW t \in Thread, Raise(t), at[t] # "joined", stage # "down",
         t = "main" => stage = "serve",
         file' \in Record \cup {Absent, Empty, Garbled}, failures' \in 0 .. MaxFailures,
         UNCHANGED <<memory, stage, desired, active, deaths>>
  PROVE  IInv'
<1> USE DEF IInv, TypeOK
<1>1. /\ copy' = [copy EXCEPT ![t] = Default]
      /\ \E l \in {"seq", "rest", "ended"} : at' = [at EXCEPT ![t] = l]
      /\ \E k \in {"error", "phase"} : task' = [task EXCEPT ![t] = k]
  BY SMT DEF Raise, Save, Go
<1>2. running' \in BOOLEAN
  BY Zenon DEF Raise
<1>3. /\ at' \in [Thread -> Labels] /\ copy' \in [Thread -> Record]
      /\ task' \in [Thread -> Tasks]
  BY <1>1, Defaults, SMT DEF Labels, Tasks
<1>4. TypeOK'
  BY <1>1, <1>2, <1>3, SMT DEF Thread, Worker
<1>5. ~Alone'
  BY <1>1, SMT DEF Alone, Thread, Worker
<1>6. QED
  BY <1>4, <1>5, Zenon DEF LastSave

LEMMA WriteFailsKeeps ==
  ASSUME IInv, NEW t \in Thread, WriteFails(t) PROVE IInv'
<1> USE DEF IInv, TypeOK
<1>1. /\ file' \in Record \cup {Absent, Empty, Garbled} /\ failures' \in 0 .. MaxFailures
      /\ deaths' = deaths /\ at[t] = "write" /\ stage # "down"
  BY SMT DEF WriteFails, At
<1>2. CASE Gone
  BY <1>1, <1>2, GoneKeeps
<1>3. CASE ~(t = "main" /\ stage # "serve") /\ Raise(t) /\ UNCHANGED <<memory, stage, followVars>>
  <2>1. UNCHANGED <<memory, stage, desired, active>>
    BY <1>3, Zenon DEF followVars
  <2>2. QED
    BY <1>1, <1>3, <2>1, RaiseKeeps
<1>4. QED
  BY <1>2, <1>3, Zenon DEF WriteFails

-----------------------------------------------------------------------------
(* The main thread. *)
LEMMA MainKeeps ==
  ASSUME IInv, MainNext PROVE IInv'
<1> USE DEF IInv, TypeOK, At, Go, Save, processVars, followVars, threadVars
<1>1. CASE Start
  <2>1. memory' \in Record /\ stage' = "load"
    BY <1>1, Defaults, SMT DEF Start, Loaded
  <2>2. /\ at' \in [Thread -> Labels] /\ task' \in [Thread -> Tasks]
        /\ at' = at \/ at' = [at EXCEPT !["main"] = "seq"]
        /\ task' = task \/ task' = [task EXCEPT !["main"] = "phase"]
    <3>1. CASE UNCHANGED <<at, task>>
      BY <3>1, SMT
    <3>2. CASE at' = [at EXCEPT !["main"] = "seq"] /\ task' = [task EXCEPT !["main"] = "phase"]
      <4>1. at' \in [Thread -> Labels]
        BY <3>2, OneEntry DEF Labels
      <4>2. task' \in [Thread -> Tasks]
        BY <3>2, OneEntry DEF Tasks
      <4>3. QED
        BY <3>2, <4>1, <4>2, Zenon
    <3>3. QED
      BY <1>1, <3>1, <3>2, Zenon DEF Start
  <2>3. TypeOK'
    BY <1>1, <2>1, <2>2, SMT DEF Start, Stages, Thread, Worker
  <2>4. QED
    BY <2>1, <2>3, SMT DEF LastSave, Alone
<1>2. CASE Boot
  <2>1. running' \in BOOLEAN /\ stage' = "boot"
    BY <1>2, Zenon DEF Boot
  <2>2. TypeOK'
    BY <1>2, <2>1, SMT DEF Boot, Stages, Labels, Tasks, Thread, Worker
  <2>3. QED
    BY <2>1, <2>2, SMT DEF LastSave, Alone
<1>3. CASE Serve
  <2>1. TypeOK'
    BY <1>3, SMT DEF Serve, Stages, Labels, Thread, Worker, Record
  <2>2. QED
    BY <1>3, <2>1, SMT DEF Serve, LastSave, Alone
<1>4. CASE SetIdle
  <2>1. at["main"] = "idle"
    BY <1>4, SMT DEF SetIdle
  <2>2. /\ at' = [at EXCEPT !["main"] = "seq"] \/ at' = [at EXCEPT !["main"] = "rest"]
        /\ task' = task \/ task' = [task EXCEPT !["main"] = "phase"]
    BY <1>4, SMT DEF SetIdle
  <2>3. TypeOK'
    BY <1>4, <2>2, SMT DEF SetIdle, Labels, Tasks, Thread, Worker
  <2>4. Alone' => Alone
    BY <1>4, <2>2, SMT DEF SetIdle, Alone, Thread, Worker
  <2>5. ~Alone
    BY <2>1, SMT DEF LastSave
  <2>6. QED
    BY <2>3, <2>4, <2>5, Zenon DEF LastSave
<1>5. CASE Stop
  <2>1. PICK joined \in SUBSET Worker :
          at' = [t \in Thread |-> IF t = "main" THEN "seq"
                                  ELSE IF t \in joined THEN "joined" ELSE at[t]]
    BY <1>5, SMT DEF Stop
  <2>2. at' \in [Thread -> Labels] /\ at'["main"] = "seq" /\ stage' = "stop"
    BY <1>5, <2>1, SMT DEF Stop, Labels, Thread
  <2>3. TypeOK'
    BY <1>5, <2>1, <2>2, SMT DEF Stop, Stages, Thread, Worker
  <2>4. QED
    BY <2>2, <2>3, SMT DEF LastSave
<1>6. CASE Exit
  BY <1>6, GoneKeeps DEF Exit
<1>7. QED
  BY <1>1, <1>2, <1>3, <1>4, <1>5, <1>6 DEF MainNext

(* The driver, the monitor, and the signals. *)
LEMMA WorkersKeep ==
  ASSUME IInv, \/ Signal \/ Crash \/ \E t \in Worker : SetPhase(t)
               \/ \E r \in Signed : Adopt(r)
               \/ AssignHash \/ Reconcile \/ MetaFails
  PROVE  IInv'
<1> USE DEF IInv, TypeOK, At, Go, Save, processVars, followVars, threadVars
<1>1. CASE Signal
  <2>1. running' \in BOOLEAN
    BY <1>1, Zenon DEF Signal
  <2>2. TypeOK'
    BY <1>1, <2>1, SMT DEF Signal
  <2>3. QED
    BY <1>1, <2>2, SMT DEF Signal, LastSave, Alone
<1>2. CASE Crash
  BY <1>2, GoneKeeps, SMT DEF Crash
<1>3. ASSUME NEW t \in Worker, SetPhase(t) PROVE IInv'
  <2>1. /\ at' = [at EXCEPT ![t] = "seq"] /\ task' = [task EXCEPT ![t] = "phase"]
        /\ t \in Thread /\ stage # "down"
        /\ UNCHANGED <<memory, file, stage, running, desired, active, copy, deaths, failures>>
    BY <1>3, SMT DEF SetPhase, Working, Thread
  <2>2. TypeOK'
    BY <2>1, SMT DEF Labels, Tasks, Thread, Worker
  <2>3. QED
    BY <2>1, <2>2, WorkerAtWork, SMT
<1>4. ASSUME NEW r \in Signed, Adopt(r) PROVE IInv'
  <2>1. /\ at' = [at EXCEPT !["driver"] = "assign"] /\ stage # "down"
        /\ memory' = [memory EXCEPT !.seq = r.seq] /\ desired' = r
        /\ UNCHANGED <<file, stage, running, active, task, copy, deaths, failures>>
    BY <1>4, SMT DEF Adopt, Working
  <2>2. memory' \in Record /\ desired' \in Record
    BY <2>1, SMT DEF Record
  <2>3. TypeOK'
    BY <2>1, <2>2, SMT DEF Labels, Thread, Worker
  <2>4. QED
    BY <2>1, <2>3, WorkerAtWork, SMT DEF Worker, Thread
<1>5. CASE AssignHash
  <2>1. /\ at' = [at EXCEPT !["driver"] = "seq"] /\ stage # "down"
        /\ memory' = [memory EXCEPT !.hash = desired.hash]
        /\ task' = [task EXCEPT !["driver"] = "adopt"]
        /\ UNCHANGED <<file, stage, running, desired, active, copy, deaths, failures>>
    BY <1>5, SMT DEF AssignHash
  <2>2. memory' \in Record
    BY <2>1, SMT DEF Record
  <2>3. TypeOK'
    BY <2>1, <2>2, SMT DEF Labels, Tasks, Thread, Worker
  <2>4. QED
    BY <2>1, <2>3, WorkerAtWork, SMT DEF Worker, Thread
<1>6. CASE Reconcile
  <2>1. /\ at' = [at EXCEPT !["driver"] = "rest"] /\ stage # "down"
        /\ active' = desired.hash
        /\ UNCHANGED <<memory, file, stage, running, desired, task, copy, deaths, failures>>
    BY <1>6, SMT DEF Reconcile
  <2>2. TypeOK'
    BY <2>1, SMT DEF Labels, Thread, Worker, Record
  <2>3. QED
    BY <2>1, <2>2, WorkerAtWork, SMT DEF Worker, Thread
<1>7. CASE MetaFails
  <2>1. /\ "driver" \in Thread /\ at["driver"] = "meta" /\ Raise("driver") /\ stage # "down"
        /\ failures' \in 0 .. MaxFailures /\ file' = file
        /\ UNCHANGED <<memory, stage, desired, active, deaths>>
    BY <1>7, SMT DEF MetaFails, Thread, Worker
  <2>2. QED
    BY <2>1, RaiseKeeps
<1>8. QED
  BY <1>1, <1>2, <1>3, <1>4, <1>5, <1>6, <1>7

LEMMA NextIInv == IInv /\ [Next]_vars => IInv'
<1> SUFFICES ASSUME IInv, [Next]_vars PROVE IInv'
  OBVIOUS
<1>1. ASSUME NEW t \in Thread, SaveStep(t) \/ WriteFails(t) PROVE IInv'
  BY <1>1, SaveStepKeeps, WriteFailsKeeps
<1>2. CASE MainNext
  BY <1>2, MainKeeps
<1>3. CASE UNCHANGED vars
  BY <1>3, Zenon DEF vars, processVars, followVars, threadVars, IInv, TypeOK, LastSave, Alone
<1>4. QED
  BY <1>1, <1>2, <1>3, WorkersKeep DEF Next

-----------------------------------------------------------------------------
(* The invariant holds of every behaviour of the mirror's threads. *)
THEOREM Invariance == Spec => []IInv
BY InitIInv, NextIInv, PTL DEF Spec

(* Every attribute holds a value of its kind, whatever was interrupted     *)
(* (state.py:50-108).                                                      *)
THEOREM TypeCorrect == Spec => []TypeOK
<1>1. IInv => TypeOK
  BY DEF IInv
<1>2. QED
  BY Invariance, <1>1, PTL

(* A clean stop leaves the record in the file (watcher.py:178-187).        *)
THEOREM StopKeeps == Spec => CleanStop
<1>1. IInv /\ [Next]_vars
        => [Exit /\ (\A t \in Worker : at[t] = "joined") => file = memory]_vars
  BY Zenon DEF IInv, LastSave, Alone, Exit, At
<1>2. QED
  BY Invariance, <1>1, PTL DEF Spec, CleanStop
=============================================================================
