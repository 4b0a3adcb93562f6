--------------------------- MODULE MirrorStateFile ---------------------------
(***************************************************************************)
(* How a mirror keeps what it follows (mirror/state.py MirrorState, with   *)
(* the calls of mirror/watcher.py): the record in memory, its copy in      *)
(* mirror_state.json, and the torrent that was activated for it.           *)
(*                                                                         *)
(* Three threads rewrite the whole file whenever the phase changes: main,  *)
(* the driver (which discovers, adopts and reconciles) and the monitor.    *)
(* No lock covers a save, update assigns the two parts of the record one   *)
(* after the other, and the file is truncated when it is opened and        *)
(* written once, from its beginning, when it is closed.                    *)
(*                                                                         *)
(* The phase itself and the name of the torrent are left out; their length *)
(* is why a save may leave the tail of another behind it.  Reconciliation, *)
(* which MirrorWatcher models, is one assignment here.                     *)
(***************************************************************************)
EXTENDS Naturals

CONSTANTS
  Hash,         \* info hashes
  NoHash,       \* the empty string of an unset last_info_hash
  Signed,       \* the records the producer signed: [seq, hash]
  Absent,       \* no file
  Empty,        \* a file that has been truncated
  Garbled,      \* a file that was cut or overlaid: json.loads refuses it
  MaxDeaths,    \* crashes and stops (a bound)
  MaxFailures   \* writes that fail (a bound)

ASSUME StateHashAssumption == NoHash \notin Hash
ASSUME StateRecordAssumption == Signed \subseteq [seq : Nat \ {0}, hash : Hash]
ASSUME StateBounds == MaxDeaths \in Nat /\ MaxFailures \in Nat

Worker == {"driver", "monitor"}
Thread == {"main"} \cup Worker

Record == [seq : {0} \cup {r.seq : r \in Signed}, hash : Hash \cup {NoHash}]
Default == [seq |-> 0, hash |-> NoHash]

ASSUME FileAssumption == {Absent, Empty, Garbled} \cap Record = {}

VARIABLES
  memory,    \* last_seq and last_info_hash
  file,      \* mirror_state.json
  stage,     \* where start() and stop() are
  running,   \* self._running
  desired,   \* self._desired_snapshot
  active,    \* self._active_info_hash
  at,        \* where each thread is
  task,      \* what each thread saves for
  copy,      \* the data each thread's _save has gathered
  deaths,
  failures

processVars == <<stage, running>>
followVars  == <<desired, active>>
threadVars  == <<at, task, copy>>
vars == <<memory, file, processVars, followVars, threadVars, deaths, failures>>

Stages == {"down", "load", "boot", "serve", "stop"}
Labels == {"rest", "idle", "assign", "seq", "hash", "open", "write", "meta", "ended",
           "joined"}
Tasks == {"phase", "adopt", "error"}

(* Every attribute holds a value of its kind, only the driver adopts, and  *)
(* no thread works while the service is down.                              *)
TypeOK ==
  /\ memory \in Record /\ desired \in Record
  /\ file \in Record \cup {Absent, Empty, Garbled}
  /\ stage \in Stages /\ running \in BOOLEAN
  /\ active \in Hash \cup {NoHash}
  /\ at \in [Thread -> Labels]
  /\ task \in [Thread -> Tasks]
  /\ copy \in [Thread -> Record]
  /\ deaths \in 0 .. MaxDeaths
  /\ failures \in 0 .. MaxFailures
  /\ \A t \in Worker : at[t] # "idle"
  /\ \A t \in Thread \ {"driver"} : at[t] \notin {"assign", "meta"} /\ task[t] # "adopt"
  /\ stage = "down" => at = [t \in Thread |-> "rest"]

Init ==
  /\ memory = Default /\ file = Absent
  /\ stage = "down" /\ running = FALSE
  /\ desired = Default /\ active = NoHash
  /\ at = [t \in Thread |-> "rest"]
  /\ task = [t \in Thread |-> "phase"]
  /\ copy = [t \in Thread |-> Default]
  /\ deaths = 0 /\ failures = 0

At(t, label) == stage # "down" /\ at[t] = label
Go(t, label) == at' = [at EXCEPT ![t] = label]

(* A save begins. *)
Save(t, for) ==
  /\ Go(t, "seq")
  /\ task' = [task EXCEPT ![t] = for]

-----------------------------------------------------------------------------
(* One save. *)

(* The dict is built: first the sequence, then the hash. *)
GatherSeq(t) ==
  /\ At(t, "seq") /\ Go(t, "hash")
  /\ copy' = [copy EXCEPT ![t].seq = memory.seq]
  /\ UNCHANGED <<memory, file, processVars, followVars, task, deaths, failures>>

GatherHash(t) ==
  /\ At(t, "hash") /\ Go(t, "open")
  /\ copy' = [copy EXCEPT ![t].hash = memory.hash]
  /\ UNCHANGED <<memory, file, processVars, followVars, task, deaths, failures>>

(* Mutant of Open: the file is not truncated. *)
OpenKeeps(t) ==
  /\ At(t, "open") /\ Go(t, "write")
  /\ UNCHANGED <<memory, file, processVars, followVars, task, copy, deaths, failures>>

(* write_text opens the file, which truncates it. *)
Open(t) ==
  /\ At(t, "open") /\ Go(t, "write")
  /\ file' = Empty
  /\ UNCHANGED <<memory, processVars, followVars, task, copy, deaths, failures>>

(* The handler of the main thread and that of the monitor stop the service. *)
Fatal(t) == task[t] = "error" /\ t # "driver"

(* Mutant of AfterSave: the other threads go on like the driver. *)
AfterSaveOfAny(t) == IF Fatal(t) THEN "ended" ELSE "meta"

(* update is followed by snapshot_meta.update; the monitor leaves its loop *)
(* after its handler.                                                      *)
AfterSave(t) ==
  IF task[t] = "adopt" THEN "meta"
  ELSE IF Fatal(t) /\ t = "monitor" THEN "ended" ELSE "rest"

(* The content is written from the beginning of the file.  What another    *)
(* thread wrote since it was truncated is overlaid, and remains behind the *)
(* content if it was longer.                                               *)
Write(t) ==
  /\ At(t, "write") /\ Go(t, AfterSave(t))
  /\ file' \in {copy[t]} \cup (IF file = Empty THEN {} ELSE {Garbled})
  /\ running' = (running /\ ~Fatal(t))
  /\ copy' = [copy EXCEPT ![t] = Default]
  /\ task' = [task EXCEPT ![t] = "phase"]
  /\ UNCHANGED <<memory, stage, followVars, deaths, failures>>

(* The process is gone; its files stay. *)
Gone ==
  /\ stage' = "down" /\ running' = FALSE
  /\ memory' = Default /\ desired' = Default /\ active' = NoHash
  /\ at' = [t \in Thread |-> "rest"]
  /\ task' = [t \in Thread |-> "phase"]
  /\ copy' = [t \in Thread |-> Default]

(* An exception while the service serves: the thread's handler saves the   *)
(* phase "error".  If that fails too, the driver's or the monitor's thread *)
(* is dead, unnoticed; main stops the service.                             *)
Raise(t) ==
  /\ copy' = [copy EXCEPT ![t] = Default]
  /\ IF task[t] # "error"
       THEN Save(t, "error") /\ UNCHANGED running
       ELSE /\ Go(t, IF t = "main" THEN "rest" ELSE "ended")
            /\ task' = [task EXCEPT ![t] = "phase"]
            /\ running' = (running /\ t # "main")

(* The write fails (the disk is full), with none or some of it written.    *)
(* Before the service serves and after it was stopped nothing catches the  *)
(* exception of the main thread.                                           *)
WriteFails(t) ==
  /\ At(t, "write") /\ failures < MaxFailures
  /\ failures' = failures + 1
  /\ file' \in {file, Garbled}
  /\ \/ t = "main" /\ stage # "serve" /\ Gone
     \/ ~(t = "main" /\ stage # "serve") /\ Raise(t) /\ UNCHANGED <<memory, stage, followVars>>
  /\ UNCHANGED deaths

-----------------------------------------------------------------------------
(* The main thread. *)

(* A missing or damaged file leaves the attributes at their defaults.      *)
Loaded == IF file \in Record THEN file ELSE Default

(* The service is created: _load reads the file, or resets it.             *)
Start ==
  /\ stage = "down" /\ stage' = "load"
  /\ memory' = Loaded
  /\ IF file \in Record THEN UNCHANGED <<at, task>> ELSE Save("main", "phase")
  /\ UNCHANGED <<file, running, followVars, copy, deaths, failures>>

(* start(): the phase bootstrapping_dht, then _running. *)
Boot ==
  /\ stage = "load" /\ At("main", "rest")
  /\ stage' = "boot" /\ running' = TRUE
  /\ Save("main", "phase")
  /\ UNCHANGED <<memory, file, followVars, copy, deaths, failures>>

(* The threads start and what the file named is resumed.                   *)
Serve ==
  /\ stage = "boot" /\ At("main", "rest") /\ running
  /\ stage' = "serve" /\ Go("main", "idle")
  /\ desired' = memory /\ active' = memory.hash
  /\ UNCHANGED <<memory, file, running, task, copy, deaths, failures>>

(* The phase idle, beside the running threads, if nothing is active.       *)
SetIdle ==
  /\ At("main", "idle")
  /\ \/ active = NoHash /\ Save("main", "phase")
     \/ active # NoHash /\ Go("main", "rest") /\ UNCHANGED task
  /\ UNCHANGED <<memory, file, processVars, followVars, copy, deaths, failures>>

(* SIGTERM. *)
Signal ==
  /\ stage \in {"boot", "serve"} /\ running /\ deaths < MaxDeaths
  /\ running' = FALSE /\ deaths' = deaths + 1
  /\ UNCHANGED <<memory, file, stage, followVars, threadVars, failures>>

(* stop(): a thread that is between two cycles is joined, or does not come *)
(* back within the 5 s; then the phase stopped is saved.                   *)
Stop ==
  /\ stage \in {"boot", "serve"} /\ At("main", "rest") /\ ~running
  /\ \E joined \in SUBSET {t \in Worker : at[t] \in {"rest", "ended"}} :
       /\ stage = "boot" => joined = Worker
       /\ at' = [t \in Thread |-> IF t = "main" THEN "seq"
                                  ELSE IF t \in joined THEN "joined" ELSE at[t]]
  /\ stage' = "stop"
  /\ UNCHANGED <<memory, file, running, followVars, task, copy, deaths, failures>>

(* The process ends with the main thread; the others are daemons.          *)
Exit ==
  /\ stage = "stop" /\ At("main", "rest")
  /\ Gone
  /\ UNCHANGED <<file, deaths, failures>>

Crash ==
  /\ stage # "down" /\ deaths < MaxDeaths
  /\ deaths' = deaths + 1
  /\ Gone
  /\ UNCHANGED <<file, failures>>

-----------------------------------------------------------------------------
(* The driver and the monitor. *)

Working(t) == stage \in {"serve", "stop"} /\ at[t] = "rest"

(* A phase: of the discovery cycle, or of what the monitor has polled.     *)
SetPhase(t) ==
  /\ Working(t) /\ (t = "driver" => running)
  /\ Save(t, "phase")
  /\ UNCHANGED <<memory, file, processVars, followVars, copy, deaths, failures>>

(* Mutant of NoUpdate: a sequence that is stored is not adopted again. *)
NoUpdateBySequence(r) == r.seq <= memory.seq

NoUpdate(r) == r.hash = memory.hash /\ r.seq <= memory.seq

(* A discovery gives a record that is not below the stored sequence (see   *)
(* SnapshotLookup) and _set_desired_snapshot adopts it: state.update       *)
(* assigns the sequence,                                                   *)
Adopt(r) ==
  /\ Working("driver")
  /\ r.seq >= memory.seq /\ ~NoUpdate(r)
  /\ desired' = r
  /\ memory' = [memory EXCEPT !.seq = r.seq]
  /\ Go("driver", "assign")
  /\ UNCHANGED <<file, processVars, active, task, copy, deaths, failures>>

(* then the hash, and saves. *)
AssignHash ==
  /\ At("driver", "assign")
  /\ memory' = [memory EXCEPT !.hash = desired.hash]
  /\ Save("driver", "adopt")
  /\ UNCHANGED <<file, processVars, followVars, copy, deaths, failures>>

(* snapshot_meta.update, and the reconciliation after it. *)
Reconcile ==
  /\ At("driver", "meta") /\ Go("driver", "rest")
  /\ active' = desired.hash
  /\ UNCHANGED <<memory, file, processVars, desired, task, copy, deaths, failures>>

(* snapshot_meta.update raises: its own write fails, or the monitor adds a *)
(* key to the dict while it is being encoded.                              *)
MetaFails ==
  /\ At("driver", "meta") /\ failures < MaxFailures
  /\ failures' = failures + 1
  /\ Raise("driver")
  /\ UNCHANGED <<memory, file, stage, followVars, deaths>>

-----------------------------------------------------------------------------
SaveStep(t) == GatherSeq(t) \/ GatherHash(t) \/ Open(t) \/ Write(t)

MainNext == Start \/ Boot \/ Serve \/ SetIdle \/ Stop \/ Exit

Next ==
  \/ MainNext \/ Signal \/ Crash
  \/ \E t \in Thread : SaveStep(t) \/ WriteFails(t)
  \/ \E t \in Worker : SetPhase(t)
  \/ \E r \in Signed : Adopt(r)
  \/ AssignHash \/ Reconcile \/ MetaFails

Spec == Init /\ [][Next]_vars

Newest == CHOOSE r \in Signed : \A s \in Signed : s.seq <= r.seq

(* The container is restarted, the threads run, the discovery thread keeps *)
(* its cycle, and lookups that keep completing give the newest record now  *)
(* and then (DhtLookup, NewestFound).                                      *)
Fairness ==
  /\ WF_vars(MainNext)
  /\ \A t \in Thread : WF_vars(SaveStep(t))
  /\ WF_vars(AssignHash \/ Reconcile)
  /\ WF_vars(SetPhase("driver"))
  /\ SF_vars(Adopt(Newest))

FairSpec == Spec /\ Fairness

-----------------------------------------------------------------------------
(* A service that was stopped, and whose threads came back in time, leaves *)
(* the file whole and naming what it followed, whatever its threads had    *)
(* done to it before ("handles SIGTERM gracefully and saves state before   *)
(* exiting", docs/mirror-swarm-mode.md:337).                               *)
CleanStop ==
  [][Exit /\ (\A t \in Worker : at[t] = "joined") => file = memory]_vars

(* Whatever an overlap, a cut or a failed save left in the file, also a    *)
(* sequence with the hash of another record, a restarted mirror comes to   *)
(* the newest record and stays there, and so does the file, whenever the   *)
(* threads let go of it.                                                   *)
Converges == <>[](stage = "serve" => memory = Newest) /\ []<>(file = Newest)

(* A record that was adopted is activated without a restart ("On a higher  *)
(* sequence it ... returns to seeding without a container restart",        *)
(* docs/public-beta-runbook.md:44).                                        *)
AdoptedIsActivated ==
  (stage = "serve" /\ memory = Newest) ~> (active = Newest.hash \/ stage # "serve")
=============================================================================
