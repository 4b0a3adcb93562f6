--------------------------- MODULE MirrorWatcher ----------------------------
(***************************************************************************)
(* One run of the mirror service (mirror/watcher.py), from start() to the  *)
(* end of the process.  Four actors share its attributes:                  *)
(*                                                                         *)
(*   - main     : start(), the wait loop, stop(), the signal handler;      *)
(*   - driver   : the code that discovers, adopts a record and reconciles  *)
(*                the session with it.  The main thread runs it first (and *)
(*                throughout in leech mode), then the discovery thread;    *)
(*   - monitor  : the thread that polls the active torrent every 5 s;      *)
(*   - session  : libtorrent, which acts on its handles by itself.         *)
(*                                                                         *)
(* A label names the next statement of an actor; statements that no other  *)
(* actor can tell apart share a step.  What state.json holds across runs   *)
(* is the subject of MirrorStateFile: here Init is any record it may give. *)
(***************************************************************************)
EXTENDS Naturals

CONSTANTS
  Hash,         \* v2 info hashes
  NoHash,       \* None
  Signed,       \* the records [seq, hash] a completed DHT lookup may return
  Modes,        \* the modes of the service: a subset of {"swarm", "leech"}
  MissLimit     \* empty lookups before the service gives up, 0 for never

ASSUME NoHashAssumption == NoHash \notin Hash
ASSUME SignedAssumption == Signed \subseteq [seq : Nat \ {0}, hash : Hash]
ASSUME ModesAssumption  == Modes \subseteq {"swarm", "leech"}
ASSUME MissAssumption   == MissLimit \in Nat

VARIABLES
  mode,           \* "swarm", or "leech" for start(once=True)
  running,        \* self._running
  stopReason,     \* self._stop_reason: "none", "seeding" or "error"
  main,           \* where the main thread is
  driver,         \* the driver's label
  pass,           \* which reconcile it is in: "initial" resumes, "update" not
  decision,       \* "activate", "resume" (activate and recheck) or "replace"
  followed,       \* state.last_seq and last_info_hash, _desired_snapshot
  misses,         \* dht_inactive_seconds, in poll intervals
  active,         \* self._active_info_hash
  lapse,          \* an exception left the record unreconciled, or no discovery
  recheckAfter,   \* self._recheck_after_metadata
  recheckStarted, \* self._recheck_started
  checkingSeen,   \* self._recheck_checking_observed
  monitor,        \* the monitor thread's label
  tracked,        \* its tracked_hash
  metaDone,       \* its metadata_logged
  seen,           \* the state it polled: "checking", "seeding" or "other"
  gone,           \* tracked was removed since the monitor's last statement
  handles,        \* the session's torrents
  resumable,      \* hashes with fast-resume data on disk at the start
  withMeta,       \* handles whose metadata is known
  paused,         \* handles that are paused
  queued,         \* handles whose check is requested and has not begun
  checking,       \* handles whose files are being checked
  rechecked,      \* handles whose files have been checked since they were added
  whole           \* handles all of whose pieces are on disk

mainVars    == <<mode, main>>
stopVars    == <<running, stopReason>>
driverVars  == <<driver, pass, decision, followed, misses, active, lapse>>
flagVars    == <<recheckAfter, recheckStarted, checkingSeen>>
monitorVars == <<monitor, tracked, metaDone, seen, gone>>
fileVars    == <<withMeta, queued, checking, rechecked, whole>>
sessionVars == <<handles, resumable, paused, fileVars>>
vars == <<mainVars, stopVars, driverVars, flagVars, monitorVars, sessionVars>>

HashOrNone == Hash \cup {NoHash}
Record == [seq : Nat, hash : HashOrNone]
NoRecord == [seq |-> 0, hash |-> NoHash]

MainLabels == {"bootstrap", "driving", "loop", "join", "exited"}
ApplyLabels == {"pause", "remove", "clear", "ensure", "track", "mark",
                "resetStarted", "resetSeen", "recheck", "settle"}
DriverLabels == {"off", "lookup", "sleep", "second", "wait", "done", "decide"}
                  \cup ApplyLabels
MonitorLabels == {"off", "poll", "metadata", "begin", "force", "started",
                  "status", "judge", "unpause", "reset", "finish", "done"}

FlagsOK ==
  /\ running \in BOOLEAN
  /\ recheckStarted \in BOOLEAN
  /\ checkingSeen \in BOOLEAN
  /\ lapse \in BOOLEAN
  /\ metaDone \in BOOLEAN
  /\ gone \in BOOLEAN

(* Where the threads are agrees with what they hold: the driver has not    *)
(* begun before the bootstrap wait is over, the empty lookups reach their  *)
(* limit only as discovery ends, and a reconcile that touches the session  *)
(* has a record to follow.                                                 *)
LabelsOK ==
  /\ main = "bootstrap" => driver = "off" /\ misses = 0
  /\ misses = MissLimit /\ MissLimit > 0 => driver = "done"
  /\ driver \in ApplyLabels => followed.hash # NoHash

(* Every attribute holds a value of its kind, and what the session knows   *)
(* of a torrent it knows of one of its handles.                            *)
TypeOK ==
  /\ FlagsOK
  /\ LabelsOK
  /\ mode \in Modes
  /\ stopReason \in {"none", "seeding", "error"}
  /\ main \in MainLabels
  /\ driver \in DriverLabels
  /\ pass \in {"initial", "update"}
  /\ decision \in {"activate", "resume", "replace"}
  /\ followed \in Record
  /\ misses \in 0 .. MissLimit
  /\ active \in HashOrNone
  /\ recheckAfter \in HashOrNone
  /\ monitor \in MonitorLabels
  /\ tracked \in HashOrNone
  /\ seen \in {"checking", "seeding", "other"}
  /\ resumable \subseteq Hash
  /\ handles \subseteq Hash
  /\ withMeta \subseteq handles
  /\ paused \subseteq handles
  /\ queued \subseteq handles
  /\ checking \subseteq handles
  /\ rechecked \subseteq handles
  /\ whole \subseteq handles

(* __init__ and start() up to the bootstrap wait.  The state file gives    *)
(* any record the service may have adopted earlier, or none.               *)
Init ==
  /\ mode \in Modes
  /\ running = TRUE /\ stopReason = "none"
  /\ main = "bootstrap"
  /\ driver = "off" /\ pass = "initial" /\ decision = "activate"
  /\ followed \in Signed \cup {NoRecord}
  /\ misses = 0
  /\ active = NoHash /\ lapse = FALSE
  /\ recheckAfter = NoHash /\ recheckStarted = FALSE /\ checkingSeen = FALSE
  /\ monitor = "off" /\ tracked = NoHash /\ metaDone = FALSE
  /\ seen = "other" /\ gone = FALSE
  /\ handles = {} /\ resumable \in SUBSET Hash
  /\ withMeta = {} /\ paused = {} /\ queued = {} /\ checking = {} /\ rechecked = {}
  /\ whole = {}

Alive == main # "exited"

-----------------------------------------------------------------------------
(* The main thread. *)

(* SIGTERM or SIGINT: the handler clears _running; in the bootstrap wait   *)
(* the shutdown event ends the wait and start() calls stop() at once.      *)
Signal ==
  /\ Alive /\ running
  /\ running' = FALSE
  /\ main' = IF main = "bootstrap" THEN "join" ELSE main
  /\ UNCHANGED <<mode, stopReason, driverVars, flagVars, monitorVars, sessionVars>>

(* The wait ends: _run_loop starts the monitor and reconciles with the     *)
(* record of the last run; _run_once begins with a lookup.                 *)
Bootstrapped ==
  /\ main = "bootstrap"
  /\ main' = "driving"
  /\ IF mode = "swarm"
       THEN driver' = "decide" /\ monitor' = "poll"
       ELSE driver' = "lookup" /\ UNCHANGED monitor
  /\ UNCHANGED <<mode, stopVars, pass, decision, followed, misses, active, lapse, flagVars,
                 tracked, metaDone, seen, gone, sessionVars>>

(* Mutant of LoopEnds: the wait goes on until there is a reason to stop. *)
LoopEndsWithReason ==
  /\ main = "loop"
  /\ main' = IF ~running /\ stopReason # "none" THEN "join" ELSE main
  /\ UNCHANGED <<mode, stopVars, driverVars, flagVars, monitorVars, sessionVars>>

(* _run_loop returns once _running is false; start() then calls stop(). *)
LoopEnds ==
  /\ main = "loop" /\ ~running
  /\ main' = "join"
  /\ UNCHANGED <<mode, stopVars, driverVars, flagVars, monitorVars, sessionVars>>

(* stop(): both joins time out after 5 s whatever the threads are doing,   *)
(* the session saves its resume data and is released, the process ends and *)
(* its daemon threads with it.                                             *)
Stop ==
  /\ main = "join"
  /\ main' = "exited"
  /\ running' = FALSE
  /\ UNCHANGED <<mode, stopReason, driverVars, flagVars, monitorVars, sessionVars>>

-----------------------------------------------------------------------------
(* The driver: discovery. *)

(* A reconcile call returns to its caller.  The first one of a swarm is    *)
(* followed by the start of the discovery thread and, when nothing is      *)
(* active, by the write of the phase idle: when that raises, start() stops.*)
Return ==
  \/ /\ mode = "swarm"
     /\ driver' = "sleep"
     /\ \/ pass = "update" /\ UNCHANGED main
        \/ pass = "initial" /\ main' = "loop"
        \/ pass = "initial" /\ active = NoHash /\ main' = "join"
  \/ /\ mode = "leech"
     /\ driver' = IF pass = "update" THEN "second" ELSE "wait"
     /\ UNCHANGED main

(* sys.exit(1) or an exception in the main thread: start()'s finally clause *)
(* calls stop().                                                            *)
MainAborts == driver' = "done" /\ main' = "join"

(* The except clause of the discovery thread writes the state file too, and *)
(* when that raises the thread is over.                                     *)
ThreadRecovers == driver' \in {"sleep", "done"} /\ UNCHANGED main

(* Mutant of Stale: no comparison with the stored sequence. *)
StaleNever(r) == FALSE

(* The test of discover_latest_snapshot and, again under the lock, of      *)
(* _set_desired_snapshot.                                                  *)
Stale(r) == r.seq < followed.seq

(* _set_desired_snapshot has nothing to do: same hash, no later sequence. *)
NoUpdate(r) == r.hash = followed.hash /\ r.seq <= followed.seq

(* A lookup gives a verified record and _set_desired_snapshot adopts it.   *)
(* Only the driver writes these attributes, so what the lookup read of     *)
(* them at its start still holds.                                          *)
Discover(r) ==
  /\ Alive /\ driver = "lookup"
  /\ ~Stale(r)
  /\ misses' = 0
  /\ IF NoUpdate(r)
       THEN /\ driver' = IF mode = "swarm" THEN "sleep" ELSE "second"
            /\ UNCHANGED <<followed, pass, lapse>>
       ELSE /\ followed' = r
            /\ pass' = "update"
            /\ driver' = "decide"
            /\ lapse' = FALSE
  /\ UNCHANGED <<mainVars, stopVars, decision, active, flagVars, monitorVars, sessionVars>>

(* The record is adopted in memory, then state.update or                   *)
(* snapshot_meta.update raises: it is not reconciled, and later lookups    *)
(* take it for known.                                                      *)
AdoptFails(r) ==
  /\ Alive /\ driver = "lookup"
  /\ ~Stale(r) /\ ~NoUpdate(r)
  /\ misses' = 0
  /\ followed' = r
  /\ lapse' = TRUE
  /\ IF mode = "leech" THEN MainAborts ELSE ThreadRecovers
  /\ UNCHANGED <<mode, stopVars, pass, decision, active, flagVars, monitorVars, sessionVars>>

(* Mutant of DiscoverNothing: one more empty cycle than download_timeout. *)
DiscoverNothingLate ==
  /\ Alive /\ driver = "lookup"
  /\ UNCHANGED mode
  /\ IF mode = "leech"
       THEN MainAborts /\ UNCHANGED <<misses, running>>
       ELSE /\ UNCHANGED main
            /\ misses' = IF MissLimit = 0 THEN 0 ELSE misses + 1
            /\ IF MissLimit > 0 /\ misses' > MissLimit
                 THEN running' = FALSE /\ driver' = "done"
                 ELSE driver' = "sleep" /\ UNCHANGED running
  /\ UNCHANGED <<stopReason, pass, decision, followed, active, lapse, flagVars, monitorVars,
                 sessionVars>>

(* discover_latest_snapshot returns None after its three attempts. *)
DiscoverNothing ==
  /\ Alive /\ driver = "lookup"
  /\ UNCHANGED mode
  /\ IF mode = "leech"
       THEN MainAborts /\ UNCHANGED <<misses, running>>
       ELSE /\ UNCHANGED main
            /\ misses' = IF MissLimit = 0 THEN 0 ELSE misses + 1
            /\ IF MissLimit > 0 /\ misses' >= MissLimit
                 THEN running' = FALSE /\ driver' = "done"
                 ELSE driver' = "sleep" /\ UNCHANGED running
  /\ UNCHANGED <<stopReason, pass, decision, followed, active, lapse, flagVars, monitorVars,
                 sessionVars>>

(* Mutant of DiscoverFails: the exception ends the discovery thread. *)
DiscoverFailsForGood ==
  /\ Alive /\ driver = "lookup"
  /\ UNCHANGED mode
  /\ IF mode = "leech" THEN MainAborts ELSE driver' = "done" /\ UNCHANGED main
  /\ UNCHANGED <<stopVars, pass, decision, followed, misses, active, lapse, flagVars,
                 monitorVars, sessionVars>>

(* The lookup, or the write of the phase before it, raises: a swarm logs it *)
(* and waits for the next cycle.                                            *)
DiscoverFails ==
  /\ Alive /\ driver = "lookup"
  /\ UNCHANGED mode
  /\ IF mode = "leech" THEN MainAborts ELSE ThreadRecovers
  /\ lapse' = (lapse \/ (mode = "swarm" /\ driver' = "done"))
  /\ UNCHANGED <<stopVars, pass, decision, followed, misses, active, flagVars,
                 monitorVars, sessionVars>>

(* The sleep between two cycles and the test of the loop. *)
NextCycle ==
  /\ Alive /\ driver = "sleep"
  /\ driver' = IF running THEN "lookup" ELSE "done"
  /\ UNCHANGED <<mainVars, stopVars, pass, decision, followed, misses, active, lapse, flagVars,
                 monitorVars, sessionVars>>

(* _run_once after its lookup: start the monitor, reconcile once more. *)
LeechReconciles ==
  /\ Alive /\ driver = "second"
  /\ monitor' = "poll"
  /\ pass' = "initial" /\ driver' = "decide"
  /\ UNCHANGED <<mainVars, stopVars, decision, followed, misses, active, lapse, flagVars,
                 tracked, metaDone, seen, gone, sessionVars>>

(* _wait_for_terminal_download_status returns and _run_once exits. *)
LeechEnds ==
  /\ driver = "wait" /\ main = "driving"
  /\ stopReason # "none" \/ ~running
  /\ driver' = "done" /\ main' = "join"
  /\ UNCHANGED <<mode, stopVars, pass, decision, followed, misses, active, lapse, flagVars,
                 monitorVars, sessionVars>>

-----------------------------------------------------------------------------
(* The driver: reconciliation. *)

(* Mutant of Decide: whatever is active is left alone. *)
DecideKeepsActive ==
  /\ Alive /\ driver = "decide"
  /\ IF followed.hash = NoHash \/ active # NoHash
       THEN Return /\ UNCHANGED decision
       ELSE /\ driver' = "ensure" /\ UNCHANGED main
            /\ decision' = IF pass = "initial" THEN "resume" ELSE "activate"
  /\ UNCHANGED <<mode, stopVars, pass, followed, misses, active, lapse, flagVars, monitorVars,
                 sessionVars>>

(* Mutant of Decide: a later sequence replaces the torrent it names too. *)
DecideReplacesSame ==
  /\ Alive /\ driver = "decide"
  /\ IF followed.hash = NoHash
       THEN Return /\ UNCHANGED decision
       ELSE /\ UNCHANGED main
            /\ IF active = NoHash
                 THEN /\ driver' = "ensure"
                      /\ decision' = IF pass = "initial" THEN "resume" ELSE "activate"
                 ELSE driver' = "pause" /\ decision' = "replace"
  /\ UNCHANGED <<mode, stopVars, pass, followed, misses, active, lapse, flagVars, monitorVars,
                 sessionVars>>

(* reconcile_snapshot, and the early returns of _apply_reconcile_decision. *)
Decide ==
  /\ Alive /\ driver = "decide"
  /\ IF followed.hash = NoHash \/ active = followed.hash
       THEN Return /\ UNCHANGED decision
       ELSE /\ UNCHANGED main
            /\ IF active = NoHash
                 THEN /\ driver' = "ensure"
                      /\ decision' = IF pass = "initial" THEN "resume" ELSE "activate"
                 ELSE driver' = "pause" /\ decision' = "replace"
  /\ UNCHANGED <<mode, stopVars, pass, followed, misses, active, lapse, flagVars, monitorVars,
                 sessionVars>>

(* session.pause_torrent(active), then the 2 s sleep. *)
PauseOld ==
  /\ Alive /\ driver = "pause"
  /\ driver' = "remove"
  /\ paused' = paused \cup ({active} \cap handles)
  /\ UNCHANGED <<mainVars, stopVars, pass, decision, followed, misses, active, lapse, flagVars,
                 monitorVars, handles, resumable, fileVars>>

(* Mutant of RemoveOld: the old torrent is only paused. *)
RemoveOldNever ==
  /\ Alive /\ driver = "remove"
  /\ driver' = "clear"
  /\ UNCHANGED <<mainVars, stopVars, pass, decision, followed, misses, active, lapse, flagVars,
                 monitorVars, sessionVars>>

(* session.remove_torrent(active): a handle the monitor has just taken from *)
(* the session is no longer valid.                                          *)
RemoveOld ==
  /\ Alive /\ driver = "remove"
  /\ driver' = "clear"
  /\ handles'   = handles \ {active}
  /\ withMeta'  = withMeta \ {active}
  /\ paused'    = paused \ {active}
  /\ queued'    = queued \ {active}
  /\ checking'  = checking \ {active}
  /\ rechecked' = rechecked \ {active}
  /\ whole'     = whole \ {active}
  /\ gone' = (gone \/ tracked = active)
  /\ UNCHANGED <<mainVars, stopVars, pass, decision, followed, misses, active, lapse, flagVars,
                 monitor, tracked, metaDone, seen, resumable>>

ClearActive ==
  /\ Alive /\ driver = "clear"
  /\ driver' = "ensure"
  /\ active' = NoHash
  /\ UNCHANGED <<mainVars, stopVars, pass, decision, followed, misses, lapse, flagVars,
                 monitorVars, sessionVars>>

(* session.ensure_torrent: fast-resume data, if it is on disk, brings the  *)
(* metadata and the pieces it says are there.  A replacement is paused and *)
(* its seed peers wait.                                                    *)
Ensure ==
  /\ Alive /\ driver = "ensure"
  /\ driver' = "track"
  /\ LET target == {followed.hash} IN
       /\ handles'  = handles \cup target
       /\ withMeta' = withMeta \cup (target \cap resumable)
       /\ \E complete \in SUBSET (target \cap resumable) : whole' = whole \cup complete
       /\ IF decision = "replace"
            THEN paused' = paused \cup target
            ELSE UNCHANGED paused
  /\ UNCHANGED <<mainVars, stopVars, pass, decision, followed, misses, active, lapse, flagVars,
                 monitorVars, resumable, queued, checking, rechecked>>

(* Statements of the try block that may raise: add_torrent and the write of *)
(* the phase before it; force_recheck; the writes of phase and metadata at  *)
(* the end.                                                                 *)
MayRaise == driver \in {"ensure", "recheck", "settle"}

(* Mutant of ReconcileFails: the service goes on. *)
ReconcileFailsQuietly ==
  /\ Alive /\ MayRaise
  /\ stopReason' = "error"
  /\ Return
  /\ UNCHANGED <<mode, running, pass, decision, followed, misses, active, lapse, flagVars,
                 monitorVars, sessionVars>>

(* The except clause of _apply_reconcile_decision stops the service. *)
ReconcileFails ==
  /\ Alive /\ MayRaise
  /\ stopReason' = "error" /\ running' = FALSE
  /\ Return
  /\ UNCHANGED <<mode, pass, decision, followed, misses, active, lapse, flagVars,
                 monitorVars, sessionVars>>

(* The write of the phase in that except clause raises: the exception goes *)
(* to start(), or to the discovery thread, and the service is not stopped. *)
HandlerFails ==
  /\ Alive /\ MayRaise
  /\ lapse' = TRUE
  /\ IF mode = "leech" \/ pass = "initial" THEN MainAborts ELSE ThreadRecovers
  /\ UNCHANGED <<mode, stopVars, pass, decision, followed, misses, active, flagVars,
                 monitorVars, sessionVars>>

(* self._active_info_hash = target: from here on the monitor polls it. *)
Track ==
  /\ Alive /\ driver = "track"
  /\ active' = followed.hash
  /\ driver' = CASE decision = "replace" -> "mark"
                 [] decision = "resume" -> "recheck"
                 [] OTHER -> "settle"
  /\ UNCHANGED <<mainVars, stopVars, pass, decision, followed, misses, lapse, flagVars,
                 monitorVars, sessionVars>>

(* The three assignments that arm the recheck of a replacement. *)
Mark ==
  /\ Alive /\ driver = "mark"
  /\ driver' = "resetStarted"
  /\ recheckAfter' = followed.hash
  /\ UNCHANGED <<mainVars, stopVars, pass, decision, followed, misses, active, lapse,
                 recheckStarted, checkingSeen, monitorVars, sessionVars>>

ResetStarted ==
  /\ Alive /\ driver = "resetStarted"
  /\ driver' = "resetSeen"
  /\ recheckStarted' = FALSE
  /\ UNCHANGED <<mainVars, stopVars, pass, decision, followed, misses, active, lapse,
                 recheckAfter, checkingSeen, monitorVars, sessionVars>>

ResetSeen ==
  /\ Alive /\ driver = "resetSeen"
  /\ driver' = "settle"
  /\ checkingSeen' = FALSE
  /\ UNCHANGED <<mainVars, stopVars, pass, decision, followed, misses, active, lapse,
                 recheckAfter, recheckStarted, monitorVars, sessionVars>>

(* session.force_recheck(h): libtorrent ignores it without metadata; the   *)
(* check begins later, and until then the state is not "checking_files".   *)
ForceRecheck(h) ==
  /\ queued'    = queued \cup ({h} \cap withMeta)
  /\ checking'  = checking \ ({h} \cap withMeta)
  /\ rechecked' = rechecked \ ({h} \cap withMeta)
  /\ whole'     = whole \ ({h} \cap withMeta)

RecheckResumed ==
  /\ Alive /\ driver = "recheck"
  /\ ForceRecheck(followed.hash)
  /\ driver' = "settle"
  /\ UNCHANGED <<mainVars, stopVars, pass, decision, followed, misses, active, lapse, flagVars,
                 monitorVars, handles, resumable, paused, withMeta>>

(* The writes that end an activation: the phase of a replacement and, when *)
(* its metadata is known already, what the status files show of it.        *)
Settle ==
  /\ Alive /\ driver = "settle"
  /\ Return
  /\ UNCHANGED <<mode, stopVars, pass, decision, followed, misses, active, lapse, flagVars,
                 monitorVars, sessionVars>>

-----------------------------------------------------------------------------
(* The monitor. *)

MonitorAt(label) == Alive /\ monitor = label

(* The top of the loop: another active hash starts over, none is forgotten. *)
Poll ==
  /\ MonitorAt("poll")
  /\ gone' = FALSE
  /\ IF ~running
       THEN monitor' = "done" /\ UNCHANGED <<tracked, metaDone>>
       ELSE /\ tracked' = active
            /\ metaDone' = (metaDone /\ tracked = active)
            /\ monitor' = IF active = NoHash THEN "poll"
                          ELSE IF metaDone' THEN "status" ELSE "metadata"
  /\ UNCHANGED <<mainVars, stopVars, driverVars, flagVars, seen, sessionVars>>

(* torrent_metadata: None for an unknown torrent or unknown metadata. *)
ReadMetadata ==
  /\ MonitorAt("metadata")
  /\ gone' = FALSE
  /\ IF tracked \in withMeta
       THEN metaDone' = TRUE /\ monitor' = "begin"
       ELSE monitor' = "status" /\ UNCHANGED metaDone
  /\ UNCHANGED <<mainVars, stopVars, driverVars, flagVars, tracked, seen, sessionVars>>

(* _begin_recheck_after_metadata in three steps: its test, the call, the flag. *)
BeginRecheck ==
  /\ MonitorAt("begin")
  /\ gone' = FALSE
  /\ monitor' = IF recheckAfter = tracked THEN "force" ELSE "status"
  /\ UNCHANGED <<mainVars, stopVars, driverVars, flagVars, tracked, metaDone, seen,
                 sessionVars>>

RecheckReplacement ==
  /\ MonitorAt("force")
  /\ gone' = FALSE
  /\ monitor' = "started"
  /\ ForceRecheck(tracked)
  /\ UNCHANGED <<mainVars, stopVars, driverVars, flagVars, tracked, metaDone, seen,
                 handles, resumable, paused, withMeta>>

RecheckStarted ==
  /\ MonitorAt("started")
  /\ gone' = FALSE
  /\ monitor' = "status"
  /\ recheckStarted' = TRUE
  /\ UNCHANGED <<mainVars, stopVars, driverVars, recheckAfter, checkingSeen, tracked,
                 metaDone, seen, sessionVars>>

(* Mutant of Seeding: anything that is not being checked seeds. *)
SeedingUnlessChecking(h) == h \in withMeta \ checking

(* status.is_seeding *)
Seeding(h) == h \in whole \ (queued \cup checking)

(* torrent_status: None for an unknown torrent ends this poll. *)
ReadStatus ==
  /\ MonitorAt("status")
  /\ gone' = FALSE
  /\ monitor' = IF tracked \in handles THEN "judge" ELSE "poll"
  /\ seen' = IF tracked \in checking THEN "checking"
             ELSE IF Seeding(tracked) THEN "seeding" ELSE "other"
  /\ UNCHANGED <<mainVars, stopVars, driverVars, flagVars, tracked, metaDone, sessionVars>>

(* _resume_after_recheck: its tests, the call, the three assignments. *)
Judge ==
  /\ MonitorAt("judge")
  /\ gone' = FALSE
  /\ LET mine == recheckAfter = tracked /\ recheckStarted IN
       /\ checkingSeen' = (checkingSeen \/ (mine /\ seen = "checking"))
       /\ monitor' = IF mine /\ seen # "checking" /\ checkingSeen
                       THEN "unpause" ELSE "finish"
  /\ UNCHANGED <<mainVars, stopVars, driverVars, recheckAfter, recheckStarted, tracked,
                 metaDone, seen, sessionVars>>

Unpause ==
  /\ MonitorAt("unpause")
  /\ gone' = FALSE
  /\ monitor' = "reset"
  /\ paused' = paused \ {tracked}
  /\ UNCHANGED <<mainVars, stopVars, driverVars, flagVars, tracked, metaDone, seen,
                 handles, resumable, fileVars>>

ResetFlags ==
  /\ MonitorAt("reset")
  /\ gone' = FALSE
  /\ monitor' = "finish"
  /\ recheckAfter' = NoHash /\ recheckStarted' = FALSE /\ checkingSeen' = FALSE
  /\ UNCHANGED <<mainVars, stopVars, driverVars, tracked, metaDone, seen, sessionVars>>

(* The end of a poll: a leech that seeds is done. *)
FinishPoll ==
  /\ MonitorAt("finish")
  /\ gone' = FALSE
  /\ IF mode = "leech" /\ seen = "seeding"
       THEN stopReason' = "seeding" /\ running' = FALSE /\ monitor' = "done"
       ELSE monitor' = "poll" /\ UNCHANGED stopVars
  /\ UNCHANGED <<mainVars, driverVars, flagVars, tracked, metaDone, seen, sessionVars>>

(* A statement of the monitor raises: a call on a handle that was removed  *)
(* after the monitor took it, or a write of the state files (the metadata  *)
(* at "begin", the phase at "force" and "finish").                         *)
MonitorRaises ==
  /\ Alive
  /\ \/ gone /\ monitor \in {"metadata", "force", "status", "unpause"}
     \/ monitor \in {"begin", "force", "finish"}
  /\ gone' = FALSE
  /\ monitor' = "done"

(* The except clause ends the service. *)
MonitorFails ==
  /\ MonitorRaises
  /\ stopReason' = "error" /\ running' = FALSE
  /\ UNCHANGED <<mainVars, driverVars, flagVars, tracked, metaDone, seen, sessionVars>>

(* Its own write of the phase raises: the thread ends, the service goes on. *)
MonitorDies ==
  /\ MonitorRaises
  /\ UNCHANGED <<mainVars, stopVars, driverVars, flagVars, tracked, metaDone, seen,
                 sessionVars>>

-----------------------------------------------------------------------------
(* The session, as far as the calls and polls above can tell. *)

(* Peers or the resume data give the info dictionary; libtorrent may check *)
(* the files it finds in place before it asks for pieces.                  *)
MetadataArrives(h) ==
  /\ Alive /\ h \in handles \ withMeta
  /\ withMeta' = withMeta \cup {h}
  /\ queued' \in {queued, queued \cup {h}}
  /\ UNCHANGED <<mainVars, stopVars, driverVars, flagVars, monitorVars, handles,
                 resumable, paused, checking, rechecked, whole>>

CheckBegins(h) ==
  /\ Alive /\ h \in queued
  /\ queued' = queued \ {h}
  /\ checking' = checking \cup {h}
  /\ UNCHANGED <<mainVars, stopVars, driverVars, flagVars, monitorVars, handles,
                 resumable, paused, withMeta, rechecked, whole>>

CheckCompletes(h) ==
  /\ Alive /\ h \in checking
  /\ checking' = checking \ {h}
  /\ rechecked' = rechecked \cup {h}
  /\ whole' \in {whole, whole \cup {h}}
  /\ UNCHANGED <<mainVars, stopVars, driverVars, flagVars, monitorVars, handles,
                 resumable, paused, withMeta, queued>>

(* The last missing piece arrives and verifies. *)
PiecesArrive(h) ==
  /\ Alive /\ h \in withMeta \ (paused \cup queued \cup checking \cup whole)
  /\ whole' = whole \cup {h}
  /\ UNCHANGED <<mainVars, stopVars, driverVars, flagVars, monitorVars, handles,
                 resumable, paused, withMeta, queued, checking, rechecked>>

(* Every torrent is added auto-managed: the queue may start a paused one   *)
(* at any time, and owes it to none.                                       *)
QueueStartsTorrent(h) ==
  /\ Alive /\ h \in paused
  /\ paused' = paused \ {h}
  /\ UNCHANGED <<mainVars, stopVars, driverVars, flagVars, monitorVars, handles,
                 resumable, fileVars>>

-----------------------------------------------------------------------------
MainNext == Bootstrapped \/ LoopEnds \/ Stop

DriverNext ==
  \/ \E r \in Signed : Discover(r) \/ AdoptFails(r)
  \/ DiscoverNothing \/ DiscoverFails \/ NextCycle \/ LeechReconciles \/ LeechEnds
  \/ Decide \/ PauseOld \/ RemoveOld \/ ClearActive \/ Ensure \/ Track
  \/ Mark \/ ResetStarted \/ ResetSeen \/ RecheckResumed \/ Settle
  \/ ReconcileFails \/ HandlerFails

MonitorNext ==
  \/ Poll \/ ReadMetadata \/ BeginRecheck \/ RecheckReplacement \/ RecheckStarted
  \/ ReadStatus \/ Judge \/ Unpause \/ ResetFlags \/ FinishPoll \/ MonitorFails
  \/ MonitorDies

SessionNext ==
  \E h \in Hash : \/ MetadataArrives(h) \/ CheckBegins(h) \/ CheckCompletes(h)
                  \/ PiecesArrive(h) \/ QueueStartsTorrent(h)

(* The process has ended: nothing happens any more. *)
Terminated == ~Alive /\ UNCHANGED vars

Next == Signal \/ MainNext \/ DriverNext \/ MonitorNext \/ SessionNext \/ Terminated

Spec == Init /\ [][Next]_vars

(* The threads run and a requested check is made.  Signals, peers, the     *)
(* queue and the DHT owe nothing.                                          *)
Fairness ==
  /\ WF_vars(MainNext) /\ WF_vars(DriverNext) /\ WF_vars(MonitorNext)
  /\ \A h \in Hash : WF_vars(CheckBegins(h)) /\ WF_vars(CheckCompletes(h))

FairSpec == Spec /\ Fairness

-----------------------------------------------------------------------------
(* Safety. *)

(* The session never holds two torrents: every snapshot is saved under the *)
(* same name in data_dir, so two handles would write one file.             *)
OneTransfer == \A g, h \in handles : g = h

(* Whenever the driver is back at rest in a running service, the torrent   *)
(* it activated is the one of the record it follows, and the session has   *)
(* it and no other, however many records came in whatever order: unless a  *)
(* failing write kept the last adopted record from being reconciled.       *)
AtRest == driver \in {"sleep", "wait"} \/ (driver = "lookup" /\ mode = "swarm")
Reconciled ==
  AtRest /\ running /\ ~lapse /\ followed.hash # NoHash
    => active = followed.hash /\ handles = {active}

(* The monitor resumes a replacement only after its files were checked     *)
(* against it (docs/mirror-swarm-mode.md:165-167).                         *)
ResumesAfterCheck ==
  [][monitor = "unpause" /\ monitor' = "reset" /\ tracked \in handles
       => tracked \in rechecked]_vars

(* A leech that adopts a new record reports success only with the snapshot *)
(* of that record complete on disk: main trusts what the monitor polled.   *)
LeechDelivers ==
  stopReason = "seeding" /\ decision = "activate" => followed.hash \in whole

(* A replacement never ends the service: in swarm mode the monitor, when   *)
(* its torrent was removed under it, stops only once something else        *)
(* stopped it (docs/public-beta-runbook.md:44-46).  This does not hold,    *)
(* see README, and no run checks it.                                       *)
SurvivesReplacement ==
  [][mode = "swarm" /\ gone /\ monitor' = "done" => ~running]_monitor

(* Every step is a step of SnapshotFollower or changes nothing it sees:    *)
(* the transfer is the session's torrent.                                  *)
Transfer == IF handles = {} THEN NoHash ELSE CHOOSE h \in handles : TRUE
Follower == INSTANCE SnapshotFollower WITH record <- followed, transfer <- Transfer
FollowerSpec == Follower!Spec

-----------------------------------------------------------------------------
(* Liveness. *)

(* Once _running is false, by a signal, an error, a finished leech or a    *)
(* silent DHT, the process ends, whatever its threads are waiting for.     *)
ShutdownCompletes == ~running ~> main = "exited"

(* When lookups keep completing, now and then with the newest record, a    *)
(* swarm mirror ends up on the newest snapshot for good, unless it stops   *)
(* or a failing write lets the record lapse.                               *)
Newest == CHOOSE r \in Signed : \A s \in Signed : s.seq <= r.seq
DiscoveringSpec == FairSpec /\ SF_vars(Discover(Newest))
FollowsNewest == <>[](running /\ mode = "swarm" /\ ~lapse => active = Newest.hash)
=============================================================================
