---------------------------- MODULE SeederRecovery ----------------------------
(***************************************************************************)
(* The watchdog that restarts a sick seeder                                *)
(* (scripts/check-seeder-recovery.sh, run by a systemd timer), with what   *)
(* it can tell of the seeder: whether its service is active and the        *)
(* statistics it writes.  The watchdog is a process that begins anew every *)
(* time; all it remembers is in three files, and it may be killed between  *)
(* any two of its writes.                                                  *)
(*                                                                         *)
(* Time is counted in the timer's periods.  The three timestamps are kept  *)
(* as ages, which stop where no test of the script tells them apart any    *)
(* more.  A check is shorter than a period.                                *)
(***************************************************************************)
EXTENDS Naturals

CONSTANTS
  UnhealthySeconds,   \* PRODUCER_RECOVERY_UNHEALTHY_SECONDS, in periods
  StaleStatsSeconds,  \* PRODUCER_RECOVERY_STALE_STATS_SECONDS
  CooldownSeconds,    \* PRODUCER_RECOVERY_RESTART_COOLDOWN_SECONDS
  None,               \* no timestamp
  MaxKills            \* how often the watchdog is killed (a bound)

ASSUME PeriodsAssumption ==
  {UnhealthySeconds, StaleStatsSeconds, CooldownSeconds} \subseteq Nat \ {0}
ASSUME NoneAssumption == None \notin Nat
ASSUME KillsAssumption == MaxKills \in Nat

VARIABLES
  active,           \* whether nano-seed.service is active
  diskFree,         \* whether the disk has PRODUCER_RECOVERY_MIN_FREE_BYTES
  stats,            \* what seeder-stats.json says; "none": missing, unreadable
  statsAge,         \* its age
  unhealthySince,   \* unhealthy-since: its age, or None
  lastRestart,      \* last-restart: its age, or None
  pushPending,      \* whether status-push-pending exists
  at,               \* where the check is
  kills,
  restarted,        \* how long ago the watchdog restarted the seeder, or None
  seenHealthy,      \* how long ago a check found the seeder healthy
  owed              \* whether a restart has not been followed by a push

seederVars  == <<active, diskFree, stats, statsAge>>
fileVars    == <<unhealthySince, lastRestart, pushPending>>
historyVars == <<restarted, seenHealthy, owed>>
vars == <<seederVars, fileVars, at, kills, historyVars>>

Kinds == {"none", "ready", "checking", "other"}
Labels == {"idle", "stamp", "mark", "clear", "restart", "push", "unmark"}

(* Every attribute holds a value of its kind, and a restart under way was  *)
(* recorded before.                                                        *)
TypeOK ==
  /\ active \in BOOLEAN /\ diskFree \in BOOLEAN
  /\ stats \in Kinds /\ statsAge \in 0 .. StaleStatsSeconds + 1
  /\ unhealthySince \in {None} \cup 0 .. UnhealthySeconds
  /\ lastRestart \in {None} \cup 0 .. CooldownSeconds
  /\ pushPending \in BOOLEAN
  /\ at \in Labels
  /\ kills \in 0 .. MaxKills
  /\ restarted \in {None} \cup 0 .. CooldownSeconds
  /\ seenHealthy \in 0 .. UnhealthySeconds
  /\ owed \in BOOLEAN
  /\ at = "restart" => lastRestart = 0 /\ unhealthySince = None /\ pushPending

Init ==
  /\ active \in BOOLEAN /\ diskFree \in BOOLEAN
  /\ stats \in Kinds /\ statsAge \in 0 .. StaleStatsSeconds + 1
  /\ unhealthySince = None /\ lastRestart = None /\ pushPending = FALSE
  /\ at = "idle" /\ kills = 0
  /\ restarted = None /\ seenHealthy = 0 /\ owed = FALSE

-----------------------------------------------------------------------------
(* The host. *)

Older(age, cap) == IF age = None \/ age = cap THEN age ELSE age + 1

(* A period passes. *)
Tick ==
  /\ at = "idle"
  /\ statsAge' = Older(statsAge, StaleStatsSeconds + 1)
  /\ unhealthySince' = Older(unhealthySince, UnhealthySeconds)
  /\ lastRestart' = Older(lastRestart, CooldownSeconds)
  /\ restarted' = Older(restarted, CooldownSeconds)
  /\ seenHealthy' = Older(seenHealthy, UnhealthySeconds)
  /\ UNCHANGED <<active, diskFree, stats, pushPending, at, kills, owed>>

(* The seeder replaces its statistics, which is atomic, or stops doing so. *)
Report(kind) ==
  /\ active
  /\ stats' = kind /\ statsAge' = 0
  /\ UNCHANGED <<active, diskFree, fileVars, at, kills, historyVars>>

(* It ends, and systemd or the pipeline starts it again.  The statistics   *)
(* of the process that ended stay.                                         *)
SeederEnds ==
  /\ active /\ active' = FALSE
  /\ UNCHANGED <<diskFree, stats, statsAge, fileVars, at, kills, historyVars>>

SeederStarts ==
  /\ ~active /\ active' = TRUE
  /\ UNCHANGED <<diskFree, stats, statsAge, fileVars, at, kills, historyVars>>

Disk ==
  /\ diskFree' = ~diskFree
  /\ UNCHANGED <<active, stats, statsAge, fileVars, at, kills, historyVars>>

-----------------------------------------------------------------------------
(* A check. *)

(* Without free disk, or of a service that is not active, a check ends at  *)
(* once and leaves everything as it is.                                    *)
Checks == at = "idle" /\ diskFree /\ active

Fresh == statsAge <= StaleStatsSeconds

(* Mutant of CheckReady: the marker is removed before the push. *)
CheckReadyForgets ==
  /\ Checks /\ stats = "ready" /\ Fresh
  /\ unhealthySince' = None /\ seenHealthy' = 0
  /\ at' = IF pushPending THEN "push" ELSE "idle"
  /\ pushPending' = FALSE
  /\ UNCHANGED <<seederVars, lastRestart, kills, restarted, owed>>

(* Mutant of CheckReady: a push only when this check ends an unhealthy period. *)
CheckReadyAfterSickness ==
  /\ Checks /\ stats = "ready" /\ Fresh
  /\ unhealthySince' = None /\ seenHealthy' = 0
  /\ at' = IF pushPending /\ unhealthySince # None THEN "push" ELSE "idle"
  /\ UNCHANGED <<seederVars, lastRestart, pushPending, kills, restarted, owed>>

(* seeder_ready, and the statistics are fresh: a pending push is made. *)
CheckReady ==
  /\ Checks /\ stats = "ready" /\ Fresh
  /\ unhealthySince' = None /\ seenHealthy' = 0
  /\ at' = IF pushPending THEN "push" ELSE "idle"
  /\ UNCHANGED <<seederVars, lastRestart, pushPending, kills, restarted, owed>>

(* systemctl start waits for the status push, and reports its failure. *)
PushSucceeds ==
  /\ at = "push" /\ at' = "unmark"
  /\ owed' = FALSE
  /\ UNCHANGED <<seederVars, fileVars, kills, restarted, seenHealthy>>

PushFails ==
  /\ at = "push" /\ at' = "idle"
  /\ UNCHANGED <<seederVars, fileVars, kills, historyVars>>

Unmark ==
  /\ at = "unmark" /\ at' = "idle"
  /\ pushPending' = FALSE
  /\ UNCHANGED <<seederVars, unhealthySince, lastRestart, kills, historyVars>>

(* Mutant of CheckFiles: a file check leaves the timestamp. *)
CheckFilesWaits ==
  /\ Checks /\ stats = "checking" /\ Fresh
  /\ seenHealthy' = 0
  /\ UNCHANGED <<seederVars, fileVars, at, kills, restarted, owed>>

(* checking_files, and the statistics are fresh. *)
CheckFiles ==
  /\ Checks /\ stats = "checking" /\ Fresh
  /\ unhealthySince' = None /\ seenHealthy' = 0
  /\ UNCHANGED <<seederVars, lastRestart, pushPending, at, kills, restarted, owed>>

Healthy == stats \in {"ready", "checking"} /\ Fresh
Sick == Checks /\ ~Healthy

(* recover_after_persistent_failure: the first check that finds the seeder *)
(* sick starts the wait; until it is over, and while the cooldown lasts,   *)
(* a check changes nothing.                                                *)
BecomesSick ==
  /\ Sick /\ unhealthySince = None
  /\ unhealthySince' = 0
  /\ UNCHANGED <<seederVars, lastRestart, pushPending, at, kills, historyVars>>

Persistent == unhealthySince # None /\ unhealthySince >= UnhealthySeconds

Cooling == lastRestart # None /\ lastRestart < CooldownSeconds

(* Mutant of Recover: a restart that is refused begins the cooldown anew.  *)
RecoverRenews ==
  /\ Sick /\ Persistent
  /\ IF Cooling THEN lastRestart' = 0 /\ UNCHANGED at
                ELSE at' = "stamp" /\ UNCHANGED lastRestart
  /\ UNCHANGED <<seederVars, unhealthySince, pushPending, kills, historyVars>>

Recover ==
  /\ Sick /\ Persistent /\ ~Cooling
  /\ at' = "stamp"
  /\ UNCHANGED <<seederVars, fileVars, kills, historyVars>>

(* The restart is recorded, then the push it will need, *)
Stamp ==
  /\ at = "stamp" /\ at' = "mark"
  /\ lastRestart' = 0
  /\ UNCHANGED <<seederVars, unhealthySince, pushPending, kills, historyVars>>

Mark ==
  /\ at = "mark" /\ at' = "clear"
  /\ pushPending' = TRUE
  /\ UNCHANGED <<seederVars, unhealthySince, lastRestart, kills, historyVars>>

(* Mutant of Clear: the state directory is emptied. *)
ClearAll ==
  /\ at = "clear" /\ at' = "restart"
  /\ unhealthySince' = None /\ lastRestart' = None
  /\ UNCHANGED <<seederVars, pushPending, kills, historyVars>>

(* the wait begins anew, *)
Clear ==
  /\ at = "clear" /\ at' = "restart"
  /\ unhealthySince' = None
  /\ UNCHANGED <<seederVars, lastRestart, pushPending, kills, historyVars>>

(* and the service is restarted, or systemctl fails. *)
Restart ==
  /\ at = "restart" /\ at' = "idle"
  /\ active' = TRUE
  /\ restarted' = 0 /\ owed' = TRUE
  /\ UNCHANGED <<diskFree, stats, statsAge, fileVars, kills, seenHealthy>>

RestartFails ==
  /\ at = "restart" /\ at' = "idle"
  /\ UNCHANGED <<seederVars, fileVars, kills, historyVars>>

(* The host goes down, or the watchdog is stopped, in the middle of a check. *)
Killed ==
  /\ at # "idle" /\ kills < MaxKills
  /\ at' = "idle" /\ kills' = kills + 1
  /\ UNCHANGED <<seederVars, fileVars, historyVars>>

-----------------------------------------------------------------------------
Check == CheckReady \/ CheckFiles \/ BecomesSick \/ Recover
Step  == Stamp \/ Mark \/ Clear \/ Unmark
SeederNext == (\E kind \in Kinds \ {"none"} : Report(kind)) \/ SeederEnds \/ SeederStarts

Next ==
  \/ Tick \/ Disk \/ SeederNext
  \/ Check \/ Step \/ PushSucceeds \/ PushFails \/ Restart \/ RestartFails \/ Killed

Spec == Init /\ [][Next]_vars

(* Time passes and the timer runs the check; a restart and a push that are *)
(* tried again and again succeed in the end.                               *)
Fairness ==
  /\ WF_vars(Tick) /\ WF_vars(Check) /\ WF_vars(Step)
  /\ SF_vars(Restart) /\ SF_vars(PushSucceeds)

FairSpec == Spec /\ Fairness

-----------------------------------------------------------------------------
(* Two restarts are never closer than the cooldown, whatever failed or was *)
(* killed in between ("Minimum interval between automatic seeder recovery  *)
(* restarts", docs/configuration.md:121).                                  *)
RestartSpacing == [][Restart => restarted = None \/ restarted >= CooldownSeconds]_vars

(* A seeder that a check found healthy, also one that was checking its     *)
(* files, is not restarted before it was sick for the whole period, over   *)
(* all the checks that looked at it (docs/producer-guide.md:255-259).      *)
OnlyPersistentFailure == [][Restart => seenHealthy >= UnhealthySeconds]_vars

(* The push that a restart needs is never forgotten: until one succeeds    *)
(* the marker is there, whatever was killed or failed.                     *)
OwedIsPending == owed => pushPending

(* A seeder that stays sick is restarted again and again. *)
SickIsRestarted == <>[](diskFree /\ active /\ ~Healthy) => []<>(restarted = 0)

(* The push of a restart is made once the seeder stays ready. *)
OwedIsPushed ==
  <>[](diskFree /\ active /\ stats = "ready" /\ Fresh) => (owed ~> ~owed)
=============================================================================
