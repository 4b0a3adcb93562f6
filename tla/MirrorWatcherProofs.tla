------------------------- MODULE MirrorWatcherProofs -------------------------
(***************************************************************************)
(* Proofs about MirrorWatcher for any set of hashes, any set of signed     *)
(* records and both modes: type correctness, the inductive invariant of    *)
(* the replacement, that the watcher implements SnapshotFollower, and that *)
(* a leech announces only the archive it was asked for.                    *)
(***************************************************************************)
EXTENDS MirrorWatcher, TLAPS

USE NoHashAssumption, SignedAssumption, ModesAssumption, MissAssumption

-----------------------------------------------------------------------------
(* Type correctness: the flags first, by the prover for Booleans. *)

(* The state __init__ leaves is of the right kinds. *)
LEMMA InitTypeOK == Init => TypeOK
<1> SUFFICES ASSUME Init PROVE TypeOK
  OBVIOUS
<1>1. FlagsOK
  BY Zenon DEF Init, FlagsOK
<1>2. QED
  BY <1>1 DEF Init, TypeOK, LabelsOK, Record, NoRecord, HashOrNone, MainLabels, ApplyLabels,
         DriverLabels,
              MonitorLabels

(* Booleans stay Booleans, apart because another prover does them. *)
LEMMA NextFlagsOK == FlagsOK /\ [Next]_vars => FlagsOK'
<1> SUFFICES ASSUME FlagsOK, [Next]_vars
             PROVE  FlagsOK'
  OBVIOUS
<1> USE DEF FlagsOK, vars, mainVars, stopVars, driverVars, flagVars, monitorVars, fileVars,
            sessionVars
<1>1. ASSUME NEW r \in Signed, Discover(r)
     PROVE  FlagsOK'
  BY Zenon, <1>1 DEF Discover, NoUpdate
<1>2. ASSUME NEW r \in Signed, AdoptFails(r)
     PROVE  FlagsOK'
  BY Zenon, <1>2 DEF AdoptFails, MainAborts, ThreadRecovers, Stale, NoUpdate
<1>3. CASE Signal
  BY Zenon, <1>3 DEF Signal
<1>4. CASE Bootstrapped
  BY Zenon, <1>4 DEF Bootstrapped
<1>5. CASE LoopEnds
  BY Zenon, <1>5 DEF LoopEnds
<1>6. CASE Stop
  BY Zenon, <1>6 DEF Stop
<1>7. CASE DiscoverNothing
  BY Zenon, <1>7 DEF DiscoverNothing, MainAborts
<1>8. CASE DiscoverFails
  BY Zenon, <1>8 DEF DiscoverFails, MainAborts, ThreadRecovers
<1>9. CASE NextCycle
  BY Zenon, <1>9 DEF NextCycle
<1>10. CASE LeechReconciles
  BY Zenon, <1>10 DEF LeechReconciles
<1>11. CASE LeechEnds
  BY Zenon, <1>11 DEF LeechEnds
<1>12. CASE Decide
  BY Zenon, <1>12 DEF Decide, Return
<1>13. CASE PauseOld
  BY Zenon, <1>13 DEF PauseOld
<1>14. CASE RemoveOld
  BY Zenon, <1>14 DEF RemoveOld
<1>15. CASE ClearActive
  BY Zenon, <1>15 DEF ClearActive
<1>16. CASE Ensure
  BY Zenon, <1>16 DEF Ensure
<1>17. CASE ReconcileFails
  BY Zenon, <1>17 DEF ReconcileFails, MayRaise, Return
<1>18. CASE HandlerFails
  BY Zenon, <1>18 DEF HandlerFails, MayRaise, MainAborts, ThreadRecovers
<1>19. CASE Track
  BY Zenon, <1>19 DEF Track
<1>20. CASE Mark
  BY Zenon, <1>20 DEF Mark
<1>21. CASE ResetStarted
  BY Zenon, <1>21 DEF ResetStarted
<1>22. CASE ResetSeen
  BY Zenon, <1>22 DEF ResetSeen
<1>23. CASE RecheckResumed
  BY Zenon, <1>23 DEF RecheckResumed, ForceRecheck
<1>24. CASE Settle
  BY Zenon, <1>24 DEF Settle, Return
<1>25. CASE Poll
  BY Zenon, <1>25 DEF Poll, MonitorAt
<1>26. CASE ReadMetadata
  BY Zenon, <1>26 DEF ReadMetadata, MonitorAt
<1>27. CASE BeginRecheck
  BY Zenon, <1>27 DEF BeginRecheck, MonitorAt
<1>28. CASE RecheckReplacement
  BY Zenon, <1>28 DEF RecheckReplacement, ForceRecheck, MonitorAt
<1>29. CASE RecheckStarted
  BY Zenon, <1>29 DEF RecheckStarted, MonitorAt
<1>30. CASE ReadStatus
  BY Zenon, <1>30 DEF ReadStatus, MonitorAt
<1>31. CASE Judge
  BY Zenon, <1>31 DEF Judge, MonitorAt
<1>32. CASE Unpause
  BY Zenon, <1>32 DEF Unpause, MonitorAt
<1>33. CASE ResetFlags
  BY Zenon, <1>33 DEF ResetFlags, MonitorAt
<1>34. CASE FinishPoll
  BY Zenon, <1>34 DEF FinishPoll, MonitorAt
<1>35. CASE MonitorFails
  BY Zenon, <1>35 DEF MonitorFails, MonitorRaises
<1>36. CASE MonitorDies
  BY Zenon, <1>36 DEF MonitorDies, MonitorRaises
<1>37. ASSUME NEW h \in Hash, MetadataArrives(h)
     PROVE  FlagsOK'
  BY Zenon, <1>37 DEF MetadataArrives
<1>38. ASSUME NEW h \in Hash, CheckBegins(h)
     PROVE  FlagsOK'
  BY Zenon, <1>38 DEF CheckBegins
<1>39. ASSUME NEW h \in Hash, CheckCompletes(h)
     PROVE  FlagsOK'
  BY Zenon, <1>39 DEF CheckCompletes
<1>40. ASSUME NEW h \in Hash, PiecesArrive(h)
     PROVE  FlagsOK'
  BY Zenon, <1>40 DEF PiecesArrive
<1>41. ASSUME NEW h \in Hash, QueueStartsTorrent(h)
     PROVE  FlagsOK'
  BY Zenon, <1>41 DEF QueueStartsTorrent
<1>42. CASE UNCHANGED vars
  BY Zenon, <1>42
<1>43. QED
  BY <1>1, <1>2, <1>3, <1>4, <1>5, <1>6, <1>7, <1>8, <1>9, <1>10, <1>11, <1>12, <1>13, <1>14,
         <1>15, <1>16, <1>17, <1>18, <1>19, <1>20, <1>21, <1>22, <1>23, <1>24, <1>25, <1>26,
         <1>27, <1>28, <1>29, <1>30, <1>31, <1>32, <1>33, <1>34, <1>35, <1>36, <1>37, <1>38,
         <1>39, <1>40, <1>41, <1>42
     DEF Next, MainNext, DriverNext, MonitorNext, SessionNext, Terminated

(* Every action of every actor keeps the kinds. *)
LEMMA NextTypeOK == TypeOK /\ [Next]_vars => TypeOK'
<1> SUFFICES ASSUME TypeOK, [Next]_vars
             PROVE  TypeOK'
  OBVIOUS
<1> FlagsOK'
  BY NextFlagsOK DEF TypeOK
<1> USE DEF TypeOK, LabelsOK, Record, HashOrNone, MainLabels, ApplyLabels, DriverLabels,
       MonitorLabels,
            vars, mainVars, stopVars, driverVars, flagVars, monitorVars, fileVars,
            sessionVars
<1>1. ASSUME NEW r \in Signed, Discover(r)
     PROVE  TypeOK'
  BY <1>1 DEF Discover, NoUpdate
<1>2. ASSUME NEW r \in Signed, AdoptFails(r)
     PROVE  TypeOK'
  BY <1>2 DEF AdoptFails, MainAborts, ThreadRecovers, Stale, NoUpdate
<1>3. CASE Signal
  BY <1>3 DEF Signal
<1>4. CASE Bootstrapped
  BY <1>4 DEF Bootstrapped
<1>5. CASE LoopEnds
  BY <1>5 DEF LoopEnds
<1>6. CASE Stop
  BY <1>6 DEF Stop
<1>7. CASE DiscoverNothing
  BY <1>7 DEF DiscoverNothing, MainAborts
<1>8. CASE DiscoverFails
  BY <1>8 DEF DiscoverFails, MainAborts, ThreadRecovers
<1>9. CASE NextCycle
  BY <1>9 DEF NextCycle
<1>10. CASE LeechReconciles
  BY <1>10 DEF LeechReconciles
<1>11. CASE LeechEnds
  BY <1>11 DEF LeechEnds
<1>12. CASE Decide
  BY <1>12 DEF Decide, Return
<1>13. CASE PauseOld
  BY <1>13 DEF PauseOld
<1>14. CASE RemoveOld
  BY <1>14 DEF RemoveOld
<1>15. CASE ClearActive
  BY <1>15 DEF ClearActive
<1>16. CASE Ensure
  <2>1. PICK complete \in SUBSET ({followed.hash} \cap resumable) :
               whole' = whole \cup complete
    BY <1>16 DEF Ensure
  <2>2. followed.hash \in Hash
    BY <1>16 DEF Ensure
  <2>3. QED
    BY <1>16, <2>1, <2>2 DEF Ensure
<1>17. CASE ReconcileFails
  BY <1>17 DEF ReconcileFails, MayRaise, Return
<1>18. CASE HandlerFails
  BY <1>18 DEF HandlerFails, MayRaise, MainAborts, ThreadRecovers
<1>19. CASE Track
  BY <1>19 DEF Track
<1>20. CASE Mark
  BY <1>20 DEF Mark
<1>21. CASE ResetStarted
  BY <1>21 DEF ResetStarted
<1>22. CASE ResetSeen
  BY <1>22 DEF ResetSeen
<1>23. CASE RecheckResumed
  BY <1>23 DEF RecheckResumed, ForceRecheck
<1>24. CASE Settle
  BY <1>24 DEF Settle, Return
<1>25. CASE Poll
  BY <1>25 DEF Poll, MonitorAt
<1>26. CASE ReadMetadata
  BY <1>26 DEF ReadMetadata, MonitorAt
<1>27. CASE BeginRecheck
  BY <1>27 DEF BeginRecheck, MonitorAt
<1>28. CASE RecheckReplacement
  BY <1>28 DEF RecheckReplacement, ForceRecheck, MonitorAt
<1>29. CASE RecheckStarted
  BY <1>29 DEF RecheckStarted, MonitorAt
<1>30. CASE ReadStatus
  BY <1>30 DEF ReadStatus, MonitorAt
<1>31. CASE Judge
  BY <1>31 DEF Judge, MonitorAt
<1>32. CASE Unpause
  BY <1>32 DEF Unpause, MonitorAt
<1>33. CASE ResetFlags
  BY <1>33 DEF ResetFlags, MonitorAt
<1>34. CASE FinishPoll
  BY <1>34 DEF FinishPoll, MonitorAt
<1>35. CASE MonitorFails
  BY <1>35 DEF MonitorFails, MonitorRaises
<1>36. CASE MonitorDies
  BY <1>36 DEF MonitorDies, MonitorRaises
<1>37. ASSUME NEW h \in Hash, MetadataArrives(h)
     PROVE  TypeOK'
  BY <1>37 DEF MetadataArrives
<1>38. ASSUME NEW h \in Hash, CheckBegins(h)
     PROVE  TypeOK'
  BY <1>38 DEF CheckBegins
<1>39. ASSUME NEW h \in Hash, CheckCompletes(h)
     PROVE  TypeOK'
  BY <1>39 DEF CheckCompletes
<1>40. ASSUME NEW h \in Hash, PiecesArrive(h)
     PROVE  TypeOK'
  BY <1>40 DEF PiecesArrive
<1>41. ASSUME NEW h \in Hash, QueueStartsTorrent(h)
     PROVE  TypeOK'
  BY <1>41 DEF QueueStartsTorrent
<1>42. CASE UNCHANGED vars
  BY <1>42
<1>43. QED
  BY <1>1, <1>2, <1>3, <1>4, <1>5, <1>6, <1>7, <1>8, <1>9, <1>10, <1>11, <1>12, <1>13, <1>14,
         <1>15, <1>16, <1>17, <1>18, <1>19, <1>20, <1>21, <1>22, <1>23, <1>24, <1>25, <1>26,
         <1>27, <1>28, <1>29, <1>30, <1>31, <1>32, <1>33, <1>34, <1>35, <1>36, <1>37, <1>38,
         <1>39, <1>40, <1>41, <1>42
     DEF Next, MainNext, DriverNext, MonitorNext, SessionNext, Terminated

(* In every reachable state every attribute holds a value of its kind, and *)
(* the labels of the threads agree with what they hold.                    *)
THEOREM TypeCorrect == Spec => []TypeOK
  BY InitTypeOK, NextTypeOK, PTL DEF Spec

-----------------------------------------------------------------------------
(* The inductive invariant of a replacement: which torrent the session     *)
(* holds, and which one _active_info_hash names, at each of its statements.*)
Held ==
  /\ driver = "track" => active = NoHash /\ handles = {followed.hash}
  /\ driver = "ensure" => active = NoHash /\ handles = {}
  /\ driver = "clear" => handles = {}
  /\ driver \notin {"track", "ensure", "clear"} => handles = {active} \ {NoHash}

Targeted ==
  /\ driver \in {"pause", "remove"} => active # NoHash /\ active # followed.hash
  /\ driver \in {"mark", "resetStarted", "resetSeen", "recheck", "settle"}
       => active = followed.hash
  /\ AtRest /\ running /\ ~lapse /\ followed.hash # NoHash => active = followed.hash

IInv == TypeOK /\ Held /\ Targeted

(* Nothing is held before the first reconcile. *)
LEMMA InitIInv == Init => IInv
<1> SUFFICES ASSUME Init PROVE IInv
  OBVIOUS
<1>1. TypeOK
  BY InitTypeOK
<1>2. Held /\ Targeted
  BY DEF Init, Held, Targeted, AtRest
<1>3. QED
  BY <1>1, <1>2 DEF IInv

(* What the session holds follows the driver's label. *)
LEMMA NextHeld == IInv /\ [Next]_vars => Held'
<1> SUFFICES ASSUME IInv, [Next]_vars
             PROVE  Held'
  OBVIOUS
<1> USE DEF IInv, TypeOK, LabelsOK, Held, Targeted, HashOrNone, ApplyLabels,
            vars, mainVars, stopVars, driverVars, flagVars, monitorVars, fileVars,
            sessionVars
<1>1. ASSUME NEW r \in Signed, Discover(r)
     PROVE  Held'
  BY <1>1 DEF Discover, NoUpdate
<1>2. ASSUME NEW r \in Signed, AdoptFails(r)
     PROVE  Held'
  BY <1>2 DEF AdoptFails, MainAborts, ThreadRecovers, Stale, NoUpdate
<1>3. CASE Signal
  BY <1>3 DEF Signal
<1>4. CASE Bootstrapped
  BY <1>4 DEF Bootstrapped
<1>5. CASE LoopEnds
  BY <1>5 DEF LoopEnds
<1>6. CASE Stop
  BY <1>6 DEF Stop
<1>7. CASE DiscoverNothing
  BY <1>7 DEF DiscoverNothing, MainAborts
<1>8. CASE DiscoverFails
  BY <1>8 DEF DiscoverFails, MainAborts, ThreadRecovers
<1>9. CASE NextCycle
  BY <1>9 DEF NextCycle
<1>10. CASE LeechReconciles
  BY <1>10 DEF LeechReconciles
<1>11. CASE LeechEnds
  BY <1>11 DEF LeechEnds
<1>12. CASE Decide
  BY <1>12 DEF Decide, Return
<1>13. CASE PauseOld
  BY <1>13 DEF PauseOld
<1>14. CASE RemoveOld
  BY <1>14 DEF RemoveOld
<1>15. CASE ClearActive
  BY <1>15 DEF ClearActive
<1>16. CASE Ensure
  BY <1>16 DEF Ensure
<1>17. CASE ReconcileFails
  BY <1>17 DEF ReconcileFails, MayRaise, Return
<1>18. CASE HandlerFails
  BY <1>18 DEF HandlerFails, MayRaise, MainAborts, ThreadRecovers
<1>19. CASE Track
  BY <1>19 DEF Track
<1>20. CASE Mark
  BY <1>20 DEF Mark
<1>21. CASE ResetStarted
  BY <1>21 DEF ResetStarted
<1>22. CASE ResetSeen
  BY <1>22 DEF ResetSeen
<1>23. CASE RecheckResumed
  BY <1>23 DEF RecheckResumed, ForceRecheck
<1>24. CASE Settle
  BY <1>24 DEF Settle, Return
<1>25. CASE Poll
  BY <1>25 DEF Poll, MonitorAt
<1>26. CASE ReadMetadata
  BY <1>26 DEF ReadMetadata, MonitorAt
<1>27. CASE BeginRecheck
  BY <1>27 DEF BeginRecheck, MonitorAt
<1>28. CASE RecheckReplacement
  BY <1>28 DEF RecheckReplacement, ForceRecheck, MonitorAt
<1>29. CASE RecheckStarted
  BY <1>29 DEF RecheckStarted, MonitorAt
<1>30. CASE ReadStatus
  BY <1>30 DEF ReadStatus, MonitorAt
<1>31. CASE Judge
  BY <1>31 DEF Judge, MonitorAt
<1>32. CASE Unpause
  BY <1>32 DEF Unpause, MonitorAt
<1>33. CASE ResetFlags
  BY <1>33 DEF ResetFlags, MonitorAt
<1>34. CASE FinishPoll
  BY <1>34 DEF FinishPoll, MonitorAt
<1>35. CASE MonitorFails
  BY <1>35 DEF MonitorFails, MonitorRaises
<1>36. CASE MonitorDies
  BY <1>36 DEF MonitorDies, MonitorRaises
<1>37. ASSUME NEW h \in Hash, MetadataArrives(h)
     PROVE  Held'
  BY <1>37 DEF MetadataArrives
<1>38. ASSUME NEW h \in Hash, CheckBegins(h)
     PROVE  Held'
  BY <1>38 DEF CheckBegins
<1>39. ASSUME NEW h \in Hash, CheckCompletes(h)
     PROVE  Held'
  BY <1>39 DEF CheckCompletes
<1>40. ASSUME NEW h \in Hash, PiecesArrive(h)
     PROVE  Held'
  BY <1>40 DEF PiecesArrive
<1>41. ASSUME NEW h \in Hash, QueueStartsTorrent(h)
     PROVE  Held'
  BY <1>41 DEF QueueStartsTorrent
<1>42. CASE UNCHANGED vars
  BY <1>42
<1>43. QED
  BY <1>1, <1>2, <1>3, <1>4, <1>5, <1>6, <1>7, <1>8, <1>9, <1>10, <1>11, <1>12, <1>13, <1>14,
         <1>15, <1>16, <1>17, <1>18, <1>19, <1>20, <1>21, <1>22, <1>23, <1>24, <1>25, <1>26,
         <1>27, <1>28, <1>29, <1>30, <1>31, <1>32, <1>33, <1>34, <1>35, <1>36, <1>37, <1>38,
         <1>39, <1>40, <1>41, <1>42
     DEF Next, MainNext, DriverNext, MonitorNext, SessionNext, Terminated

(* The active hash follows the driver's label and the record. *)
LEMMA NextTargeted == IInv /\ [Next]_vars => Targeted'
<1> SUFFICES ASSUME IInv, [Next]_vars
             PROVE  Targeted'
  OBVIOUS
<1> USE DEF IInv, TypeOK, LabelsOK, Held, Targeted, AtRest, HashOrNone, ApplyLabels,
            vars, mainVars, stopVars, driverVars, flagVars, monitorVars, fileVars,
            sessionVars
<1>1. ASSUME NEW r \in Signed, Discover(r)
     PROVE  Targeted'
  BY <1>1 DEF Discover, NoUpdate
<1>2. ASSUME NEW r \in Signed, AdoptFails(r)
     PROVE  Targeted'
  BY <1>2 DEF AdoptFails, MainAborts, ThreadRecovers, Stale, NoUpdate
<1>3. CASE Signal
  BY <1>3 DEF Signal
<1>4. CASE Bootstrapped
  BY <1>4 DEF Bootstrapped
<1>5. CASE LoopEnds
  BY <1>5 DEF LoopEnds
<1>6. CASE Stop
  BY <1>6 DEF Stop
<1>7. CASE DiscoverNothing
  BY <1>7 DEF DiscoverNothing, MainAborts
<1>8. CASE DiscoverFails
  BY <1>8 DEF DiscoverFails, MainAborts, ThreadRecovers
<1>9. CASE NextCycle
  BY <1>9 DEF NextCycle
<1>10. CASE LeechReconciles
  BY <1>10 DEF LeechReconciles
<1>11. CASE LeechEnds
  BY <1>11 DEF LeechEnds
<1>12. CASE Decide
  BY <1>12 DEF Decide, Return
<1>13. CASE PauseOld
  BY <1>13 DEF PauseOld
<1>14. CASE RemoveOld
  BY <1>14 DEF RemoveOld
<1>15. CASE ClearActive
  BY <1>15 DEF ClearActive
<1>16. CASE Ensure
  BY <1>16 DEF Ensure
<1>17. CASE ReconcileFails
  BY <1>17 DEF ReconcileFails, MayRaise, Return
<1>18. CASE HandlerFails
  BY <1>18 DEF HandlerFails, MayRaise, MainAborts, ThreadRecovers
<1>19. CASE Track
  BY <1>19 DEF Track
<1>20. CASE Mark
  BY <1>20 DEF Mark
<1>21. CASE ResetStarted
  BY <1>21 DEF ResetStarted
<1>22. CASE ResetSeen
  BY <1>22 DEF ResetSeen
<1>23. CASE RecheckResumed
  BY <1>23 DEF RecheckResumed, ForceRecheck
<1>24. CASE Settle
  BY <1>24 DEF Settle, Return
<1>25. CASE Poll
  BY <1>25 DEF Poll, MonitorAt
<1>26. CASE ReadMetadata
  BY <1>26 DEF ReadMetadata, MonitorAt
<1>27. CASE BeginRecheck
  BY <1>27 DEF BeginRecheck, MonitorAt
<1>28. CASE RecheckReplacement
  BY <1>28 DEF RecheckReplacement, ForceRecheck, MonitorAt
<1>29. CASE RecheckStarted
  BY <1>29 DEF RecheckStarted, MonitorAt
<1>30. CASE ReadStatus
  BY <1>30 DEF ReadStatus, MonitorAt
<1>31. CASE Judge
  BY <1>31 DEF Judge, MonitorAt
<1>32. CASE Unpause
  BY <1>32 DEF Unpause, MonitorAt
<1>33. CASE ResetFlags
  BY <1>33 DEF ResetFlags, MonitorAt
<1>34. CASE FinishPoll
  BY <1>34 DEF FinishPoll, MonitorAt
<1>35. CASE MonitorFails
  BY <1>35 DEF MonitorFails, MonitorRaises
<1>36. CASE MonitorDies
  BY <1>36 DEF MonitorDies, MonitorRaises
<1>37. ASSUME NEW h \in Hash, MetadataArrives(h)
     PROVE  Targeted'
  BY <1>37 DEF MetadataArrives
<1>38. ASSUME NEW h \in Hash, CheckBegins(h)
     PROVE  Targeted'
  BY <1>38 DEF CheckBegins
<1>39. ASSUME NEW h \in Hash, CheckCompletes(h)
     PROVE  Targeted'
  BY <1>39 DEF CheckCompletes
<1>40. ASSUME NEW h \in Hash, PiecesArrive(h)
     PROVE  Targeted'
  BY <1>40 DEF PiecesArrive
<1>41. ASSUME NEW h \in Hash, QueueStartsTorrent(h)
     PROVE  Targeted'
  BY <1>41 DEF QueueStartsTorrent
<1>42. CASE UNCHANGED vars
  BY <1>42
<1>43. QED
  BY <1>1, <1>2, <1>3, <1>4, <1>5, <1>6, <1>7, <1>8, <1>9, <1>10, <1>11, <1>12, <1>13, <1>14,
         <1>15, <1>16, <1>17, <1>18, <1>19, <1>20, <1>21, <1>22, <1>23, <1>24, <1>25, <1>26,
         <1>27, <1>28, <1>29, <1>30, <1>31, <1>32, <1>33, <1>34, <1>35, <1>36, <1>37, <1>38,
         <1>39, <1>40, <1>41, <1>42
     DEF Next, MainNext, DriverNext, MonitorNext, SessionNext, Terminated

(* The two together are inductive. *)
LEMMA NextIInv == IInv /\ [Next]_vars => IInv'
  BY NextTypeOK, NextHeld, NextTargeted DEF IInv

(* At every statement of a reconcile, what the session holds, the active   *)
(* hash and the record agree as the label says                             *)
(* (mirror/watcher.py:426-487).                                            *)
THEOREM Invariance == Spec => []IInv
  BY InitIInv, NextIInv, PTL DEF Spec

(* Whatever records arrive and however the threads interleave, the session *)
(* never holds two torrents that write the canonical archive.              *)
THEOREM SingleTransfer == Spec => []OneTransfer
<1>1. IInv => OneTransfer
  BY DEF IInv, Held, OneTransfer
<1>2. QED
  BY <1>1, Invariance, PTL

(* A running service whose driver is at rest transfers the snapshot of the *)
(* record it follows and nothing else, unless an exception came between    *)
(* the adoption of that record and its reconciliation                      *)
(* (mirror/watcher.py:402-413, 477-481).                                   *)
THEOREM AlwaysReconciled == Spec => []Reconciled
<1>1. IInv => Reconciled
  BY DEF IInv, Held, Targeted, AtRest, Reconciled
<1>2. QED
  BY <1>1, Invariance, PTL

-----------------------------------------------------------------------------
(* The mirror implements SnapshotFollower. *)

(* The session's torrent, label by label. *)
TransferAt ==
  Transfer = IF driver = "track" THEN followed.hash
             ELSE IF driver \in {"ensure", "clear"} THEN NoHash ELSE active

(* The torrent CHOOSE gives is the only one there is. *)
LEMMA TransferIs == IInv => TransferAt
<1> SUFFICES ASSUME IInv
             PROVE  TransferAt
  OBVIOUS
<1>1. ASSUME NEW x, handles = {x}
      PROVE  Transfer = x
  BY <1>1 DEF Transfer
<1>2. handles = {} => Transfer = NoHash
  BY DEF Transfer
<1>3. QED
  BY <1>1, <1>2 DEF IInv, Held, TransferAt

(* The same of the next state. *)
LEMMA TransferIsNext == IInv' => TransferAt'
  BY TransferIs, PTL

(* The session starts empty, the record as the state file has it. *)
LEMMA InitFollower == Init => Follower!Init
  BY DEF Init, Follower!Init, Transfer, NoRecord

(* Discover adopts, Ensure begins, RemoveOld gives up; the rest stutters. *)
LEMMA NextFollower == IInv /\ IInv' /\ [Next]_vars => [Follower!Next]_(Follower!vars)
<1> SUFFICES ASSUME IInv, IInv', [Next]_vars
             PROVE  [Follower!Next]_(Follower!vars)
  OBVIOUS
<1>1. TransferAt /\ TransferAt'
  BY TransferIs, TransferIsNext
<1> USE <1>1 DEF TransferAt, IInv, TypeOK, LabelsOK, Held, Targeted, Record, HashOrNone,
            ApplyLabels, Follower!Next, Follower!Adopt, Follower!Begin, Follower!GiveUp,
            Follower!vars, vars, mainVars, stopVars, driverVars, flagVars, monitorVars, fileVars,
            sessionVars
<1>2. ASSUME NEW r \in Signed, Discover(r)
     PROVE  [Follower!Next]_(Follower!vars)
  BY <1>2 DEF Discover, Stale, NoUpdate
<1>3. ASSUME NEW r \in Signed, AdoptFails(r)
     PROVE  [Follower!Next]_(Follower!vars)
  BY <1>3 DEF AdoptFails, MainAborts, ThreadRecovers, Stale, NoUpdate
<1>4. CASE Signal
  BY <1>4 DEF Signal
<1>5. CASE Bootstrapped
  BY <1>5 DEF Bootstrapped
<1>6. CASE LoopEnds
  BY <1>6 DEF LoopEnds
<1>7. CASE Stop
  BY <1>7 DEF Stop
<1>8. CASE DiscoverNothing
  BY <1>8 DEF DiscoverNothing, MainAborts
<1>9. CASE DiscoverFails
  BY <1>9 DEF DiscoverFails, MainAborts, ThreadRecovers
<1>10. CASE NextCycle
  BY <1>10 DEF NextCycle
<1>11. CASE LeechReconciles
  BY <1>11 DEF LeechReconciles
<1>12. CASE LeechEnds
  BY <1>12 DEF LeechEnds
<1>13. CASE Decide
  BY <1>13 DEF Decide, Return
<1>14. CASE PauseOld
  BY <1>14 DEF PauseOld
<1>15. CASE RemoveOld
  BY <1>15 DEF RemoveOld
<1>16. CASE ClearActive
  BY <1>16 DEF ClearActive
<1>17. CASE Ensure
  BY <1>17 DEF Ensure
<1>18. CASE ReconcileFails
  BY <1>18 DEF ReconcileFails, MayRaise, Return
<1>19. CASE HandlerFails
  BY <1>19 DEF HandlerFails, MayRaise, MainAborts, ThreadRecovers
<1>20. CASE Track
  BY <1>20 DEF Track
<1>21. CASE Mark
  BY <1>21 DEF Mark
<1>22. CASE ResetStarted
  BY <1>22 DEF ResetStarted
<1>23. CASE ResetSeen
  BY <1>23 DEF ResetSeen
<1>24. CASE RecheckResumed
  BY <1>24 DEF RecheckResumed, ForceRecheck
<1>25. CASE Settle
  BY <1>25 DEF Settle, Return
<1>26. CASE Poll
  BY <1>26 DEF Poll, MonitorAt
<1>27. CASE ReadMetadata
  BY <1>27 DEF ReadMetadata, MonitorAt
<1>28. CASE BeginRecheck
  BY <1>28 DEF BeginRecheck, MonitorAt
<1>29. CASE RecheckReplacement
  BY <1>29 DEF RecheckReplacement, ForceRecheck, MonitorAt
<1>30. CASE RecheckStarted
  BY <1>30 DEF RecheckStarted, MonitorAt
<1>31. CASE ReadStatus
  BY <1>31 DEF ReadStatus, MonitorAt
<1>32. CASE Judge
  BY <1>32 DEF Judge, MonitorAt
<1>33. CASE Unpause
  BY <1>33 DEF Unpause, MonitorAt
<1>34. CASE ResetFlags
  BY <1>34 DEF ResetFlags, MonitorAt
<1>35. CASE FinishPoll
  BY <1>35 DEF FinishPoll, MonitorAt
<1>36. CASE MonitorFails
  BY <1>36 DEF MonitorFails, MonitorRaises
<1>37. CASE MonitorDies
  BY <1>37 DEF MonitorDies, MonitorRaises
<1>38. ASSUME NEW h \in Hash, MetadataArrives(h)
     PROVE  [Follower!Next]_(Follower!vars)
  BY <1>38 DEF MetadataArrives
<1>39. ASSUME NEW h \in Hash, CheckBegins(h)
     PROVE  [Follower!Next]_(Follower!vars)
  BY <1>39 DEF CheckBegins
<1>40. ASSUME NEW h \in Hash, CheckCompletes(h)
     PROVE  [Follower!Next]_(Follower!vars)
  BY <1>40 DEF CheckCompletes
<1>41. ASSUME NEW h \in Hash, PiecesArrive(h)
     PROVE  [Follower!Next]_(Follower!vars)
  BY <1>41 DEF PiecesArrive
<1>42. ASSUME NEW h \in Hash, QueueStartsTorrent(h)
     PROVE  [Follower!Next]_(Follower!vars)
  BY <1>42 DEF QueueStartsTorrent
<1>43. CASE UNCHANGED vars
  BY <1>43
<1>44. QED
  BY <1>2, <1>3, <1>4, <1>5, <1>6, <1>7, <1>8, <1>9, <1>10, <1>11, <1>12, <1>13, <1>14, <1>15,
         <1>16, <1>17, <1>18, <1>19, <1>20, <1>21, <1>22, <1>23, <1>24, <1>25, <1>26, <1>27,
         <1>28, <1>29, <1>30, <1>31, <1>32, <1>33, <1>34, <1>35, <1>36, <1>37, <1>38, <1>39,
         <1>40, <1>41, <1>42, <1>43
     DEF Next, MainNext, DriverNext, MonitorNext, SessionNext, Terminated

(* Every behaviour of the watcher is a behaviour of SnapshotFollower: the  *)
(* promise holds through every interleaving of its threads.                *)
THEOREM ImplementsFollower == Spec => FollowerSpec
  BY Invariance, InitFollower, NextFollower, PTL DEF Spec, FollowerSpec, Follower!Spec

-----------------------------------------------------------------------------
(* A leech reports the snapshot it fetched.                                *)

(* The monitor is past the top of a poll: it holds a torrent's hash.       *)
Polling == monitor \notin {"off", "poll", "done"}

(* _run_once runs the driver's code once through (mirror/watcher.py:       *)
(* 203-246): nothing is ever replaced, the monitor starts after the lookup *)
(* and the first reconcile, and a torrent that was activated without a     *)
(* recheck has been activated by then.                                     *)
LeechPath ==
  mode = "leech" =>
    /\ recheckAfter = NoHash
    /\ decision # "replace"
    /\ active \in {NoHash, followed.hash}
    /\ driver \notin {"sleep", "pause", "remove", "clear", "mark", "resetStarted",
                      "resetSeen"}
    /\ driver \in {"off", "lookup"} \/ (driver = "decide" /\ pass = "update")
         => active = NoHash
    /\ driver \in {"off", "lookup", "second"} \/ pass = "update" => monitor = "off"
    /\ monitor # "off" /\ decision = "activate" => driver \in {"decide", "wait", "done"}

(* What the monitor polled is about the record followed and still true     *)
(* when it is used, two statements later and, by the main thread, after    *)
(* that: without a recheck no complete torrent becomes incomplete.         *)
Reported ==
  /\ stopReason = "seeding" => mode = "leech" /\ monitor # "off"
  /\ Polling => tracked # NoHash
  /\ mode = "leech" /\ decision = "activate" =>
       /\ Polling => tracked = followed.hash
       /\ monitor \notin {"force", "started", "unpause", "reset"}
       /\ monitor \in {"judge", "finish"} /\ seen = "seeding" => followed.hash \in whole
       /\ stopReason = "seeding" => followed.hash \in whole

LInv == LeechPath /\ Reported

(* Every action keeps both parts. *)
LEMMA NextLInv == TypeOK /\ LInv /\ [Next]_vars => LInv'
<1> SUFFICES ASSUME TypeOK, LInv, [Next]_vars
             PROVE  LInv'
  OBVIOUS
<1> USE DEF LInv, LeechPath, Reported, Polling, TypeOK, LabelsOK, Record, ApplyLabels,
            vars, mainVars, stopVars, driverVars, flagVars, monitorVars, fileVars,
            sessionVars
<1>1. ASSUME NEW r \in Signed, Discover(r)
     PROVE  LInv'
  BY <1>1 DEF Discover, NoUpdate, Stale
<1>2. ASSUME NEW r \in Signed, AdoptFails(r)
     PROVE  LInv'
  BY <1>2 DEF AdoptFails, MainAborts, ThreadRecovers, Stale, NoUpdate
<1>3. CASE Signal
  BY <1>3 DEF Signal
<1>4. CASE Bootstrapped
  BY <1>4 DEF Bootstrapped
<1>5. CASE LoopEnds
  BY <1>5 DEF LoopEnds
<1>6. CASE Stop
  BY <1>6 DEF Stop
<1>7. CASE DiscoverNothing
  BY <1>7 DEF DiscoverNothing, MainAborts
<1>8. CASE DiscoverFails
  BY <1>8 DEF DiscoverFails, MainAborts, ThreadRecovers
<1>9. CASE NextCycle
  BY <1>9 DEF NextCycle
<1>10. CASE LeechReconciles
  BY <1>10 DEF LeechReconciles
<1>11. CASE LeechEnds
  BY <1>11 DEF LeechEnds
<1>12. CASE Decide
  BY <1>12 DEF Decide, Return
<1>13. CASE PauseOld
  BY <1>13 DEF PauseOld
<1>14. CASE RemoveOld
  BY <1>14 DEF RemoveOld
<1>15. CASE ClearActive
  BY <1>15 DEF ClearActive
<1>16. CASE Ensure
  BY <1>16 DEF Ensure
<1>17. CASE ReconcileFails
  BY <1>17 DEF ReconcileFails, MayRaise, Return
<1>18. CASE HandlerFails
  BY <1>18 DEF HandlerFails, MayRaise, MainAborts, ThreadRecovers
<1>19. CASE Track
  BY <1>19 DEF Track
<1>20. CASE Mark
  BY <1>20 DEF Mark
<1>21. CASE ResetStarted
  BY <1>21 DEF ResetStarted
<1>22. CASE ResetSeen
  BY <1>22 DEF ResetSeen
<1>23. CASE RecheckResumed
  BY <1>23 DEF RecheckResumed, ForceRecheck
<1>24. CASE Settle
  BY <1>24 DEF Settle, Return
<1>25. CASE Poll
  BY <1>25 DEF Poll, MonitorAt
<1>26. CASE ReadMetadata
  BY <1>26 DEF ReadMetadata, MonitorAt
<1>27. CASE BeginRecheck
  BY <1>27 DEF BeginRecheck, MonitorAt
<1>28. CASE RecheckReplacement
  BY <1>28 DEF RecheckReplacement, ForceRecheck, MonitorAt
<1>29. CASE RecheckStarted
  BY <1>29 DEF RecheckStarted, MonitorAt
<1>30. CASE ReadStatus
  BY <1>30 DEF ReadStatus, Seeding, MonitorAt
<1>31. CASE Judge
  BY <1>31 DEF Judge, MonitorAt
<1>32. CASE Unpause
  BY <1>32 DEF Unpause, MonitorAt
<1>33. CASE ResetFlags
  BY <1>33 DEF ResetFlags, MonitorAt
<1>34. CASE FinishPoll
  BY <1>34 DEF FinishPoll, MonitorAt
<1>35. CASE MonitorFails
  BY <1>35 DEF MonitorFails, MonitorRaises
<1>36. CASE MonitorDies
  BY <1>36 DEF MonitorDies, MonitorRaises
<1>37. ASSUME NEW h \in Hash, MetadataArrives(h)
     PROVE  LInv'
  BY <1>37 DEF MetadataArrives
<1>38. ASSUME NEW h \in Hash, CheckBegins(h)
     PROVE  LInv'
  BY <1>38 DEF CheckBegins
<1>39. ASSUME NEW h \in Hash, CheckCompletes(h)
     PROVE  LInv'
  BY <1>39 DEF CheckCompletes
<1>40. ASSUME NEW h \in Hash, PiecesArrive(h)
     PROVE  LInv'
  BY <1>40 DEF PiecesArrive
<1>41. ASSUME NEW h \in Hash, QueueStartsTorrent(h)
     PROVE  LInv'
  BY <1>41 DEF QueueStartsTorrent
<1>42. CASE UNCHANGED vars
  BY <1>42
<1>43. QED
  BY <1>1, <1>2, <1>3, <1>4, <1>5, <1>6, <1>7, <1>8, <1>9, <1>10, <1>11, <1>12, <1>13, <1>14,
         <1>15, <1>16, <1>17, <1>18, <1>19, <1>20, <1>21, <1>22, <1>23, <1>24, <1>25, <1>26,
         <1>27, <1>28, <1>29, <1>30, <1>31, <1>32, <1>33, <1>34, <1>35, <1>36, <1>37, <1>38,
         <1>39, <1>40, <1>41, <1>42
     DEF Next, MainNext, DriverNext, MonitorNext, SessionNext, Terminated

(* The monitor's poll of a seeding torrent, judged and reported in later   *)
(* steps, still describes the snapshot of the adopted record when the main *)
(* thread reads stop_reason (mirror/watcher.py:232-246, 672-675).          *)
THEOREM LeechReportsSoundly == Spec => []LeechDelivers
<1>1. Init => LInv
  BY DEF Init, LInv, LeechPath, Reported, Polling, NoRecord
<1>2. LInv => LeechDelivers
  BY DEF LInv, Reported, LeechDelivers
<1>3. QED
  BY <1>1, <1>2, NextLInv, TypeCorrect, PTL DEF Spec
=============================================================================
