-------------------------- MODULE StatusApiProofs ---------------------------
(***************************************************************************)
(* The status API never goes back and loses no acknowledged push, for any  *)
(* set of signed pushes, any number of restarts and failed writes.  The    *)
(* inductive invariant says that status.json, and a save in progress, are  *)
(* never behind the status in memory: that is why a restart, which makes   *)
(* memory what the files hold, cannot take a reader back.                  *)
(***************************************************************************)
EXTENDS StatusApi, TLAPS

USE NoBytesAssumption, PushAssumption, NoStatusAssumption

(* What memory shows may be replaced by the file, and by what is saved. *)
FileAhead == statusFile \in Push \/ status = NoStatus
FileFollows == Board!Follows(status, statusFile)
SaveFollows == save # "idle" => Board!Follows(status, saving)

(* Past its first step a save has put its push into the file. *)
FileSaved == save \in {"torrent", "named", "commit"} => statusFile = saving

(* Acknowledged pushes are in memory, or memory is later. *)
AckedStored == acked > 0 => status # NoStatus /\ status.seq >= acked

(* A start that saves, saves what it loaded; a save that is about to be    *)
(* committed has written its named file.                                   *)
StartSaves == server = "starting" => saving = status
NamedWritten == save = "commit" => named[saving.hash] # NoFile

IInv ==
  /\ TypeOK
  /\ FileAhead /\ FileFollows /\ SaveFollows /\ FileSaved
  /\ AckedStored
  /\ StartSaves /\ NamedWritten /\ RedirectResolves

-----------------------------------------------------------------------------
(* An empty volume or that of an older release is of the right kinds. *)
LEMMA InitTypeOK == Init => TypeOK
<1> SUFFICES ASSUME Init PROVE TypeOK
  OBVIOUS
<1>1. named \in [Hash -> BytesOrNone \cup {NoFile}]
  BY SMT DEF Init, BytesOrNone
<1>2. legacy \in BOOLEAN
  BY Zenon DEF Init
<1>3. QED
  BY <1>1, <1>2, SMT DEF Init, TypeOK, StatusOrNone, BytesOrNone, SaveLabels

(* Every statement of a push or a start keeps the kinds. *)
LEMMA NextTypeOK == TypeOK /\ [Next]_vars => TypeOK'
<1> SUFFICES ASSUME TypeOK, [Next]_vars PROVE TypeOK'
  OBVIOUS
<1> USE DEF TypeOK, StatusOrNone, BytesOrNone, SaveLabels, files, memory, job
<1>1. CASE Start
  BY <1>1, SMT DEF Start, StartWith
<1>2. CASE Crash
  BY <1>2, SMT DEF Crash
<1>3. ASSUME NEW p \in Push, Repeat(p)
      PROVE  TypeOK'
  BY <1>3, SMT DEF Repeat, Unlocked, Acknowledge
<1>4. ASSUME NEW p \in Push, Accept(p)
      PROVE  TypeOK'
  BY <1>4, SMT DEF Accept, Unlocked
<1>5. CASE SaveStatus
  <2>1. legacy' \in BOOLEAN
    BY <1>5, Zenon DEF SaveStatus
  <2>2. QED
    BY <1>5, <2>1, SMT DEF SaveStatus
<1>6. CASE SaveTorrent
  BY <1>6, SMT DEF SaveTorrent
<1>7. CASE SaveNamed
  <2>1. named' \in [Hash -> BytesOrNone \cup {NoFile}]
    BY <1>7, SMT DEF SaveNamed
  <2>2. QED
    BY <1>7, <2>1, SMT DEF SaveNamed
<1>8. CASE Commit
  BY <1>8, SMT DEF Commit, Acknowledge
<1>9. CASE SaveFails
  BY <1>9, SMT DEF SaveFails
<1>10. CASE UNCHANGED vars
  BY <1>10, SMT DEF vars
<1>11. QED
  BY <1>1, <1>2, <1>3, <1>4, <1>5, <1>6, <1>7, <1>8, <1>9, <1>10 DEF Next

(* Every variable keeps its kind in every behaviour. *)
THEOREM TypeCorrect == Spec => []TypeOK
<1>1. QED
  BY InitTypeOK, NextTypeOK, PTL DEF Spec

-----------------------------------------------------------------------------
(* Nothing has been acknowledged and nothing is being saved. *)
LEMMA InitIInv == Init => IInv
<1> SUFFICES ASSUME Init PROVE IInv
  OBVIOUS
<1>1. TypeOK
  BY InitTypeOK
<1>2. QED
  BY <1>1, SMT DEF Init, IInv, FileAhead, FileFollows, SaveFollows, FileSaved, AckedStored,
                   StartSaves, NamedWritten, RedirectResolves, Board!Follows

(* What follows may in turn be followed. *)
LEMMA FollowsTransitive ==
  ASSUME NEW p \in StatusOrNone, NEW q \in Push, NEW r \in Push,
         Board!Follows(p, q), Board!Follows(q, r)
  PROVE  Board!Follows(p, r)
BY SMT DEF Board!Follows, StatusOrNone

(* A push that is not a replay and not a conflict follows what is shown. *)
LEMMA AcceptableFollows ==
  ASSUME TypeOK, NEW p \in Push, Acceptable(p)
  PROVE  Board!Follows(status, p)
BY SMT DEF TypeOK, StatusOrNone, Acceptable, CurrentSeq, SameSnapshot, Board!Follows

(* Memory follows the file, the file the save, the answer both. *)
LEMMA NextIInv == IInv /\ [Next]_vars => IInv'
<1> SUFFICES ASSUME IInv, [Next]_vars PROVE IInv'
  OBVIOUS
<1>0. TypeOK /\ TypeOK'
  BY NextTypeOK DEF IInv
<1> USE <1>0 DEF IInv, FileAhead, FileFollows, SaveFollows, FileSaved, AckedStored, StartSaves,
             NamedWritten, RedirectResolves, files, memory, job
<1>1. CASE Start
  BY <1>1, SMT DEF Start, StartWith, TypeOK, StatusOrNone, BytesOrNone, Board!Follows
<1>2. CASE Crash
  BY <1>2, SMT DEF Crash, TypeOK
<1>3. ASSUME NEW p \in Push, Repeat(p)
      PROVE  IInv'
  BY <1>3, SMT DEF Repeat, Unlocked, SamePayload, Acknowledge, TypeOK, StatusOrNone,
                   Board!Follows
<1>4. ASSUME NEW p \in Push, Accept(p)
      PROVE  IInv'
  <2>1. Board!Follows(status, p)
    BY <1>4, AcceptableFollows DEF Accept
  <2>2. QED
    BY <1>4, <2>1, SMT DEF Accept, Unlocked, TypeOK
<1>5. CASE SaveStatus
  BY <1>5, SMT DEF SaveStatus, TypeOK
<1>6. CASE SaveTorrent
  BY <1>6, SMT DEF SaveTorrent, TypeOK
<1>7. CASE SaveNamed
  <2>1. /\ saving \in Push /\ saving.hash \in Hash
        /\ savedBytes \in BytesOrNone /\ savedBytes # NoFile
    BY <1>7, SMT DEF SaveNamed, TypeOK, BytesOrNone
  <2>2. named'[saving.hash] = savedBytes
    BY <1>7, <2>1, SMT DEF SaveNamed, TypeOK
  <2>3. \A h \in Hash : named[h] # NoFile => named'[h] # NoFile
    BY <1>7, <2>1, SMT DEF SaveNamed, TypeOK
  <2>4. status \in Push => status.hash \in Hash
    BY SMT
  <2>5. QED
    BY <1>7, <2>1, <2>2, <2>3, <2>4, SMT DEF SaveNamed, TypeOK, StatusOrNone
<1>8. CASE Commit
  <2>1. saving \in Push
    BY <1>8, SMT DEF Commit, TypeOK
  <2>2. statusFile \in Push /\ Board!Follows(saving, statusFile)
    BY <1>8, <2>1, SMT DEF Commit, Board!Follows
  <2>3. QED
    BY <1>8, <2>1, <2>2, SMT DEF Commit, Acknowledge, TypeOK, StatusOrNone, Board!Follows
<1>9. CASE SaveFails
  BY <1>9, SMT DEF SaveFails, TypeOK
<1>10. CASE UNCHANGED vars
  BY <1>10, SMT DEF vars
<1>11. QED
  BY <1>1, <1>2, <1>3, <1>4, <1>5, <1>6, <1>7, <1>8, <1>9, <1>10 DEF Next

(* The inductive invariant holds in every behaviour. *)
THEOREM Invariance == Spec => []IInv
<1>1. QED
  BY InitIInv, NextIInv, PTL DEF Spec

(* A push whose sender was told ok is never lost by a restart, a failed    *)
(* save or a later push.                                                   *)
THEOREM AcknowledgedKept == Spec => []AcknowledgedIsShown
<1>1. IInv => AcknowledgedIsShown
  BY DEF IInv, AckedStored, AcknowledgedIsShown
<1>2. QED
  BY <1>1, Invariance, PTL

(* The redirect of /api/torrent always finds its file. *)
THEOREM RedirectWorks == Spec => []RedirectResolves
<1>1. IInv => RedirectResolves
  BY DEF IInv
<1>2. QED
  BY <1>1, Invariance, PTL

-----------------------------------------------------------------------------
(* Nothing is shown yet. *)
LEMMA InitBoard == Init => Board!Init
BY DEF Init, Board!Init

(* Memory changes only at a start and at a commit, to something that       *)
(* follows what it was.                                                    *)
(* Start and Commit show what follows; the rest stutters. *)
LEMMA NextBoard == IInv /\ [Next]_vars => [Board!Next]_status
<1> SUFFICES ASSUME IInv, Next, status' # status PROVE Board!Next
  BY DEF vars, memory
<1> USE DEF Board!Next, Board!Show, files, memory, job
<1>1. CASE Start
  <2>1. status' = statusFile
    BY <1>1 DEF Start, StartWith
  <2>2. statusFile \in Push
    <3>1. status # NoStatus \/ statusFile # NoStatus
      BY <2>1
    <3>2. QED
      BY <3>1, SMT DEF IInv, TypeOK, StatusOrNone, FileAhead
  <2>3. QED
    BY <2>1, <2>2 DEF IInv, FileFollows
<1>2. CASE Commit
  BY <1>2 DEF Commit, IInv, TypeOK, SaveFollows
<1>3. ASSUME NEW p \in Push, Repeat(p) \/ Accept(p)
      PROVE  FALSE
  BY <1>3 DEF Repeat, Accept
<1>4. CASE Crash \/ SaveStatus \/ SaveTorrent \/ SaveNamed \/ SaveFails
  BY <1>4 DEF Crash, SaveStatus, SaveTorrent, SaveNamed, SaveFails
<1>5. QED
  BY <1>1, <1>2, <1>3, <1>4 DEF Next

(* The status API implements the board: its readers are never taken back,  *)
(* and a sequence keeps its snapshot.                                      *)
THEOREM ImplementsBoard == Spec => BoardSpec
<1>1. QED
  BY InitBoard, NextBoard, Invariance, PTL DEF Spec, BoardSpec, Board!Spec
=============================================================================
