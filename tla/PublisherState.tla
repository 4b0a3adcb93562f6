---------------------------- MODULE PublisherState ----------------------------
(***************************************************************************)
(* publisher_state.json between its two writers: the long-lived seeder,    *)
(* which replaces the file once it has verified a publication              *)
(* (producer/seeder.py), and the publication an operator makes by hand     *)
(* (producer.cli publish without --defer-dht-publish, producer/publish.py), *)
(* which reads the file when it begins and writes it in place when it      *)
(* ends, some minutes later.  Both publish one mutable item under one key. *)
(*                                                                         *)
(* SnapshotProducer has the seeder with its other files and its deaths,    *)
(* without a second publisher.                                             *)
(***************************************************************************)
EXTENDS Naturals, FiniteSetsExt

CONSTANTS
  Hash,      \* the torrents published
  NoHash,    \* the empty last_info_hash of a new file
  Empty,     \* a file that has been truncated: json.load refuses it
  Attempts,  \* DHT_PUBLISH_ATTEMPTS
  Runs,      \* publications by hand (a bound)
  Reloads,   \* new torrents the seeder loads (a bound)
  MaxSeq,    \* the DHT sequences explored (a bound)
  MaxDeaths  \* publications by hand that are killed (a bound)

ASSUME PublisherHashAssumption == NoHash \notin Hash
ASSUME PublisherBounds == {Runs, Reloads, MaxSeq, MaxDeaths} \subseteq Nat
ASSUME AttemptsAssumption == Attempts \in Nat \ {0}

VARIABLES
  file,      \* [rev, hash, seq]: last_seq, last_info_hash, last_dht_seq
  net,       \* the mutable items the DHT's nodes hold
  at,        \* where each publisher is
  hash,      \* the torrent it publishes
  rev,       \* the revision it will write
  put,       \* the sequence its put was signed with
  completed, \* the sequence of the put that completed, 0 for none
  found,     \* the sequence its read-back has found
  attempt,   \* the attempt of the publication by hand
  detached,  \* whether the file it has opened was replaced since
  runs, reloads, deaths

publisherVars == <<at, hash, rev, put, completed, found>>
bounds == <<runs, reloads, deaths>>
vars == <<file, net, publisherVars, attempt, detached, bounds>>

Publisher == {"seeder", "cli"}
Items == [seq : 1 .. MaxSeq, hash : Hash]
NewFile == [rev |-> 0, hash |-> NoHash, seq |-> 0]
File == [rev : Nat, hash : Hash \cup {NoHash}, seq : 0 .. MaxSeq]
ASSUME EmptyAssumption == Empty \notin File
Labels == {"rest", "lookup", "put", "readback", "read", "replace", "open", "write"}

(* Every attribute holds a value of its kind; only the seeder replaces the *)
(* file and only the other opens it, which one truncation and one writer   *)
(* go with.                                                                *)
TypeOK ==
  /\ file \in File \cup {Empty}
  /\ net \subseteq Items
  /\ at \in [Publisher -> Labels]
  /\ hash \in [Publisher -> Hash]
  /\ rev \in [Publisher -> Nat]
  /\ {put, completed, found} \subseteq [Publisher -> 0 .. MaxSeq]
  /\ attempt \in 0 .. Attempts
  /\ detached \in BOOLEAN
  /\ runs \in 0 .. Runs /\ reloads \in 0 .. Reloads /\ deaths \in 0 .. MaxDeaths
  /\ at["seeder"] \notin {"open", "write"} /\ at["cli"] \notin {"read", "replace"}
  /\ file = Empty => deaths > 0 \/ (at["cli"] = "write" /\ ~detached)

Init ==
  /\ file = NewFile /\ net = {}
  /\ at = [p \in Publisher |-> "rest"]
  /\ hash \in [Publisher -> Hash]
  /\ rev = [p \in Publisher |-> 0]
  /\ put = [p \in Publisher |-> 0] /\ completed = put /\ found = put
  /\ attempt = 0 /\ detached = FALSE
  /\ runs = 0 /\ reloads = 0 /\ deaths = 0

-----------------------------------------------------------------------------
Go(p, from, to) == at[p] = from /\ at' = [at EXCEPT ![p] = to]

Highest == IF net = {} THEN 0 ELSE Max({i.seq : i \in net})

(* The bound on sequences leaves the last for the seeder, when nobody else *)
(* publishes any more.                                                     *)
Spare == Highest + 1 < MaxSeq
Last == at["cli"] = "rest" /\ Highest < MaxSeq

(* What one lookup finds: any sequence the nodes hold, or none. *)
Found == {0} \cup {i.seq : i \in net}

(* The put looks the item up and signs the next sequence of what it finds: *)
(* the seeder in its helper, the publication by hand in libtorrent.        *)
LookUp(p) ==
  /\ Spare \/ (p = "seeder" /\ Last)
  /\ Go(p, "lookup", "put")
  /\ \E seq \in Found : put' = [put EXCEPT ![p] = seq + 1]
  /\ completed' = [completed EXCEPT ![p] = 0]
  /\ UNCHANGED <<file, net, hash, rev, found, attempt, detached, bounds>>

Item(p) == [seq |-> put[p], hash |-> hash[p]]

(* The put completes; no node need have taken it. *)
Complete(p) ==
  /\ Go(p, "put", "readback")
  /\ net' \in {net, net \cup {Item(p)}}
  /\ completed' = [completed EXCEPT ![p] = put[p]]
  /\ UNCHANGED <<file, hash, rev, put, found, attempt, detached, bounds>>

(* It does not, though nodes may have taken the item: the seeder's helper  *)
(* fails, and the publication by hand reads the item all the same.         *)
Unanswered(p) ==
  /\ Spare
  /\ Go(p, "put", IF p = "seeder" THEN "rest" ELSE "readback")
  /\ net' \in {net, net \cup {Item(p)}}
  /\ UNCHANGED <<file, hash, rev, put, completed, found, attempt, detached, bounds>>

(* Mutant of ReadBack: any item that verifies will do. *)
ReadBackOfAny(p) ==
  /\ Go(p, "readback", IF p = "seeder" THEN "read" ELSE "open")
  /\ \E i \in net : i.seq >= completed[p] /\ found' = [found EXCEPT ![p] = i.seq]
  /\ UNCHANGED <<file, net, hash, rev, put, completed, attempt, detached, bounds>>

(* A lookup finds the exact hash, not below a put that completed. *)
ReadBack(p) ==
  /\ Go(p, "readback", IF p = "seeder" THEN "read" ELSE "open")
  /\ \E i \in net : /\ i.hash = hash[p] /\ i.seq >= completed[p]
                    /\ found' = [found EXCEPT ![p] = i.seq]
  /\ UNCHANGED <<file, net, hash, rev, put, completed, attempt, detached, bounds>>

-----------------------------------------------------------------------------
(* The seeder. *)

(* It loads a torrent, by SIGHUP, and publishes it. *)
Reload ==
  /\ Spare /\ reloads < Reloads
  /\ Go("seeder", "rest", "lookup")
  /\ \E h \in Hash : hash' = [hash EXCEPT !["seeder"] = h]
  /\ reloads' = reloads + 1
  /\ UNCHANGED <<file, net, rev, put, completed, found, attempt, detached, runs, deaths>>

(* Mutant of Republish: a torrent the file names is not published again. *)
RepublishUnrecorded ==
  /\ Spare \/ Last
  /\ file # Empty => file.hash # hash["seeder"]
  /\ Go("seeder", "rest", "lookup")
  /\ UNCHANGED <<file, net, hash, rev, put, completed, found, attempt, detached, bounds>>

(* The republish or the retry interval has passed. *)
Republish ==
  /\ Spare \/ Last
  /\ Go("seeder", "rest", "lookup")
  /\ UNCHANGED <<file, net, hash, rev, put, completed, found, attempt, detached, bounds>>

(* The read-back fails: the put is not repeated before the retry interval. *)
GiveUp ==
  /\ Highest < MaxSeq
  /\ Go("seeder", "readback", "rest")
  /\ UNCHANGED <<file, net, hash, rev, put, completed, found, attempt, detached, bounds>>

(* The revision counts distinct torrents. *)
Revision == IF file.hash = hash["seeder"] THEN file.rev ELSE file.rev + 1

(* _record_verified_publication reads the file. *)
Read ==
  /\ file # Empty
  /\ Go("seeder", "read", "replace")
  /\ rev' = [rev EXCEPT !["seeder"] = Revision]
  /\ UNCHANGED <<file, net, hash, put, completed, found, attempt, detached, bounds>>

(* It cannot: the publication counts as failed. *)
ReadFails ==
  /\ file = Empty
  /\ Go("seeder", "read", "rest")
  /\ UNCHANGED <<file, net, hash, rev, put, completed, found, attempt, detached, bounds>>

Record(p) == [rev |-> rev[p], hash |-> hash[p], seq |-> found[p]]

(* os.replace puts a new file in the place of the old one, which another   *)
(* process may have open.                                                  *)
Replace ==
  /\ Go("seeder", "replace", "rest")
  /\ file' = Record("seeder")
  /\ detached' = (at["cli"] = "write")
  /\ UNCHANGED <<net, hash, rev, put, completed, found, attempt, bounds>>

-----------------------------------------------------------------------------
(* The publication by hand. *)

(* cmd_publish makes the torrent; publish_to_dht loads the file. *)
Publish ==
  /\ Spare /\ runs < Runs /\ file # Empty
  /\ Go("cli", "rest", "lookup")
  /\ \E h \in Hash : hash' = [hash EXCEPT !["cli"] = h]
  /\ rev' = [rev EXCEPT !["cli"] = file.rev + 1]
  /\ attempt' = 1 /\ runs' = runs + 1
  /\ UNCHANGED <<file, net, put, completed, found, detached, reloads, deaths>>

(* Mutant of TryAgain: the attempts are not counted. *)
TryAgainAlways ==
  /\ completed["cli"] = 0
  /\ Go("cli", "readback", "lookup")
  /\ attempt' = attempt + 1
  /\ UNCHANGED <<file, net, hash, rev, put, completed, found, detached, bounds>>

(* The read-back fails; only a put that did not complete is repeated. *)
TryAgain ==
  /\ completed["cli"] = 0 /\ attempt < Attempts
  /\ Go("cli", "readback", "lookup")
  /\ attempt' = attempt + 1
  /\ UNCHANGED <<file, net, hash, rev, put, completed, found, detached, bounds>>

(* No bootstrap, or PublishError after the last attempt (or the bound on   *)
(* sequences is reached).                                                  *)
Fail ==
  /\ \/ Go("cli", "lookup", "rest") /\ attempt = 1
     \/ Go("cli", "lookup", "rest") /\ ~Spare
     \/ Go("cli", "readback", "rest") /\ (completed["cli"] # 0 \/ attempt = Attempts)
  /\ attempt' = 0
  /\ UNCHANGED <<file, net, hash, rev, put, completed, found, detached, bounds>>

(* save_state opens the file, which truncates it, *)
Open ==
  /\ Go("cli", "open", "write")
  /\ file' = Empty /\ detached' = FALSE
  /\ UNCHANGED <<net, hash, rev, put, completed, found, attempt, bounds>>

(* and writes the file that it has opened. *)
Write ==
  /\ Go("cli", "write", "rest")
  /\ file' = IF detached THEN file ELSE Record("cli")
  /\ attempt' = 0 /\ detached' = FALSE
  /\ UNCHANGED <<net, hash, rev, put, completed, found, bounds>>

Killed ==
  /\ at["cli"] # "rest" /\ deaths < MaxDeaths
  /\ at' = [at EXCEPT !["cli"] = "rest"]
  /\ deaths' = deaths + 1
  /\ attempt' = 0 /\ detached' = FALSE
  /\ UNCHANGED <<file, net, hash, rev, put, completed, found, runs, reloads>>

-----------------------------------------------------------------------------
Step(p) == LookUp(p) \/ Complete(p) \/ Unanswered(p) \/ ReadBack(p)
SeederNext == Step("seeder") \/ Reload \/ Republish \/ GiveUp \/ Read \/ ReadFails \/ Replace
CliNext == Step("cli") \/ TryAgain \/ Fail \/ Open \/ Write

Next == SeederNext \/ CliNext \/ Publish \/ Killed

Spec == Init /\ [][Next]_vars

(* Both processes run on, and a publication the seeder tries again and     *)
(* again succeeds in the end: its lookup finds the highest item, nodes     *)
(* take its put, and the read-back finds that.                             *)
LookUpHighest == LookUp("seeder") /\ put'["seeder"] = Highest + 1
TakenPut == Complete("seeder") /\ put["seeder"] > Highest /\ net' # net
ReadBackHighest == ReadBack("seeder") /\ found'["seeder"] = Highest
Fairness ==
  /\ WF_vars(SeederNext) /\ WF_vars(CliNext)
  /\ SF_vars(LookUpHighest) /\ SF_vars(TakenPut) /\ SF_vars(ReadBackHighest)

FairSpec == Spec /\ Fairness

-----------------------------------------------------------------------------
(* Whoever wrote the file, and whatever the other did meanwhile, it names  *)
(* an item the DHT has held ("The seeder updates publisher_state.json only *)
(* after authoritative verification", docs/producer-guide.md:354-355).     *)
RecordedWasHeld ==
  file \notin {Empty, NewFile} => [seq |-> file.seq, hash |-> file.hash] \in net

(* Two publishers may sign one sequence for two torrents, and the slower   *)
(* may write an older one over the newer; but the seeder comes back to     *)
(* it, and the file names its torrent, at the highest sequence there is,   *)
(* which nothing else has.  (Unless a publication was killed while it      *)
(* saved, which DashboardKeptCurrent is about.)                            *)
CutSave == file = Empty /\ at["cli"] # "write"
SeederPrevails ==
  []<>(\/ CutSave
       \/ /\ file # Empty
          /\ file.hash = hash["seeder"] /\ file.seq = Highest
          /\ \A i \in net : i.seq = Highest => i.hash = hash["seeder"])

(* The file can be read again and again, which the seeder has to before    *)
(* it records, and the push before it sends ("the hourly status-push timer *)
(* keeps the dashboard current", docs/producer-guide.md:352-353).          *)
DashboardKeptCurrent == []<>(file # Empty)

(* The file never goes back to an older sequence ("so the dashboard cannot *)
(* be advanced by a separate short-lived publisher race",                  *)
(* docs/producer-guide.md:355-356).                                        *)
NoPublisherRace ==
  [][file # Empty /\ file' # Empty => file'.seq >= file.seq]_file
=============================================================================
