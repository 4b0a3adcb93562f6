------------------------------ MODULE DhtLookup ------------------------------
(***************************************************************************)
(* How a mirror looks the producer's record up (mirror/dht_discovery.py,   *)
(* with the alert list of mirror/libtorrent_session.py): the discovering   *)
(* thread asks libtorrent, libtorrent posts an alert for every response    *)
(* and an authoritative one at the end, the alert thread copies them into  *)
(* self._alerts, and the discovering thread takes them from there until it *)
(* has an authoritative one or runs out of time.  A request that was given *)
(* up is not cancelled: its alerts may still come.                         *)
(*                                                                         *)
(* The order of the list plays no part (the caller takes all that match    *)
(* and selects by sequence), nor does it matter which alert is the         *)
(* authoritative one: self._alerts is the set of the items in it and       *)
(* whether one of its alerts is authoritative.  Of the DHT's nodes the     *)
(* model knows what bounds their responses: the highest sequence that one  *)
(* of them holds and the one that all of them have reached.                *)
(***************************************************************************)
EXTENDS Naturals

CONSTANTS
  Hash,       \* v2 info hashes
  NoHash,     \* what a response without an item names
  Signed,     \* the items signed by the producer's key: [seq, hash]
  Unsigned,   \* items a node may return whose signature does not verify
  Attempts,   \* MAX_RETRIES
  MaxOpen,    \* requests under way at a time (a bound)
  MaxLate     \* requests answered too late or not heard (a bound)

NoItem == [seq |-> 0, hash |-> NoHash]

ASSUME LookupHashAssumption == NoHash \notin Hash
ASSUME ItemAssumption ==
  /\ Signed \subseteq [seq : Nat \ {0}, hash : Hash]
  /\ Unsigned \subseteq [seq : Nat \ {0}, hash : Hash]
  /\ Signed \cap Unsigned = {}
ASSUME AttemptAssumption == Attempts \in Nat \ {0}
ASSUME LookupBounds == MaxOpen \in Nat /\ MaxLate \in Nat

VARIABLES
  latest,     \* the highest sequence a node holds
  reached,    \* the sequence that every node has reached
  open,       \* how many requests are under way, by what was reached before
  alerts,     \* self._alerts: the items it holds
  ended,      \* self._alerts: whether it holds an authoritative alert
  caller,     \* where the discovering thread is
  attempt,    \* its attempt
  candidates, \* the items its lookup has taken from the list
  known,      \* min_sequence: the service's last_seq
  answer,     \* what the last discovery returned
  late,       \* requests not answered in time so far
  since       \* what was reached before the requests that may answer the lookup

worldVars  == <<latest, reached, open>>
callerVars == <<caller, attempt, candidates, known, answer>>
listVars == <<alerts, ended>>
vars == <<worldVars, listVars, callerVars, late, since>>

Items == Signed \cup Unsigned
Sequence == {0} \cup {i.seq : i \in Items}
CallerLabels == {"idle", "clear", "get", "wait", "judge"}

Underway == {s \in Sequence : open[s] > 0}

(* Every attribute holds a value of its kind, the nodes have reached what  *)
(* one of them holds, and a lookup begins without candidates.              *)
TypeOK ==
  /\ latest \in Sequence /\ reached \in Sequence /\ reached <= latest
  /\ open \in [Sequence -> Nat]
  /\ alerts \subseteq Items /\ candidates \subseteq Items /\ ended \in BOOLEAN
  /\ caller \in CallerLabels
  /\ attempt \in 1 .. Attempts
  /\ known \in Sequence
  /\ answer \in Signed \cup {NoItem}
  /\ late \in 0 .. MaxLate
  /\ since \subseteq Sequence
  /\ caller \in {"idle", "clear", "get"} => candidates = {}

(* The mirror may know any sequence it adopted earlier. *)
Init ==
  /\ latest = 0 /\ reached = 0
  /\ open = [s \in Sequence |-> 0]
  /\ alerts = {} /\ ended = FALSE
  /\ caller = "idle" /\ attempt = 1 /\ candidates = {}
  /\ known \in {0} \cup {i.seq : i \in Signed}
  /\ answer = NoItem
  /\ late = 0
  /\ since = {}

-----------------------------------------------------------------------------
(* The DHT and libtorrent, as far as the alerts can tell. *)

(* A put reaches a first node, and the others after it.  Sequences are     *)
(* monotonic per storage node (the docstring of lookup_dht_mutable_item);  *)
(* the nodes may disagree for as long as it takes.                         *)
Put(i) ==
  /\ i.seq > latest
  /\ latest' = i.seq
  /\ UNCHANGED <<reached, open, listVars, callerVars, late, since>>

Spread(s) ==
  /\ reached < s /\ s <= latest
  /\ reached' = s
  /\ UNCHANGED <<latest, open, listVars, callerVars, late, since>>

(* What a request made after `after` was reached may bring, however late.  *)
Response(after) ==
  {i \in Signed : after <= i.seq /\ i.seq <= latest} \cup Unsigned

(* An alert for a response, or the last one of the request, which may be   *)
(* older than an earlier one or without an item: libtorrent posts it, the  *)
(* alert thread pops it, copies it and extends the list under its lock.    *)
(* Until it has, the alert is on its way and nothing can clear it.         *)
AlertLoop(after, i, final) ==
  /\ after \in Underway /\ i \in Response(after) \cup {NoItem}
  /\ i = NoItem => final
  /\ alerts' = alerts \cup ({i} \cap Items)
  /\ ended' = (ended \/ final)
  /\ open' = IF final THEN [open EXCEPT ![after] = @ - 1] ELSE open
  /\ UNCHANGED <<latest, reached, callerVars, late, since>>

(* The last alert of a request is lost: libtorrent drops alerts when its   *)
(* queue is full, and every category of them is enabled.                   *)
DropFinal(after) ==
  /\ after \in Underway /\ late < MaxLate
  /\ open' = [open EXCEPT ![after] = @ - 1]
  /\ late' = late + 1
  /\ UNCHANGED <<latest, reached, listVars, callerVars, since>>

-----------------------------------------------------------------------------
(* The discovering thread. *)

(* discover_latest_snapshot is called with the sequence the service knows. *)
Ask ==
  /\ caller = "idle"
  /\ caller' = "clear" /\ attempt' = 1
  /\ UNCHANGED <<worldVars, listVars, candidates, known, answer, late, since>>

(* Mutant of ClearAlerts: what an earlier request left stays in the list.  *)
KeepAlerts ==
  /\ caller = "clear"
  /\ caller' = "get"
  /\ since' = Underway
  /\ UNCHANGED <<worldVars, listVars, attempt, candidates, known, answer, late>>

(* clear_alerts at the start of a lookup. *)
ClearAlerts ==
  /\ caller = "clear"
  /\ caller' = "get"
  /\ alerts' = {} /\ ended' = FALSE
  /\ since' = Underway
  /\ UNCHANGED <<worldVars, attempt, candidates, known, answer, late>>

(* dht_get_mutable_item: a new request. *)
Get ==
  /\ caller = "get"
  /\ \A s \in Sequence : open[s] < MaxOpen
  /\ caller' = "wait"
  /\ open' = [open EXCEPT ![reached] = @ + 1]
  /\ since' = since \cup {reached}
  /\ UNCHANGED <<latest, reached, listVars, attempt, candidates, known, answer, late>>

(* One turn of the wait loop: take all that match from the list; with an   *)
(* authoritative one among them the lookup returns its candidates.         *)
Collect ==
  /\ caller = "wait" /\ (alerts # {} \/ ended)
  /\ candidates' = candidates \cup alerts
  /\ alerts' = {} /\ ended' = FALSE
  /\ caller' = IF ended THEN "judge" ELSE "wait"
  /\ UNCHANGED <<worldVars, attempt, known, answer, late, since>>

(* Mutant of Retry: the candidates of the failed attempt stay.  *)
RetryKeepsCandidates ==
  IF attempt < Attempts
    THEN caller' = "clear" /\ attempt' = attempt + 1 /\ UNCHANGED <<answer, candidates>>
    ELSE caller' = "idle" /\ answer' = NoItem /\ UNCHANGED <<attempt, candidates>>

(* The next attempt after its backoff, or None after the last one. *)
Retry ==
  /\ candidates' = {}
  /\ IF attempt < Attempts
       THEN caller' = "clear" /\ attempt' = attempt + 1 /\ UNCHANGED answer
       ELSE caller' = "idle" /\ answer' = NoItem /\ UNCHANGED attempt

(* Nothing that could end the wait is on its way. *)
Unanswerable == Underway = {} /\ ~ended

(* Mutant of TimeOut: the deadline is looked at only when something came.  *)
TimeOutWithCandidates ==
  /\ caller = "wait" /\ candidates # {}
  /\ \/ Unanswerable /\ UNCHANGED late
     \/ ~Unanswerable /\ late < MaxLate /\ late' = late + 1
  /\ Retry
  /\ UNCHANGED <<worldVars, listVars, known, since>>

(* The deadline passes.  The next test of the loop gives up whatever is in *)
(* the list by then.                                                       *)
TimeOut ==
  /\ caller = "wait"
  /\ \/ Unanswerable /\ UNCHANGED late
     \/ ~Unanswerable /\ late < MaxLate /\ late' = late + 1
  /\ Retry
  /\ UNCHANGED <<worldVars, listVars, known, since>>

(* _process_mutable_item_snapshot: what remains of the candidates.         *)
Verified(C) == C \cap Signed

Highest(S) == {i \in S : \A j \in S : j.seq <= i.seq}

(* The highest verified candidates: one record, or several that conflict.  *)
Selected(C) == Highest(Verified(C))

(* Mutant of Acceptable: only what is new. *)
AcceptableIfNew(i) == i.seq > known

(* Mutant of Acceptable: no comparison with the stored sequence. *)
AcceptableAlways(i) == i.seq >= 0

(* result.sequence >= min_sequence *)
Acceptable(i) == i.seq >= known

(* The selection: a conflict between signed candidates, a stale one and a  *)
(* lookup without any are tried again; otherwise the service adopts the    *)
(* answer, which is not below what it knew.                                *)
Judge ==
  /\ caller = "judge"
  /\ LET best == Selected(candidates) IN
       IF \E i \in best : best = {i} /\ Acceptable(i)
         THEN /\ answer' = CHOOSE i \in best : TRUE
              /\ known' = answer'.seq
              /\ caller' = "idle" /\ candidates' = {}
              /\ UNCHANGED attempt
         ELSE Retry /\ UNCHANGED known
  /\ UNCHANGED <<worldVars, listVars, late, since>>

-----------------------------------------------------------------------------
CallerNext == Ask \/ ClearAlerts \/ Get \/ Collect \/ TimeOut \/ Judge

SessionNext ==
  \E after \in Sequence :
    \/ DropFinal(after)
    \/ \E i \in Items \cup {NoItem}, final \in BOOLEAN : AlertLoop(after, i, final)

WorldNext == (\E i \in Signed : Put(i)) \/ \E s \in Sequence : Spread(s)

Next == CallerNext \/ SessionNext \/ WorldNext

Spec == Init /\ [][Next]_vars

Newest == CHOOSE i \in Signed : \A j \in Signed : j.seq <= i.seq

(* The threads run, the newest item reaches every node, and of the         *)
(* traversals some end with an item that verifies.  The others may end     *)
(* without one: nothing is assumed of what a given lookup brings.          *)
Fairness ==
  /\ WF_vars(Ask \/ ClearAlerts \/ Get \/ Collect \/ Judge)
  /\ WF_vars(Unanswerable /\ TimeOut)
  /\ \A after \in Sequence :
       SF_vars(\E i \in Signed : AlertLoop(after, i, TRUE))
  /\ WF_vars(Put(Newest))
  /\ WF_vars(Spread(Newest.seq))

FairSpec == Spec /\ Fairness

-----------------------------------------------------------------------------
(* An answer is never older than what every node had reached before the    *)
(* oldest request whose alerts could still come when the lookup began: a   *)
(* lookup with no late request behind it sees the present, whatever        *)
(* earlier lookups left in the list (libtorrent_session.py:505).           *)
Answered == caller = "judge" /\ caller' = "idle" /\ answer' # NoItem
FreshAnswer == [][Answered => \E s \in since : s <= answer'.seq]_vars

(* A discovery gives what SnapshotLookup promises, which is all that       *)
(* MirrorWatcher assumes of it.                                            *)
Asking == caller # "idle"
Promise == INSTANCE SnapshotLookup WITH asking <- Asking
PromiseKept == Promise!Spec

(* Discovery is never stuck in a lookup. *)
DiscoveryReturns == Asking ~> ~Asking

(* Discovery gives the newest item again and again, which is what          *)
(* MirrorWatcher's liveness assumes of its lookups: although the item is   *)
(* not newer than what the service knows, nodes return items that do not   *)
(* verify and older items conflict.  A swarm mirror that is told nothing   *)
(* for too long exits (watcher.py:322-333).                                *)
NewestFound == []<>(caller = "idle" /\ answer = Newest)
=============================================================================
