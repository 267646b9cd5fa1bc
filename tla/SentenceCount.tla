---------------------------- MODULE SentenceCount ----------------------------
(***************************************************************************)
(* Storm-Projects, the reliable word count in its two variants: packages   *)
(* storm.topology and storm.trident1.test.  SentenceSpout keeps every      *)
(* sentence it emits until Storm acknowledges it, and emits it again when  *)
(* Storm reports a failure; SplitBolt splits it into words, CountBolt      *)
(* counts them and HBaseBolt stores the counts.                            *)
(*                                                                         *)
(* Storm is external.  Its acker knows which tuples anchored to the latest *)
(* emission of a sentence are still unacknowledged; it calls ack when none *)
(* is left, and fail when that takes too long or a bolt fails.  The tuples *)
(* of an emission that was given up go on through the bolts.               *)
(***************************************************************************)
EXTENDS Integers, Sequences, FiniteSets

CONSTANTS Messages,  \* the sentences the spout emits, by message id
          Sentence,  \* the words of each message
          MaxRetry   \* MAX_RETRY: 3 in storm.topology, 5 in storm.trident1.test

ASSUME RetryAssumption == MaxRetry \in Nat

ASSUME SentenceAssumption ==
  /\ IsFiniteSet(Messages)
  /\ \A m \in Messages : Len(Sentence[m]) \in Nat

VARIABLES
  variant,     \* the package the topology is built from
  tuples,      \* SentenceSpout.tuples: the messages that may be replayed
  retries,     \* SentenceSpout.retries; 0 stands for no entry
  tries,       \* emissions of each message so far
  pending,     \* messages the acker is tracking
  flight,      \* tuples on their way to a bolt
  unacked,     \* tuples anchored to an emission and not acknowledged
  wordcounts,  \* CountBolt.wordcounts
  acked        \* history: messages acknowledged

spoutVars == <<tuples, retries, tries, pending, acked>>
boltVars == <<flight, unacked, wordcounts>>
vars == <<variant, spoutVars, boltVars>>

(* What CountBolt.execute and SentenceSpout.fail do in one package only. *)
CountAcks == variant = "trident1.test"
ForgetsRetries == variant = "trident1.test"

(* A word of a sentence: its message and its place in the sentence.        *)
Positions == UNION {{m} \X (1 .. Len(Sentence[m])) : m \in Messages}
WordAt(p) == Sentence[p[1]][p[2]]

Words == {WordAt(p) : p \in Positions}

(* A tuple: the emission it belongs to, its place in the sentence, the     *)
(* bolt it is going to and, on the way to HBase, the word whose count it   *)
(* is.                                                                     *)
SentenceTuple(m, n) ==
  [msg |-> m, try |-> n, pos |-> 0, bolt |-> "split", of |-> ""]
WordTuple(x, i) == [x EXCEPT !.pos = i, !.bolt = "count"]
CountTuple(x, w) == [x EXCEPT !.bolt = "hbase", !.of = w]

Init ==
  /\ variant \in {"topology", "trident1.test"}
  /\ tuples = {} /\ pending = {} /\ acked = {}
  /\ retries = [m \in Messages |-> 0]
  /\ tries = [m \in Messages |-> 0]
  /\ flight = {} /\ unacked = {}
  /\ wordcounts = [w \in Words |-> 0]

(* collector.emit(values, msgId) of the spout. *)
Emit(m) ==
  LET x == SentenceTuple(m, tries[m] + 1) IN
  /\ tries' = [tries EXCEPT ![m] = @ + 1]
  /\ pending' = pending \cup {m}
  /\ flight' = flight \cup {x}
  /\ unacked' = unacked \cup {x}

NextTuple(m) ==
  /\ tries[m] = 0
  /\ Emit(m)
  /\ tuples' = tuples \cup {m}
  /\ UNCHANGED <<variant, retries, wordcounts, acked>>

(* SplitBolt.execute: one tuple per word, anchored to the sentence, which  *)
(* is then acknowledged.                                                   *)
Unanchored(out) == {}                  \* mutant: collector.emit(new Values(word))
Anchored(out) == out

Split(x) ==
  LET out == {WordTuple(x, i) : i \in 1 .. Len(Sentence[x.msg])} IN
  /\ x \in flight /\ x.bolt = "split"
  /\ flight' = (flight \ {x}) \cup out
  /\ unacked' = (unacked \ {x}) \cup Anchored(out)
  /\ UNCHANGED <<variant, spoutVars, wordcounts>>

(* CountBolt.execute: count the word, emit the counts anchored to the      *)
(* input, and, in one variant, acknowledge it.                             *)
AddedTwice(n) == n + 2                 \* mutant: counts += 1 in two places
Added(n) == n + 1

Count(x) ==
  /\ x \in flight /\ x.bolt = "count"
  /\ wordcounts' = [wordcounts EXCEPT ![WordAt(<<x.msg, x.pos>>)] = Added(@)]
  /\ LET out == {CountTuple(x, w) : w \in {v \in Words : wordcounts'[v] > 0}} IN
     /\ flight' = (flight \ {x}) \cup out
     /\ unacked' = (unacked \ (IF CountAcks THEN {x} ELSE {})) \cup out
  /\ UNCHANGED <<variant, spoutVars>>

(* HBaseBolt stores the counts and acknowledges. *)
Store(x) ==
  /\ x \in flight /\ x.bolt = "hbase"
  /\ flight' = flight \ {x}
  /\ unacked' = unacked \ {x}
  /\ UNCHANGED <<variant, spoutVars, wordcounts>>

LatestTry(x) == x.try = tries[x.msg]

(* SentenceSpout.ack: no tuple of the latest emission is unacknowledged.   *)
Ack(m) ==
  /\ m \in pending
  /\ ~\E x \in unacked : x.msg = m /\ LatestTry(x)
  /\ pending' = pending \ {m}
  /\ tuples' = tuples \ {m}
  /\ acked' = acked \cup {m}
  /\ UNCHANGED <<variant, retries, tries, boltVars>>

(* SentenceSpout.fail: emit the sentence again, or give it up.             *)
NeverExhausted(m) == FALSE             \* mutant: the limit is not checked
Exhausted(m) == retries[m] > MaxRetry

KeptInCache(m) == tuples               \* mutant: tuples.remove is missing
CacheWithout(m) == tuples \ {m}

DroppedFirst(m) == tuples \ {m}        \* mutant: removed on every failure
CacheOnRetry(m) == tuples

Replay(m) ==
  /\ m \in pending /\ ~Exhausted(m)
  /\ tuples' = CacheOnRetry(m)
  /\ retries' = [retries EXCEPT ![m] = @ + 1]
  /\ Emit(m)
  /\ UNCHANGED <<variant, wordcounts, acked>>

GiveUp(m) ==
  /\ m \in pending /\ Exhausted(m)
  /\ pending' = pending \ {m}
  /\ tuples' = CacheWithout(m)
  /\ retries' = IF ForgetsRetries THEN [retries EXCEPT ![m] = 0] ELSE retries
  /\ UNCHANGED <<variant, tries, acked, boltVars>>

Fail(m) == Replay(m) \/ GiveUp(m)

Next ==
  \/ \E m \in Messages : NextTuple(m) \/ Ack(m) \/ Fail(m)
  \/ \E x \in flight : Split(x) \/ Count(x) \/ Store(x)

Spec == Init /\ [][Next]_vars

(* Storm reports every emission as acknowledged or, after 30 seconds       *)
(* (setMessageTimeoutSecs), as failed.                                     *)
Fairness == \A m \in Messages : WF_vars(Ack(m) \/ Fail(m))

FairSpec == Spec /\ Fairness
-----------------------------------------------------------------------------
(* Where the word w stands in the sentences of S. *)
Occurrences(S, w) == {p \in Positions : p[1] \in S /\ WordAt(p) = w}

Tuples ==
  [msg : Messages, try : 1 .. MaxRetry + 2, pos : Nat,
   bolt : {"split", "count", "hbase"}, of : Words \cup {""}]

(* Type invariant: among others, no message is retried more often than     *)
(* MAX_RETRY + 1 times.                                                    *)
TypeOK ==
  /\ variant \in {"topology", "trident1.test"}
  /\ tuples \subseteq Messages /\ pending \subseteq Messages
  /\ retries \in [Messages -> 0 .. MaxRetry + 1]
  /\ tries \in [Messages -> 0 .. MaxRetry + 2]
  /\ flight \subseteq Tuples /\ unacked \subseteq Tuples
  /\ wordcounts \in [Words -> Nat]
  /\ acked \subseteq Messages

(* At least once: every word of an acknowledged sentence has been counted, *)
(* whichever emissions the counts came from and however late.              *)
AckedMeansCounted ==
  \A w \in Words : wordcounts[w] >= Cardinality(Occurrences(acked, w))

(* At most MAX_RETRY + 2 times: late tuples of abandoned emissions do not  *)
(* make a word count more often than the sentence was emitted.             *)
CountsBounded ==
  \A w \in Words :
    wordcounts[w] <= (MaxRetry + 2) * Cardinality(Occurrences(Messages, w))

(* A message can be replayed as long as Storm may report its failure:      *)
(* fail finds the values it emits again.                                   *)
ReplayHasValues == pending \subseteq tuples

(* A sentence is dropped from the cache without having been acknowledged   *)
(* only after all its retries.                                             *)
NotDroppedEarly ==
  [][\A m \in tuples \ tuples' : m \in acked' \/ tries[m] = MaxRetry + 2]_vars

(* The cache does not grow for ever: every sentence leaves it.             *)
EveryTupleLeavesCache == \A m \in Messages : m \in tuples ~> m \notin tuples
=============================================================================
