------------------------- MODULE SentenceCountProofs -------------------------
(***************************************************************************)
(* Theorems about SentenceCount.  The invariant ties the three accounts    *)
(* that the topology keeps of an emission to one another: the spout's      *)
(* retries, the acker's tuples and the words already counted.              *)
(***************************************************************************)
EXTENDS SentenceCount, FiniteSetTheorems, TLAPS

(* The words w counted so far, each with the emission it came from: the    *)
(* sentence has been split and the tuple of the word has left the bolt.    *)
HasBeenCounted(n, p) ==
  /\ n <= tries[p[1]]
  /\ SentenceTuple(p[1], n) \notin flight
  /\ WordTuple(SentenceTuple(p[1], n), p[2]) \notin flight

Counted(w) ==
  {c \in (1 .. MaxRetry + 2) \X Occurrences(Messages, w) :
     HasBeenCounted(c[1], c[2])}

(* The spout's retries are one behind its emissions while the message is   *)
(* tracked, and a message not yet emitted has left no trace.               *)
RetryInv ==
  \A m \in Messages :
    /\ m \in pending => tries[m] = retries[m] + 1 /\ m \notin acked
    /\ tries[m] = 0 => /\ m \notin pending /\ m \notin acked
                       /\ retries[m] = 0

(* Tuples on their way belong to emissions made; a word's tuple is there   *)
(* only when its sentence has been split.                                  *)
FlightInv ==
  \A x \in flight :
    /\ x.try <= tries[x.msg]
    /\ x.bolt = "split" => x = SentenceTuple(x.msg, x.try)
    /\ x.bolt = "count" =>
         /\ <<x.msg, x.pos>> \in Positions
         /\ x = WordTuple(SentenceTuple(x.msg, x.try), x.pos)
         /\ SentenceTuple(x.msg, x.try) \notin flight

CountInv == \A w \in Words : wordcounts[w] = Cardinality(Counted(w))

AckInv ==
  \A p \in Positions : p[1] \in acked =>
    tries[p[1]] > 0 /\ HasBeenCounted(tries[p[1]], p)

Basics ==
  TypeOK /\ ReplayHasValues /\ RetryInv /\ FlightInv /\ flight \subseteq unacked

IInv == Basics /\ CountInv /\ AckInv

LEMMA PositionFacts ==
  ASSUME NEW p \in Positions
  PROVE  /\ p[1] \in Messages /\ p[2] \in 1 .. Len(Sentence[p[1]]) /\ p[2] \in Nat
         /\ p = <<p[1], p[2]>> /\ WordAt(p) \in Words
BY SentenceAssumption DEF Positions, Words

LEMMA PositionsFinite == IsFiniteSet(Positions)
<1> DEFINE Of(m) == {m} \X (1 .. Len(Sentence[m]))
           T == {Of(m) : m \in Messages}
           g == [m \in Messages |-> Of(m)]
<1>1. g \in Surjection(Messages, T)
  BY DEF Surjection
<1>2. IsFiniteSet(T)
  BY <1>1, FS_Surjection, SentenceAssumption
<1>3. ASSUME NEW m \in Messages PROVE IsFiniteSet(Of(m))
  <2>1. IsFiniteSet({m})
    BY FS_Singleton
  <2>2. IsFiniteSet(1 .. Len(Sentence[m]))
    BY SentenceAssumption, FS_Interval
  <2>3. QED
    BY <2>1, <2>2, FS_Product
<1>4. \A U \in T : IsFiniteSet(U)
  BY <1>3
<1>5. IsFiniteSet(UNION T)
  BY <1>2, <1>4, FS_UNION
<1>6. QED
  BY <1>5 DEF Positions

(* There are never more counted words than emissions of words. *)
LEMMA CountedFinite ==
  ASSUME NEW w
  PROVE  /\ IsFiniteSet(Occurrences(Messages, w)) /\ IsFiniteSet(Counted(w))
         /\ Cardinality(Counted(w)) <=
              (MaxRetry + 2) * Cardinality(Occurrences(Messages, w))
<1> DEFINE O == Occurrences(Messages, w)
           N == 1 .. MaxRetry + 2
<1>1. IsFiniteSet(O)
  BY PositionsFinite, FS_Subset DEF Occurrences
<1>2. IsFiniteSet(N) /\ Cardinality(N) = MaxRetry + 2
  BY RetryAssumption, FS_Interval
<1>3. IsFiniteSet(N \X O) /\ Cardinality(N \X O) = (MaxRetry + 2) * Cardinality(O)
  BY <1>1, <1>2, FS_Product
<1>4. Counted(w) \in SUBSET (N \X O)
  BY DEF Counted
<1>5. QED
  BY <1>1, <1>3, <1>4, FS_Subset

-----------------------------------------------------------------------------
(* Initially *)

LEMMA InitIInv == Init => IInv
<1> SUFFICES ASSUME Init PROVE IInv
  OBVIOUS
<1> USE RetryAssumption
<1>1. TypeOK
  BY DEF Init, TypeOK
<1>2. ReplayHasValues /\ RetryInv /\ FlightInv /\ flight \subseteq unacked
  BY DEF Init, ReplayHasValues, RetryInv, FlightInv
<1>3. CountInv
  <2> SUFFICES ASSUME NEW w \in Words PROVE wordcounts[w] = Cardinality(Counted(w))
    BY DEF CountInv
  <2>1. \A c \in Counted(w) : FALSE
    BY PositionFacts DEF Counted, Occurrences, HasBeenCounted, Init
  <2>2. Counted(w) = {}
    BY <2>1
  <2>3. QED
    BY <2>2, FS_EmptySet DEF Init
<1>4. AckInv
  BY DEF Init, AckInv
<1>5. QED
  BY <1>1, <1>2, <1>3, <1>4 DEF IInv, Basics

-----------------------------------------------------------------------------
(* Steps that count no word leave the account of counted words alone.      *)

LEMMA NothingCounted ==
  ASSUME IInv, UNCHANGED wordcounts,
         \A p \in Positions, n \in 1 .. MaxRetry + 2 :
           HasBeenCounted(n, p)' <=> HasBeenCounted(n, p)
  PROVE  CountInv'
<1> SUFFICES ASSUME NEW w \in Words PROVE wordcounts'[w] = Cardinality(Counted(w)')
  BY DEF CountInv
<1>1. Counted(w)' = Counted(w)
  BY DEF Counted, Occurrences
<1>2. QED
  BY <1>1 DEF IInv, CountInv

LEMMA SentenceTupleFacts ==
  ASSUME NEW m \in Messages, NEW n \in 1 .. MaxRetry + 2
  PROVE  /\ SentenceTuple(m, n) \in Tuples
         /\ SentenceTuple(m, n).msg = m /\ SentenceTuple(m, n).try = n
         /\ SentenceTuple(m, n).bolt = "split"
<1> DEFINE W == Words \cup {""}
           B == {"split", "count", "hbase"}
           N == 1 .. MaxRetry + 2
<1>1. SentenceTuple(m, n) \in [msg : Messages, try : N, pos : Nat, bolt : B, of : W]
  <2>1. "" \in W /\ "split" \in B /\ 0 \in Nat
    OBVIOUS
  <2> HIDE DEF W, B, N
  <2>2. QED
    BY <2>1 DEF SentenceTuple, N
<1>2. QED
  BY <1>1 DEF Tuples, SentenceTuple

(* What emitting does to the invariant. *)
LEMMA EmitKeeps ==
  ASSUME IInv, NEW m \in Messages, Emit(m), tries[m] < MaxRetry + 2
  PROVE  /\ tries' \in [Messages -> 0 .. MaxRetry + 2]
         /\ pending' \subseteq Messages
         /\ flight' \subseteq Tuples /\ unacked' \subseteq Tuples
         /\ FlightInv' /\ flight' \subseteq unacked'
         /\ \A p \in Positions, n \in 1 .. MaxRetry + 2 :
              HasBeenCounted(n, p)' <=> HasBeenCounted(n, p)
<1> USE RetryAssumption DEF Emit
<1> DEFINE x == SentenceTuple(m, tries[m] + 1)
<1>1. /\ TypeOK /\ FlightInv /\ flight \subseteq unacked
      /\ tries \in [Messages -> 0 .. MaxRetry + 2] /\ flight \subseteq Tuples
  BY DEF IInv, Basics, TypeOK
<1>2. /\ tries' \in [Messages -> 0 .. MaxRetry + 2] /\ pending' \subseteq Messages
      /\ tries'[m] = tries[m] + 1 /\ \A q \in Messages \ {m} : tries'[q] = tries[q]
  BY <1>1 DEF TypeOK
<1>3. x \in Tuples /\ x.msg = m /\ x.try = tries[m] + 1 /\ x.bolt = "split"
  BY <1>1, SentenceTupleFacts
<1>4. flight' \subseteq Tuples /\ unacked' \subseteq Tuples /\ flight' \subseteq unacked'
  BY <1>1, <1>3 DEF TypeOK
<1>5. FlightInv'
  <2> SUFFICES ASSUME NEW y \in flight'
               PROVE  /\ y.try <= tries'[y.msg]
                      /\ y.bolt = "split" => y = SentenceTuple(y.msg, y.try)
                      /\ y.bolt = "count" =>
                           /\ <<y.msg, y.pos>> \in Positions
                           /\ y = WordTuple(SentenceTuple(y.msg, y.try), y.pos)
                           /\ SentenceTuple(y.msg, y.try) \notin flight'
    BY DEF FlightInv
  <2>1. CASE y = x
    BY <2>1, <1>1, <1>2, <1>3
  <2>2. CASE y \in flight
    <3>1. y \in Tuples /\ y.msg \in Messages /\ y.try \in 1 .. MaxRetry + 2
      BY <2>2, <1>1 DEF Tuples
    <3>2. y.try <= tries[y.msg]
      BY <2>2, <1>1 DEF FlightInv
    <3>3. y.try <= tries'[y.msg]
      BY <3>1, <3>2, <1>1, <1>2
    <3>4. SentenceTuple(y.msg, y.try) # x
      <4>1. /\ SentenceTuple(y.msg, y.try).msg = y.msg
            /\ SentenceTuple(y.msg, y.try).try = y.try
        BY DEF SentenceTuple
      <4>2. QED
        BY <4>1, <3>1, <3>2, <1>1, <1>3
    <3>5. QED
      BY <3>3, <3>4, <2>2, <1>1 DEF FlightInv
  <2>3. QED
    BY <2>1, <2>2
<1>6. ASSUME NEW p \in Positions, NEW n \in 1 .. MaxRetry + 2
      PROVE  HasBeenCounted(n, p)' <=> HasBeenCounted(n, p)
  <2>1. p[1] \in Messages /\ tries[p[1]] \in 0 .. MaxRetry + 2
    BY PositionFacts, <1>1
  <2>2. WordTuple(SentenceTuple(p[1], n), p[2]) # x
    BY DEF WordTuple, SentenceTuple
  <2>3. SentenceTuple(p[1], n) = x <=> p[1] = m /\ n = tries[m] + 1
    BY DEF SentenceTuple
  <2>4. CASE p[1] = m /\ n = tries[m] + 1
    BY <2>4, <2>1, <2>3 DEF HasBeenCounted
  <2>5. CASE ~(p[1] = m /\ n = tries[m] + 1)
    <3>1. n <= tries'[p[1]] <=> n <= tries[p[1]]
      BY <2>5, <2>1, <1>2
    <3>2. QED
      BY <3>1, <2>2, <2>3, <2>5 DEF HasBeenCounted
  <2>6. QED
    BY <2>4, <2>5
<1>7. QED
  BY <1>2, <1>4, <1>5, <1>6

(* Steps of the spout keep the words counted, and so does the              *)
(* acknowledgement of sentences already acknowledged.                      *)
LEMMA AckedStaysCounted ==
  ASSUME IInv, TypeOK', acked' = acked,
         \A m \in acked : tries'[m] = tries[m],
         \A p \in Positions, n \in 1 .. MaxRetry + 2 :
           HasBeenCounted(n, p) => HasBeenCounted(n, p)'
  PROVE  AckInv'
<1> SUFFICES ASSUME NEW p \in Positions, p[1] \in acked
             PROVE  tries'[p[1]] > 0 /\ HasBeenCounted(tries[p[1]], p)'
  BY DEF AckInv
<1>1. p[1] \in Messages /\ tries[p[1]] \in 0 .. MaxRetry + 2
  BY PositionFacts DEF IInv, Basics, TypeOK
<1>2. tries[p[1]] > 0 /\ HasBeenCounted(tries[p[1]], p)
  BY DEF IInv, AckInv
<1>3. QED
  BY <1>1, <1>2, RetryAssumption

-----------------------------------------------------------------------------
(* The spout *)

LEMMA NextTupleKeeps ==
  ASSUME IInv, NEW m \in Messages, NextTuple(m)
  PROVE  IInv'
<1> USE RetryAssumption DEF NextTuple
<1>1. TypeOK /\ RetryInv /\ ReplayHasValues
  BY DEF IInv, Basics
<1>2. tries[m] < MaxRetry + 2
  OBVIOUS
<1>3. /\ tries' \in [Messages -> 0 .. MaxRetry + 2]
      /\ pending' \subseteq Messages
      /\ flight' \subseteq Tuples /\ unacked' \subseteq Tuples
      /\ FlightInv' /\ flight' \subseteq unacked'
      /\ \A p \in Positions, n \in 1 .. MaxRetry + 2 :
           HasBeenCounted(n, p)' <=> HasBeenCounted(n, p)
  BY <1>2, EmitKeeps
<1>4. TypeOK'
  BY <1>1, <1>3 DEF TypeOK
<1>5. ReplayHasValues' /\ RetryInv'
  BY <1>1 DEF ReplayHasValues, RetryInv, Emit, TypeOK
<1>6. CountInv'
  BY <1>3, NothingCounted
<1>7. AckInv'
  <2>1. \A q \in acked : tries'[q] = tries[q]
    BY <1>1 DEF RetryInv, Emit, TypeOK
  <2>2. QED
    BY <1>3, <1>4, <2>1, AckedStaysCounted
<1>8. QED
  BY <1>3, <1>4, <1>5, <1>6, <1>7 DEF IInv, Basics

LEMMA ReplayKeeps ==
  ASSUME IInv, NEW m \in Messages, Replay(m)
  PROVE  IInv'
<1> USE RetryAssumption DEF Replay, CacheOnRetry, Exhausted
<1>1. TypeOK /\ RetryInv /\ ReplayHasValues
  BY DEF IInv, Basics
<1>2. tries[m] = retries[m] + 1 /\ retries[m] <= MaxRetry /\ m \notin acked
  BY <1>1 DEF RetryInv, TypeOK
<1>3. /\ tries' \in [Messages -> 0 .. MaxRetry + 2]
      /\ pending' \subseteq Messages
      /\ flight' \subseteq Tuples /\ unacked' \subseteq Tuples
      /\ FlightInv' /\ flight' \subseteq unacked'
      /\ \A p \in Positions, n \in 1 .. MaxRetry + 2 :
           HasBeenCounted(n, p)' <=> HasBeenCounted(n, p)
  <2>1. tries[m] < MaxRetry + 2
    BY <1>1, <1>2 DEF TypeOK
  <2>2. QED
    BY <2>1, EmitKeeps
<1>4. TypeOK'
  <2>1. retries' \in [Messages -> 0 .. MaxRetry + 1]
    BY <1>1, <1>2 DEF TypeOK
  <2>2. QED
    BY <2>1, <1>1, <1>3 DEF TypeOK
<1>5. ReplayHasValues'
  BY <1>1 DEF ReplayHasValues, Emit
<1>6. RetryInv'
  BY <1>1, <1>2 DEF RetryInv, Emit, TypeOK
<1>7. CountInv'
  BY <1>3, NothingCounted
<1>8. AckInv'
  <2>1. \A q \in acked : tries'[q] = tries[q]
    BY <1>1, <1>2 DEF Emit, TypeOK
  <2>2. QED
    BY <1>3, <1>4, <2>1, AckedStaysCounted
<1>9. QED
  BY <1>3, <1>4, <1>5, <1>6, <1>7, <1>8 DEF IInv, Basics

LEMMA GiveUpKeeps ==
  ASSUME IInv, NEW m \in Messages, GiveUp(m)
  PROVE  IInv'
<1> USE RetryAssumption DEF GiveUp, CacheWithout, Exhausted
<1>1. TypeOK /\ RetryInv /\ ReplayHasValues /\ FlightInv /\ flight \subseteq unacked
  BY DEF IInv, Basics
<1>2. UNCHANGED <<variant, tries, acked, flight, unacked, wordcounts>>
  BY DEF boltVars
<1>3. TypeOK'
  <2>1. retries' \in [Messages -> 0 .. MaxRetry + 1]
    BY <1>1 DEF TypeOK
  <2>2. QED
    BY <2>1, <1>1, <1>2 DEF TypeOK
<1>4. ReplayHasValues'
  BY <1>1 DEF ReplayHasValues
<1>5. RetryInv'
  BY <1>1, <1>2 DEF RetryInv, TypeOK
<1>6. FlightInv' /\ flight' \subseteq unacked'
  BY <1>1, <1>2 DEF FlightInv
<1>7. \A p \in Positions, n \in 1 .. MaxRetry + 2 :
        HasBeenCounted(n, p)' <=> HasBeenCounted(n, p)
  BY <1>2 DEF HasBeenCounted
<1>8. CountInv'
  BY <1>2, <1>7, NothingCounted
<1>9. AckInv'
  BY <1>2, <1>3, <1>7, AckedStaysCounted
<1>10. QED
  BY <1>3, <1>4, <1>5, <1>6, <1>8, <1>9 DEF IInv, Basics

(* An acknowledged emission has no tuple left, so all its words have been  *)
(* counted.                                                                *)
LEMMA AckKeeps ==
  ASSUME IInv, NEW m \in Messages, Ack(m)
  PROVE  IInv'
<1> USE RetryAssumption DEF Ack
<1>1. TypeOK /\ RetryInv /\ ReplayHasValues /\ FlightInv /\ flight \subseteq unacked
  BY DEF IInv, Basics
<1>2. UNCHANGED <<variant, retries, tries, flight, unacked, wordcounts>>
  BY DEF boltVars
<1>3. TypeOK'
  BY <1>1, <1>2 DEF TypeOK
<1>4. ReplayHasValues'
  BY <1>1 DEF ReplayHasValues
<1>5. RetryInv'
  BY <1>1, <1>2 DEF RetryInv, TypeOK
<1>6. FlightInv' /\ flight' \subseteq unacked'
  BY <1>1, <1>2 DEF FlightInv
<1>7. \A p \in Positions, n \in 1 .. MaxRetry + 2 :
        HasBeenCounted(n, p)' <=> HasBeenCounted(n, p)
  BY <1>2 DEF HasBeenCounted
<1>8. CountInv'
  BY <1>2, <1>7, NothingCounted
<1>9. AckInv'
  <2> SUFFICES ASSUME NEW p \in Positions, p[1] \in acked'
               PROVE  tries[p[1]] > 0 /\ HasBeenCounted(tries[p[1]], p)
    BY <1>2 DEF AckInv, HasBeenCounted
  <2>1. CASE p[1] \in acked
    BY <2>1 DEF IInv, AckInv
  <2>2. CASE p[1] = m
    <3>1. tries[m] \in 0 .. MaxRetry + 2 /\ tries[m] > 0
      BY <1>1 DEF TypeOK, RetryInv
    <3>2. ASSUME NEW x \in flight, x.msg = m, x.try = tries[m] PROVE FALSE
      BY <3>2, <1>1 DEF LatestTry
    <3>3. SentenceTuple(m, tries[m]) \notin flight
      BY <3>2 DEF SentenceTuple
    <3>4. WordTuple(SentenceTuple(m, tries[m]), p[2]) \notin flight
      BY <3>2 DEF SentenceTuple, WordTuple
    <3>5. QED
      BY <3>1, <3>3, <3>4, <2>2 DEF HasBeenCounted
  <2>3. QED
    BY <2>1, <2>2
<1>10. QED
  BY <1>3, <1>4, <1>5, <1>6, <1>8, <1>9 DEF IInv, Basics

-----------------------------------------------------------------------------
(* The bolts *)

(* What steps of the bolts leave to be shown. *)
LEMMA BoltKeeps ==
  ASSUME IInv, UNCHANGED <<variant, spoutVars>>,
         flight' \subseteq Tuples, unacked' \subseteq Tuples,
         wordcounts' \in [Words -> Nat],
         FlightInv', flight' \subseteq unacked', CountInv',
         \A p \in Positions, n \in 1 .. MaxRetry + 2 :
           HasBeenCounted(n, p) => HasBeenCounted(n, p)'
  PROVE  IInv'
<1>1. UNCHANGED <<tuples, retries, tries, pending, acked>>
  BY DEF spoutVars
<1>2. TypeOK'
  BY <1>1 DEF IInv, Basics, TypeOK
<1>3. ReplayHasValues' /\ RetryInv'
  BY <1>1 DEF IInv, Basics, ReplayHasValues, RetryInv
<1>4. AckInv'
  BY <1>1, <1>2, AckedStaysCounted
<1>5. QED
  BY <1>2, <1>3, <1>4 DEF IInv, Basics

LEMMA SplitKeeps ==
  ASSUME IInv, NEW x \in flight, Split(x)
  PROVE  IInv'
<1> DEFINE out == {WordTuple(x, i) : i \in 1 .. Len(Sentence[x.msg])}
<1> USE DEF Split, Anchored
<1>1. /\ TypeOK /\ FlightInv /\ flight \subseteq unacked
      /\ flight \subseteq Tuples /\ unacked \subseteq Tuples
  BY DEF IInv, Basics, TypeOK
<1>2. /\ x \in Tuples /\ x.msg \in Messages /\ x.bolt = "split"
      /\ x = SentenceTuple(x.msg, x.try) /\ x.try <= tries[x.msg]
  BY <1>1 DEF FlightInv, Tuples
<1>3. /\ UNCHANGED <<variant, spoutVars, wordcounts, tries>>
      /\ flight' = (flight \ {x}) \cup out /\ unacked' = (unacked \ {x}) \cup out
  BY DEF spoutVars
<1>4. ASSUME NEW i \in 1 .. Len(Sentence[x.msg])
      PROVE  /\ WordTuple(x, i) \in Tuples /\ WordTuple(x, i).bolt = "count"
             /\ WordTuple(x, i).msg = x.msg /\ WordTuple(x, i).try = x.try
             /\ WordTuple(x, i).pos = i /\ <<x.msg, i>> \in Positions
  <2>1. i \in Nat
    BY <1>2, SentenceAssumption
  <2>2. <<x.msg, i>> \in Positions
    BY <1>2 DEF Positions
  <2>3. WordTuple(x, i) = [x EXCEPT !.pos = i, !.bolt = "count"]
    BY DEF WordTuple
  <2>4. WordTuple(x, i) \in Tuples
    BY <2>1, <2>3, <1>2 DEF Tuples
  <2>5. /\ WordTuple(x, i).bolt = "count" /\ WordTuple(x, i).msg = x.msg
        /\ WordTuple(x, i).try = x.try /\ WordTuple(x, i).pos = i
    BY <2>3, <1>2 DEF Tuples
  <2>6. QED
    BY <2>2, <2>4, <2>5
<1>5. /\ flight' \subseteq Tuples /\ unacked' \subseteq Tuples
      /\ flight' \subseteq unacked'
  BY <1>1, <1>3, <1>4
<1>6. ASSUME NEW m, NEW n
      PROVE  SentenceTuple(m, n) \in flight' <=>
               SentenceTuple(m, n) \in flight /\ SentenceTuple(m, n) # x
  <2>1. SentenceTuple(m, n).bolt = "split"
    BY DEF SentenceTuple
  <2>2. SentenceTuple(m, n) \notin out
    BY <2>1, <1>4
  <2>3. QED
    BY <2>2, <1>3
<1>7. FlightInv'
  <2> SUFFICES ASSUME NEW y \in flight'
               PROVE  /\ y.try <= tries[y.msg]
                      /\ y.bolt = "split" => y = SentenceTuple(y.msg, y.try)
                      /\ y.bolt = "count" =>
                           /\ <<y.msg, y.pos>> \in Positions
                           /\ y = WordTuple(SentenceTuple(y.msg, y.try), y.pos)
                           /\ SentenceTuple(y.msg, y.try) \notin flight'
    BY <1>3 DEF FlightInv
  <2>1. CASE y \in flight
    BY <2>1, <1>1, <1>6 DEF FlightInv
  <2>2. CASE y \in out
    <3>1. PICK i \in 1 .. Len(Sentence[x.msg]) : y = WordTuple(x, i)
      BY <2>2
    <3>2. y.msg = x.msg /\ y.try = x.try /\ y.pos = i /\ y.bolt = "count"
      BY <3>1, <1>4
    <3>3. QED
      BY <3>1, <3>2, <1>2, <1>4, <1>6
  <2>3. QED
    BY <2>1, <2>2, <1>3
<1>8. ASSUME NEW p \in Positions, NEW n \in 1 .. MaxRetry + 2
      PROVE  HasBeenCounted(n, p)' <=> HasBeenCounted(n, p)
  <2> DEFINE s == SentenceTuple(p[1], n)
             t == WordTuple(s, p[2])
  <2>1. /\ t.msg = p[1] /\ t.try = n /\ t.bolt = "count"
        /\ s.msg = p[1] /\ s.try = n
    BY DEF SentenceTuple, WordTuple
  <2>2. CASE s = x
    <3>1. p[2] \in 1 .. Len(Sentence[x.msg])
      BY <2>1, <2>2, PositionFacts
    <3>2. t \in flight'
      BY <3>1, <2>2, <1>3
    <3>3. QED
      BY <3>2, <2>2 DEF HasBeenCounted
  <2>3. CASE s # x
    <3>1. t \notin out /\ t # x
      BY <2>1, <2>3, <1>2, <1>4
    <3>2. t \in flight' <=> t \in flight
      BY <3>1, <1>3
    <3>3. s \in flight' <=> s \in flight
      BY <2>3, <1>6
    <3>4. QED
      BY <3>2, <3>3, <1>3 DEF HasBeenCounted
  <2>4. QED
    BY <2>2, <2>3
<1>9. CountInv'
  BY <1>3, <1>8, NothingCounted
<1>10. wordcounts' \in [Words -> Nat]
  BY <1>1, <1>3 DEF TypeOK
<1>11. QED
  BY <1>3, <1>5, <1>7, <1>8, <1>9, <1>10, BoltKeeps

(* A word is counted once for each emission of its sentence. *)
LEMMA CountKeeps ==
  ASSUME IInv, NEW x \in flight, Count(x)
  PROVE  IInv'
<1> DEFINE q == <<x.msg, x.pos>>
           out == {CountTuple(x, w) : w \in {v \in Words : wordcounts'[v] > 0}}
<1> USE DEF Count, Added
<1>1. /\ TypeOK /\ FlightInv /\ flight \subseteq unacked
      /\ flight \subseteq Tuples /\ unacked \subseteq Tuples
  BY DEF IInv, Basics, TypeOK
<1>2. /\ x \in Tuples /\ x.msg \in Messages /\ x.bolt = "count"
      /\ x.try \in 1 .. MaxRetry + 2 /\ x.try <= tries[x.msg] /\ q \in Positions
      /\ x = WordTuple(SentenceTuple(x.msg, x.try), x.pos)
      /\ SentenceTuple(x.msg, x.try) \notin flight
  BY <1>1 DEF FlightInv, Tuples
<1>3. /\ UNCHANGED <<variant, spoutVars, tries>>
      /\ flight' = (flight \ {x}) \cup out
      /\ unacked' \subseteq unacked \cup out
      /\ unacked \ {x} \subseteq unacked' /\ out \subseteq unacked'
      /\ wordcounts' = [wordcounts EXCEPT ![WordAt(q)] = @ + 1]
  BY DEF spoutVars
<1>4. ASSUME NEW y \in out
      PROVE  /\ y \in Tuples /\ y.bolt = "hbase" /\ y.msg = x.msg
             /\ y.try = x.try
  <2>1. PICK w \in Words : y = [x EXCEPT !.bolt = "hbase", !.of = w]
    BY DEF CountTuple
  <2>2. QED
    BY <2>1, <1>2 DEF Tuples
<1>5. flight' \subseteq Tuples /\ unacked' \subseteq Tuples
  BY <1>1, <1>3, <1>4
<1>6. flight' \subseteq unacked'
  BY <1>1, <1>3
<1>7. ASSUME NEW m, NEW n
      PROVE  SentenceTuple(m, n) \in flight' <=> SentenceTuple(m, n) \in flight
  <2>1. SentenceTuple(m, n).bolt = "split"
    BY DEF SentenceTuple
  <2>2. SentenceTuple(m, n) \notin out /\ SentenceTuple(m, n) # x
    BY <2>1, <1>2, <1>4
  <2>3. QED
    BY <2>2, <1>3
<1>8. FlightInv'
  BY <1>1, <1>2, <1>3, <1>4, <1>7 DEF FlightInv
<1>9. ASSUME NEW p \in Positions, NEW n \in 1 .. MaxRetry + 2
      PROVE  /\ HasBeenCounted(n, p)' <=>
                  HasBeenCounted(n, p) \/ (n = x.try /\ p = q)
             /\ n = x.try /\ p = q => ~HasBeenCounted(n, p)
  <2> DEFINE s == SentenceTuple(p[1], n)
             t == WordTuple(s, p[2])
  <2>1. t.msg = p[1] /\ t.try = n /\ t.bolt = "count" /\ t.pos = p[2]
    BY DEF SentenceTuple, WordTuple
  <2>2. p = <<p[1], p[2]>>
    BY PositionFacts
  <2>3. t = x <=> n = x.try /\ p = q
    BY <2>1, <2>2, <1>2
  <2>4. s \in flight' <=> s \in flight
    BY <1>7
  <2>5. t \in flight' <=> t \in flight /\ t # x
    BY <2>1, <1>3, <1>4
  <2>6. CASE t = x
    <3>1. s = SentenceTuple(x.msg, x.try) /\ n <= tries[p[1]]
      BY <2>3, <2>6, <1>2
    <3>2. QED
      BY <3>1, <2>3, <2>4, <2>5, <2>6, <1>2, <1>3 DEF HasBeenCounted
  <2>7. CASE t # x
    BY <2>3, <2>4, <2>5, <2>7, <1>3 DEF HasBeenCounted
  <2>8. QED
    BY <2>6, <2>7
<1>10. wordcounts \in [Words -> Nat] /\ WordAt(q) \in Words
  BY <1>1, <1>2, PositionFacts DEF TypeOK
<1>11. wordcounts' \in [Words -> Nat]
  BY <1>3, <1>10
<1>12. CountInv'
  <2> SUFFICES ASSUME NEW w \in Words
               PROVE  wordcounts'[w] = Cardinality(Counted(w)')
    BY DEF CountInv
  <2>1. wordcounts[w] = Cardinality(Counted(w)) /\ IsFiniteSet(Counted(w))
    BY CountedFinite DEF IInv, CountInv
  <2>2. ASSUME NEW c \in (1 .. MaxRetry + 2) \X Occurrences(Messages, w)
        PROVE  /\ c[1] \in 1 .. MaxRetry + 2 /\ c[2] \in Positions
               /\ c = <<c[1], c[2]>> /\ WordAt(c[2]) = w
    BY DEF Occurrences
  <2>3. CASE w = WordAt(q)
    <3>1. <<x.try, q>> \in (1 .. MaxRetry + 2) \X Occurrences(Messages, w)
      BY <2>3, <1>2 DEF Occurrences
    <3>2. <<x.try, q>> \notin Counted(w)
      BY <3>1, <1>2, <1>9 DEF Counted
    <3>3. Counted(w)' = Counted(w) \cup {<<x.try, q>>}
      BY <2>2, <3>1, <1>2, <1>9 DEF Counted, Occurrences
    <3>4. Cardinality(Counted(w)') = Cardinality(Counted(w)) + 1
      BY <2>1, <3>2, <3>3, FS_AddElement
    <3>5. QED
      BY <3>4, <2>1, <2>3, <1>3, <1>10
  <2>4. CASE w # WordAt(q)
    <3>1. Counted(w)' = Counted(w)
      BY <2>2, <2>4, <1>9 DEF Counted, Occurrences
    <3>2. QED
      BY <3>1, <2>1, <2>4, <1>3, <1>10
  <2>5. QED
    BY <2>3, <2>4
<1>13. QED
  BY <1>3, <1>5, <1>6, <1>8, <1>9, <1>11, <1>12, BoltKeeps

LEMMA StoreKeeps ==
  ASSUME IInv, NEW x \in flight, Store(x)
  PROVE  IInv'
<1> USE DEF Store
<1>1. /\ TypeOK /\ FlightInv /\ flight \subseteq unacked
      /\ flight \subseteq Tuples /\ unacked \subseteq Tuples
  BY DEF IInv, Basics, TypeOK
<1>2. /\ UNCHANGED <<variant, spoutVars, wordcounts, tries>>
      /\ flight' = flight \ {x} /\ unacked' = unacked \ {x}
  BY DEF spoutVars
<1>3. /\ flight' \subseteq Tuples /\ unacked' \subseteq Tuples
      /\ flight' \subseteq unacked' /\ wordcounts' \in [Words -> Nat]
  BY <1>1, <1>2 DEF TypeOK
<1>4. FlightInv'
  BY <1>1, <1>2 DEF FlightInv
<1>5. ASSUME NEW p \in Positions, NEW n \in 1 .. MaxRetry + 2
      PROVE  HasBeenCounted(n, p)' <=> HasBeenCounted(n, p)
  <2>1. /\ SentenceTuple(p[1], n).bolt = "split"
        /\ WordTuple(SentenceTuple(p[1], n), p[2]).bolt = "count"
    BY DEF SentenceTuple, WordTuple
  <2>2. x.bolt = "hbase"
    OBVIOUS
  <2>3. SentenceTuple(p[1], n) # x /\ WordTuple(SentenceTuple(p[1], n), p[2]) # x
    BY <2>1, <2>2
  <2>4. QED
    BY <2>3, <1>2 DEF HasBeenCounted
<1>6. CountInv'
  BY <1>2, <1>5, NothingCounted
<1>7. QED
  BY <1>2, <1>3, <1>4, <1>5, <1>6, BoltKeeps

-----------------------------------------------------------------------------
LEMMA NextIInv == IInv /\ [Next]_vars => IInv'
<1> SUFFICES ASSUME IInv, [Next]_vars PROVE IInv'
  OBVIOUS
<1>1. ASSUME NEW m \in Messages, NextTuple(m) PROVE IInv'
  BY <1>1, NextTupleKeeps
<1>2. ASSUME NEW m \in Messages, Ack(m) PROVE IInv'
  BY <1>2, AckKeeps
<1>3. ASSUME NEW m \in Messages, Fail(m) PROVE IInv'
  BY <1>3, ReplayKeeps, GiveUpKeeps DEF Fail
<1>4. ASSUME NEW x \in flight, Split(x) PROVE IInv'
  BY <1>4, SplitKeeps
<1>5. ASSUME NEW x \in flight, Count(x) PROVE IInv'
  BY <1>5, CountKeeps
<1>6. ASSUME NEW x \in flight, Store(x) PROVE IInv'
  BY <1>6, StoreKeeps
<1>7. CASE UNCHANGED vars
  <2>1. /\ UNCHANGED <<variant, tuples, retries, tries, pending, acked>>
        /\ UNCHANGED <<flight, unacked, wordcounts>>
    BY <1>7 DEF vars, spoutVars, boltVars
  <2>2. UNCHANGED <<variant, spoutVars>>
    BY <2>1 DEF spoutVars
  <2>3. /\ flight' \subseteq Tuples /\ unacked' \subseteq Tuples
        /\ flight' \subseteq unacked' /\ wordcounts' \in [Words -> Nat]
    BY <2>1 DEF IInv, Basics, TypeOK
  <2>4. FlightInv'
    BY <2>1 DEF IInv, Basics, FlightInv
  <2>5. \A p \in Positions, n \in 1 .. MaxRetry + 2 :
          HasBeenCounted(n, p)' <=> HasBeenCounted(n, p)
    BY <2>1 DEF HasBeenCounted
  <2>6. CountInv'
    BY <2>1, <2>5, NothingCounted
  <2>7. QED
    BY <2>2, <2>3, <2>4, <2>5, <2>6, BoltKeeps
<1>8. QED
  BY <1>1, <1>2, <1>3, <1>4, <1>5, <1>6, <1>7 DEF Next

THEOREM Invariance == Spec => []IInv
BY InitIInv, NextIInv, PTL DEF Spec

(* No message is retried more often than MAX_RETRY + 1 times, for any      *)
(* MAX_RETRY and any finite set of sentences.                              *)
THEOREM WordCountTypes == Spec => []TypeOK
<1>1. IInv => TypeOK
  BY DEF IInv, Basics
<1>2. QED
  BY <1>1, Invariance, PTL

(* SentenceSpout.fail always finds the values it emits again. *)
THEOREM ReplaysHaveValues == Spec => []ReplayHasValues
<1>1. IInv => ReplayHasValues
  BY DEF IInv, Basics
<1>2. QED
  BY <1>1, Invariance, PTL

(* At least once: an acknowledged sentence has all its words counted; each *)
(* of its words is matched with the count that its last emission caused.   *)
THEOREM AtLeastOnce == Spec => []AckedMeansCounted
<1>1. IInv => AckedMeansCounted
  <2> SUFFICES ASSUME IInv, NEW w \in Words
               PROVE  wordcounts[w] >= Cardinality(Occurrences(acked, w))
    BY DEF AckedMeansCounted
  <2> DEFINE O == Occurrences(acked, w)
             g == [p \in O |-> <<tries[p[1]], p>>]
  <2>1. tries \in [Messages -> 0 .. MaxRetry + 2] /\ acked \subseteq Messages
    BY DEF IInv, Basics, TypeOK
  <2>2. ASSUME NEW p \in O PROVE g[p] \in Counted(w)
    <3>1. p \in Positions /\ p[1] \in acked /\ WordAt(p) = w /\ p[1] \in Messages
      BY <2>1 DEF Occurrences
    <3>2. tries[p[1]] > 0 /\ HasBeenCounted(tries[p[1]], p)
      BY <3>1 DEF IInv, AckInv
    <3>3. tries[p[1]] \in 1 .. MaxRetry + 2
      BY <3>1, <3>2, <2>1, RetryAssumption
    <3>4. QED
      BY <3>1, <3>2, <3>3 DEF Counted, Occurrences
  <2>3. g \in Injection(O, Counted(w))
    BY <2>2 DEF Injection, IsInjective
  <2>4. IsFiniteSet(Counted(w))
    BY CountedFinite
  <2>5. IsFiniteSet(O) /\ Cardinality(O) <= Cardinality(Counted(w))
    BY <2>3, <2>4, FS_Injection
  <2>6. Cardinality(O) \in Nat /\ Cardinality(Counted(w)) \in Nat
    BY <2>4, <2>5, FS_CardinalityType
  <2>7. QED
    BY <2>5, <2>6 DEF IInv, CountInv
<1>2. QED
  BY <1>1, Invariance, PTL

(* No word is counted more often than MAX_RETRY + 2 times for each place   *)
(* it has in the sentences.                                                *)
THEOREM AtMostPerEmission == Spec => []CountsBounded
<1>1. IInv => CountsBounded
  BY CountedFinite DEF IInv, CountInv, CountsBounded
<1>2. QED
  BY <1>1, Invariance, PTL

(* A sentence leaves the cache unacknowledged only after its last retry.   *)
THEOREM DroppedAfterRetries == Spec => NotDroppedEarly
<1>1. IInv /\ [Next]_vars =>
        [\A m \in tuples \ tuples' : m \in acked' \/ tries[m] = MaxRetry + 2]_vars
  <2> SUFFICES ASSUME IInv, Next, NEW m \in tuples \ tuples'
               PROVE  m \in acked' \/ tries[m] = MaxRetry + 2
    OBVIOUS
  <2>1. CASE \E k \in Messages : NextTuple(k)
    BY <2>1 DEF NextTuple
  <2>2. CASE \E k \in Messages : Ack(k)
    BY <2>2 DEF Ack
  <2>3. CASE \E k \in Messages : Replay(k)
    BY <2>3 DEF Replay, CacheOnRetry
  <2>4. ASSUME NEW k \in Messages, GiveUp(k)
        PROVE  tries[m] = MaxRetry + 2
    <3>1. m = k /\ k \in pending /\ retries[k] > MaxRetry
      BY <2>4 DEF GiveUp, CacheWithout, Exhausted
    <3>2. /\ tries[k] = retries[k] + 1 /\ tries[k] \in 0 .. MaxRetry + 2
          /\ retries[k] \in 0 .. MaxRetry + 1
      BY <3>1 DEF IInv, Basics, RetryInv, TypeOK
    <3>3. QED
      BY <3>1, <3>2, RetryAssumption
  <2>5. CASE \E x \in flight : Split(x) \/ Count(x) \/ Store(x)
    BY <2>5 DEF Split, Count, Store, spoutVars
  <2>6. QED
    BY <2>1, <2>2, <2>3, <2>4, <2>5 DEF Next, Fail
<1>2. QED
  BY <1>1, Invariance, PTL DEF Spec, NotDroppedEarly
=============================================================================
