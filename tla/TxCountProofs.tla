---------------------------- MODULE TxCountProofs ----------------------------
(***************************************************************************)
(* Proofs about TxCount for every source, batch size, set of tasks and set *)
(* of attempt ids: the total counts each batch exactly once, and the       *)
(* topology implements the ordered total.                                  *)
(***************************************************************************)
EXTENDS TxCount, FiniteSetTheorems, TLAPS

Types ==
  /\ currTx \in Nat \ {0}
  /\ meta \in Seq([beginPoint : Int, num : {BatchNum}])
  /\ attempt \in Attempts \cup {NoAttempt}
  /\ status \in {"idle", "processing", "processed", "committing"}
  /\ used \in SUBSET Attempts
  /\ emitted \in SUBSET Attempts
  /\ share \in [Attempts -> [Offsets -> Tasks]]
  /\ executed \in [Attempts -> SUBSET Offsets]
  /\ count \in [Attempts -> [Tasks -> Nat]]
  /\ reported \in [Attempts -> SUBSET Tasks]
  /\ received \in [Attempts -> SUBSET Tasks]
  /\ sum \in [Attempts -> Nat]
  /\ commits \in Seq(Attempts)
  /\ acks \in SUBSET Attempts
  /\ dbMap \in [txid : Nat, count : Nat]
  /\ base \in Nat
  /\ crashes \in Nat

(* The metadata in ZooKeeper reaches up to the current transaction as soon *)
(* as an attempt of it has been started.                                   *)
MetaInv ==
  /\ Len(meta) \in {currTx - 1, currTx}
  /\ used # {} => Len(meta) = currTx
  /\ BatchesTile

(* The attempt in progress and the phase it is in. *)
AttemptInv ==
  /\ status = "idle" <=> attempt = NoAttempt
  /\ status # "idle" => attempt \in used
  /\ status \in {"processed", "committing"} => received[attempt] = Tasks

(* The records of the batch that the committer has added up. *)
Added(a) == {o \in Offsets : share[a][o] \in received[a]}

(* Every count is the number of records it stands for. *)
BoltInv ==
  \A a \in Attempts :
    /\ a \notin emitted => executed[a] = {} /\ reported[a] = {}
    /\ received[a] \subseteq reported[a]
    /\ \A t \in Tasks :
         /\ count[a][t] = Cardinality(Share(a, t) \cap executed[a])
         /\ t \in reported[a] => Share(a, t) \subseteq executed[a]
    /\ sum[a] = Cardinality(Added(a))

(* The commit channel: the request of the attempt in progress is last, no  *)
(* attempt is in it twice, and all attempts in it are complete.            *)
CommitInv ==
  /\ \A i \in 1 .. Len(commits) :
       /\ commits[i] \in used \ acks
       /\ received[commits[i]] = Tasks
       /\ status \in {"processing", "processed"} => commits[i] # attempt
  /\ \A i, j \in 1 .. Len(commits) : i # j => commits[i] # commits[j]
  /\ status \in {"processing", "processed"} => attempt \notin acks
  /\ status = "committing" =>
       commits = <<>> \/ commits[Len(commits)] = attempt
  /\ acks \subseteq used

(* The total: what it holds, and that an acknowledged commit is in it. *)
DbInv ==
  /\ NothingSkipped
  /\ dbMap # NoValue => dbMap.txid > base
  /\ CountsEachBatchOnce
  /\ acks # {} => dbMap.txid = currTx

IInv ==
  /\ Types
  /\ MetaInv
  /\ AttemptInv
  /\ BoltInv
  /\ CommitInv
  /\ DbInv
-----------------------------------------------------------------------------
LEMMA OffsetsFinite ==
  /\ IsFiniteSet(Offsets)
  /\ Cardinality(Offsets) = BatchNum
  /\ \A S \in SUBSET Offsets : /\ IsFiniteSet(S)
                               /\ Cardinality(S) \in 0 .. BatchNum
<1>1. IsFiniteSet(Offsets) /\ Cardinality(Offsets) = BatchNum
  BY FS_Interval, BatchAssumption DEF Offsets
<1>2. ASSUME NEW S \in SUBSET Offsets
      PROVE  IsFiniteSet(S) /\ Cardinality(S) \in 0 .. BatchNum
  BY <1>1, FS_Subset, FS_CardinalityType, BatchAssumption
<1>3. QED
  BY <1>1, <1>2

(* A set of records gains one: its cardinality grows by one. *)
LEMMA AddRecord ==
  ASSUME NEW S \in SUBSET Offsets, NEW o \in Offsets \ S
  PROVE  Cardinality(S \cup {o}) = Cardinality(S) + 1
  BY OffsetsFinite, FS_AddElement

(* Disjoint sets of records: the cardinality of the union is the sum. *)
LEMMA AddShare ==
  ASSUME NEW S \in SUBSET Offsets, NEW T \in SUBSET Offsets, S \cap T = {}
  PROVE  Cardinality(S \cup T) = Cardinality(S) + Cardinality(T)
<1>1. Cardinality(S \cap T) = 0
  BY FS_EmptySet, Zenon
<1>2. IsFiniteSet(S) /\ IsFiniteSet(T)
  BY OffsetsFinite
<1>3. Cardinality(S \cup T)
        = Cardinality(S) + Cardinality(T) - Cardinality(S \cap T)
  BY <1>2, FS_Union
<1>4. Cardinality(S) \in Int /\ Cardinality(T) \in Int
  BY OffsetsFinite, BatchAssumption
<1>5. QED
  BY <1>1, <1>3, <1>4
-----------------------------------------------------------------------------
(* Once every task has reported, all records have been added up.           *)
LEMMA AllSharesMakeABatch ==
  ASSUME Types, BoltInv, NEW a \in Attempts, received[a] = Tasks
  PROVE  sum[a] = BatchNum
<1>1. Added(a) = Offsets
  BY DEF Types, Added
<1>2. QED
  BY <1>1, OffsetsFinite DEF BoltInv

LEMMA InitIInv == Init => IInv
<1> SUFFICES ASSUME Init PROVE IInv
  OBVIOUS
<1>1. Cardinality({}) = 0
  BY FS_EmptySet
<1>2. \E t \in Tasks : TRUE
  BY TasksAssumption
<1>3. NoShares \in [Attempts -> [Offsets -> Tasks]]
  BY <1>2 DEF NoShares
<1>4. Types
  BY <1>3, BatchAssumption
  DEF Init, Types, Nothing, NoCounts, InitialSum, NoValue
<1>5. MetaInv /\ AttemptInv
  BY BatchAssumption DEF Init, MetaInv, AttemptInv, BatchesTile
<1>6. BoltInv
  BY <1>1, <1>3
  DEF Init, BoltInv, Added, Share, Nothing, NoCounts, InitialSum
<1>7. CommitInv
  BY DEF Init, CommitInv
<1>8. DbInv
  BY DEF Init, DbInv, NothingSkipped, CountsEachBatchOnce
<1>9. QED
  BY <1>4, <1>5, <1>6, <1>7, <1>8 DEF IInv

(* Steps that leave the bolt instances alone keep their invariant. *)
LEMMA BoltInvUnchanged ==
  ASSUME BoltInv, UNCHANGED boltVars
  PROVE  BoltInv'
  BY DEF BoltInv, boltVars, Added, Share

(* So do steps that forget them. *)
LEMMA BoltInvForgotten ==
  ASSUME ForgetAttempts
  PROVE  BoltInv'
<1>1. Cardinality({}) = 0
  BY FS_EmptySet
<1>2. ASSUME NEW a \in Attempts
      PROVE  /\ executed'[a] = {} /\ reported'[a] = {} /\ received'[a] = {}
             /\ sum'[a] = 0
             /\ \A t \in Tasks : count'[a][t] = 0
  BY <1>2 DEF ForgetAttempts, Nothing, NoCounts, InitialSum
<1>3. ASSUME NEW a \in Attempts
      PROVE  /\ Added(a)' = {}
             /\ \A t \in Tasks : Share(a, t)' \cap executed'[a] = {}
  BY <1>2, <1>3 DEF Added
<1>4. QED
  BY <1>1, <1>2, <1>3, Zenon DEF BoltInv
-----------------------------------------------------------------------------
LEMMA ForgetTypes ==
  ASSUME ForgetAttempts
  PROVE  /\ attempt' = NoAttempt /\ status' = "idle"
         /\ used' \in SUBSET Attempts /\ emitted' \in SUBSET Attempts
         /\ share' \in [Attempts -> [Offsets -> Tasks]]
         /\ executed' \in [Attempts -> SUBSET Offsets]
         /\ count' \in [Attempts -> [Tasks -> Nat]]
         /\ reported' \in [Attempts -> SUBSET Tasks]
         /\ received' \in [Attempts -> SUBSET Tasks]
         /\ sum' \in [Attempts -> Nat]
         /\ acks' \in SUBSET Attempts
<1>1. \E t \in Tasks : TRUE
  BY TasksAssumption
<1>2. NoShares \in [Attempts -> [Offsets -> Tasks]]
  BY <1>1 DEF NoShares
<1>3. QED
  BY <1>2 DEF ForgetAttempts, Nothing, NoCounts, InitialSum

MyMeta == [beginPoint : Int, num : {BatchNum}]

(* A batch is where the previous one ends: appending it keeps the tiling.  *)
LEMMA NextBatchTiles ==
  ASSUME NEW m \in Seq(MyMeta),
         \A k \in 1 .. Len(m) : m[k].beginPoint = (k - 1) * BatchNum,
         NEW prev, prev = IF m = <<>> THEN NoMeta ELSE m[Len(m)],
         NEW n, n = Append(m, InitializeTransaction(prev))
  PROVE  /\ n \in Seq(MyMeta)
         /\ Len(n) = Len(m) + 1
         /\ \A k \in 1 .. Len(n) : n[k].beginPoint = (k - 1) * BatchNum
<1>1. BatchNum \in Nat \ {0} /\ Len(m) \in Nat
  BY BatchAssumption
<1>2. BeginPoint(prev) = Len(m) * BatchNum
  <2>1. CASE m = <<>>
    BY <1>1, <2>1 DEF BeginPoint
  <2>2. CASE m # <<>>
    <3>1. prev = m[Len(m)] /\ Len(m) \in 1 .. Len(m)
      BY <2>2
    <3>2. prev \in MyMeta
      BY <3>1
    <3>3. prev.num = BatchNum /\ prev # NoMeta
      BY <1>1, <3>2 DEF MyMeta, NoMeta
    <3>4. prev.beginPoint = (Len(m) - 1) * BatchNum
      BY <3>1
    <3>5. BeginPoint(prev) = (Len(m) - 1) * BatchNum + BatchNum
      BY <3>3, <3>4 DEF BeginPoint
    <3>6. QED
      BY <1>1, <3>5
  <2>3. QED
    BY <2>1, <2>2
<1>3. /\ InitializeTransaction(prev) \in MyMeta
      /\ InitializeTransaction(prev).beginPoint = Len(m) * BatchNum
  BY <1>1, <1>2 DEF InitializeTransaction, MyMeta
<1>4. n \in Seq(MyMeta) /\ Len(n) = Len(m) + 1
  BY <1>3
<1>5. /\ \A k \in 1 .. Len(m) : n[k] = m[k]
      /\ n[Len(m) + 1] = InitializeTransaction(prev)
  BY <1>3
<1>6. ASSUME NEW k \in 1 .. Len(n)
      PROVE  n[k].beginPoint = (k - 1) * BatchNum
  <2>1. CASE k \in 1 .. Len(m)
    BY <1>5, <2>1
  <2>2. CASE k = Len(m) + 1
    BY <1>1, <1>3, <1>5, <2>2
  <2>3. QED
    BY <1>1, <1>4, <2>1, <2>2
<1>7. QED
  BY <1>4, <1>6

LEMMA StartAttemptIInv ==
  ASSUME IInv, NEW a \in Attempts, StartAttempt(a)
  PROVE  IInv'
<1> USE DEF IInv, StartAttempt
<1>1. BoltInv'
  BY BoltInvUnchanged
<1>2. meta' \in Seq(MyMeta) /\ Len(meta') = currTx /\ BatchesTile'
  <2>1. CASE currTx <= Len(meta)
    BY <2>1 DEF StoredMeta, Types, MetaInv, BatchesTile, MyMeta
  <2>2. CASE ~ (currTx <= Len(meta))
    <3> DEFINE prev == IF meta = <<>> THEN NoMeta ELSE meta[Len(meta)]
    <3>1. meta \in Seq(MyMeta) /\ Len(meta) = currTx - 1
      BY <2>2 DEF MetaInv, Types, MyMeta
    <3>2. meta' = Append(meta, InitializeTransaction(prev))
      BY <2>2 DEF StoredMeta
    <3>3. \A k \in 1 .. Len(meta) : meta[k].beginPoint = (k - 1) * BatchNum
      BY DEF MetaInv, BatchesTile
    <3> HIDE DEF prev
    <3>4. /\ meta' \in Seq(MyMeta) /\ Len(meta') = Len(meta) + 1
          /\ \A k \in 1 .. Len(meta') :
               meta'[k].beginPoint = (k - 1) * BatchNum
      BY <3>1, <3>2, <3>3, NextBatchTiles DEF prev
    <3>5. QED
      BY <3>1, <3>4 DEF Types, BatchesTile
  <2>3. QED
    BY <2>1, <2>2
<1>3. Types'
  BY <1>2 DEF Types, MyMeta, boltVars, dbVars, histVars
<1>4. MetaInv' /\ AttemptInv'
  BY <1>2, AttemptsAssumption DEF MetaInv, AttemptInv, Types
<1>5. CommitInv'
  BY DEF CommitInv, Types, dbVars, boltVars
<1>6. DbInv'
  BY DEF DbInv, NothingSkipped, CountsEachBatchOnce, dbVars, histVars
<1>7. QED
  BY <1>1, <1>3, <1>4, <1>5, <1>6

LEMMA EmitBatchIInv ==
  ASSUME IInv, NEW a \in Attempts, EmitBatch(a)
  PROVE  IInv'
<1> USE DEF IInv, EmitBatch
<1>1. PICK f \in EvenShares : share' = [share EXCEPT ![a] = f]
  OBVIOUS
<1>2. f \in [Offsets -> Tasks]
  BY <1>1 DEF EvenShares
<1>3. Types' /\ MetaInv' /\ AttemptInv'
  BY <1>1, <1>2 DEF Types, MetaInv, AttemptInv, BatchesTile, zkVars, coordVars,
     dbVars, histVars
<1>4. BoltInv'
  <2>1. executed[a] = {} /\ received[a] = {} /\ reported[a] = {}
    BY DEF Types, BoltInv
  <2>2. ASSUME NEW b \in Attempts, b # a
        PROVE  /\ share'[b] = share[b]
               /\ b \notin emitted' => b \notin emitted
    BY <1>1, <2>2 DEF Types
  <2>3. ASSUME NEW b \in Attempts, b # a
        PROVE  /\ Added(b)' = Added(b)
               /\ \A t \in Tasks : Share(b, t)' = Share(b, t)
    BY <2>2, <2>3 DEF Added, Share
  <2>4. Added(a)' = Added(a)
    BY <2>1 DEF Added
  <2>5. \A t \in Tasks : Share(a, t)' \cap executed'[a]
                            = Share(a, t) \cap executed[a]
    BY <2>1
  <2>6. a \in emitted'
    OBVIOUS
  <2>7. QED
    BY <2>1, <2>2, <2>3, <2>4, <2>5, <2>6 DEF BoltInv
<1>5. CommitInv' /\ DbInv'
  BY DEF CommitInv, DbInv, NothingSkipped, CountsEachBatchOnce, zkVars,
     coordVars, dbVars, histVars
<1>6. QED
  BY <1>3, <1>4, <1>5

LEMMA ExecuteIInv ==
  ASSUME IInv, NEW a \in Attempts, NEW t \in Tasks, Execute(a, t)
  PROVE  IInv'
<1> USE DEF IInv, Execute
<1>1. PICK o \in Share(a, t) \ executed[a] :
        executed' = [executed EXCEPT ![a] = @ \cup {o}]
  OBVIOUS
<1>2. o \in Offsets /\ share[a][o] = t
  BY <1>1 DEF Share
<1>3. Types' /\ MetaInv' /\ AttemptInv'
  BY <1>1, <1>2 DEF Types, MetaInv, AttemptInv, BatchesTile, zkVars, coordVars,
     dbVars, histVars
<1>4. BoltInv'
  <2>1. ASSUME NEW b \in Attempts, b # a
        PROVE  executed'[b] = executed[b] /\ count'[b] = count[b]
    BY <1>1, <2>1 DEF Types
  <2>2. executed'[a] = executed[a] \cup {o}
    BY <1>1 DEF Types
  <2>3. ASSUME NEW b \in Attempts
        PROVE  /\ Added(b)' = Added(b)
               /\ \A u \in Tasks : Share(b, u)' = Share(b, u)
    BY DEF Added, Share
  <2>4. ASSUME NEW u \in Tasks, u # t
        PROVE  /\ count'[a][u] = count[a][u]
               /\ Share(a, u) \cap executed'[a] = Share(a, u) \cap executed[a]
    <3>1. o \notin Share(a, u)
      BY <1>2, <2>4 DEF Share
    <3>2. count'[a][u] = count[a][u]
      BY <2>4 DEF Types
    <3>3. QED
      BY <2>2, <3>1, <3>2
  <2>5. count'[a][t] = Cardinality(Share(a, t) \cap executed'[a])
    <3> DEFINE S == Share(a, t) \cap executed[a]
    <3>1. S \in SUBSET Offsets /\ o \in Offsets \ S
      BY <1>1, <1>2 DEF Share
    <3>2. Share(a, t) \cap executed'[a] = S \cup {o}
      BY <1>1, <2>2
    <3>3. Cardinality(S \cup {o}) = Cardinality(S) + 1
      BY <3>1, AddRecord
    <3>4. count'[a][t] = count[a][t] + 1
      BY DEF Types
    <3>5. count[a][t] = Cardinality(S)
      BY DEF BoltInv
    <3> HIDE DEF S
    <3>6. QED
      BY <3>2, <3>3, <3>4, <3>5
  <2>6. ASSUME NEW b \in Attempts, NEW u \in Tasks
        PROVE  /\ count'[b][u] = Cardinality(Share(b, u)' \cap executed'[b])
               /\ u \in reported'[b] => Share(b, u)' \subseteq executed'[b]
    <3>1. Share(b, u)' = Share(b, u)
      BY <2>3
    <3>2. executed[b] \subseteq executed'[b]
      BY <2>1, <2>2
    <3>3. u \in reported'[b] => Share(b, u)' \subseteq executed'[b]
      BY <3>1, <3>2 DEF BoltInv
    <3>4. CASE b # a
      BY <2>1, <3>1, <3>3, <3>4 DEF BoltInv
    <3>5. CASE b = a /\ u # t
      BY <2>4, <3>1, <3>3, <3>5 DEF BoltInv
    <3>6. CASE b = a /\ u = t
      BY <2>5, <3>1, <3>3, <3>6
    <3>7. QED
      BY <3>4, <3>5, <3>6
  <2>7. ASSUME NEW b \in Attempts
        PROVE  /\ b \notin emitted' => executed'[b] = {} /\ reported'[b] = {}
               /\ received'[b] \subseteq reported'[b]
               /\ sum'[b] = Cardinality(Added(b)')
    BY <2>1, <2>3 DEF BoltInv
  <2>8. QED
    BY <2>6, <2>7, Zenon DEF BoltInv
<1>5. CommitInv' /\ DbInv'
  BY DEF CommitInv, DbInv, NothingSkipped, CountsEachBatchOnce, zkVars,
     coordVars, dbVars, histVars
<1>6. QED
  BY <1>3, <1>4, <1>5

LEMMA FinishBatchIInv ==
  ASSUME IInv, NEW a \in Attempts, NEW t \in Tasks, FinishBatch(a, t)
  PROVE  IInv'
<1>1. Types' /\ MetaInv' /\ AttemptInv'
  BY DEF IInv, FinishBatch, Types, MetaInv, AttemptInv, BatchesTile, zkVars,
     coordVars, dbVars, histVars
<1>2. BoltInv'
  <2>1. /\ a \in emitted /\ Share(a, t) \subseteq executed[a]
        /\ reported'[a] = reported[a] \cup {t}
        /\ \A b \in Attempts : b # a => reported'[b] = reported[b]
    BY DEF IInv, Types, FinishBatch
  <2>2. UNCHANGED <<emitted, share, executed, count, received, sum>>
    BY DEF FinishBatch
  <2>3. \A b \in Attempts : /\ Added(b)' = Added(b)
                            /\ \A u \in Tasks : Share(b, u)' = Share(b, u)
    BY <2>2 DEF Added, Share
  <2>4. BoltInv
    BY DEF IInv
  <2>5. ASSUME NEW b \in Attempts, NEW u \in Tasks
        PROVE  /\ count'[b][u] = Cardinality(Share(b, u)' \cap executed'[b])
               /\ u \in reported'[b] => Share(b, u)' \subseteq executed'[b]
    <3>1. CASE b # a
      BY <2>1, <2>2, <2>3, <2>4, <3>1, Zenon DEF BoltInv
    <3>2. CASE b = a
      <4>1. u \in reported'[a] => u \in reported[a] \/ u = t
        BY <2>1
      <4>2. u \in reported'[a] => Share(a, u) \subseteq executed[a]
        BY <2>1, <2>4, <4>1 DEF BoltInv
      <4>3. QED
        BY <2>2, <2>3, <2>4, <3>2, <4>2 DEF BoltInv
    <3>3. QED
      BY <3>1, <3>2
  <2>6. ASSUME NEW b \in Attempts
        PROVE  /\ b \notin emitted' => executed'[b] = {} /\ reported'[b] = {}
               /\ received'[b] \subseteq reported'[b]
               /\ sum'[b] = Cardinality(Added(b)')
    <3>1. CASE b # a
      BY <2>1, <2>2, <2>3, <2>4, <3>1 DEF BoltInv
    <3>2. CASE b = a
      BY <2>1, <2>2, <2>3, <2>4, <3>2 DEF BoltInv
    <3>3. QED
      BY <3>1, <3>2
  <2>7. QED
    BY <2>5, <2>6, Zenon DEF BoltInv
<1>3. CommitInv' /\ DbInv'
  BY DEF IInv, FinishBatch, CommitInv, DbInv, NothingSkipped,
     CountsEachBatchOnce, zkVars, coordVars, dbVars, histVars
<1>4. QED
  BY <1>1, <1>2, <1>3 DEF IInv

LEMMA CommitterExecuteIInv ==
  ASSUME IInv, NEW a \in Attempts, NEW t \in Tasks, CommitterExecute(a, t)
  PROVE  IInv'
<1> USE DEF IInv, CommitterExecute, NotYetReceived, SumWith
<1>1. Types'
  BY DEF Types, zkVars, coordVars, dbVars, histVars
<1>2. ASSUME NEW b \in Attempts
      PROVE  received[b] \subseteq received'[b] /\ received'[b] \subseteq Tasks
  BY DEF Types
<1>3. MetaInv' /\ AttemptInv'
  BY <1>2 DEF Types, MetaInv, AttemptInv, BatchesTile, zkVars, coordVars,
     dbVars, histVars
<1>4. BoltInv'
  <2>1. ASSUME NEW b \in Attempts, b # a
        PROVE  received'[b] = received[b] /\ sum'[b] = sum[b]
    BY <2>1 DEF Types
  <2>2. received'[a] = received[a] \cup {t} /\ sum'[a] = sum[a] + count[a][t]
    BY DEF Types
  <2>3. Share(a, t) \subseteq executed[a]
    BY DEF BoltInv
  <2>4. count[a][t] = Cardinality(Share(a, t))
    <3>1. Share(a, t) \cap executed[a] = Share(a, t)
      BY <2>3
    <3>2. QED
      BY <3>1 DEF BoltInv
  <2>5. /\ Added(a)' = Added(a) \cup Share(a, t)
        /\ Added(a) \cap Share(a, t) = {}
    BY <2>2 DEF Added, Share
  <2>6. Cardinality(Added(a) \cup Share(a, t))
          = Cardinality(Added(a)) + Cardinality(Share(a, t))
    <3>1. Added(a) \in SUBSET Offsets /\ Share(a, t) \in SUBSET Offsets
      BY DEF Added, Share
    <3>2. QED
      BY <2>5, <3>1, AddShare
  <2>7. sum'[a] = Cardinality(Added(a)')
    BY <2>2, <2>4, <2>5, <2>6 DEF BoltInv
  <2>8. ASSUME NEW b \in Attempts
        PROVE  /\ b # a => Added(b)' = Added(b)
               /\ \A u \in Tasks : Share(b, u)' = Share(b, u)
    BY <2>1 DEF Added, Share
  <2>9. QED
    BY <2>1, <2>2, <2>7, <2>8 DEF BoltInv
<1>5. CommitInv' /\ DbInv'
  BY <1>2 DEF Types, CommitInv, DbInv, NothingSkipped, CountsEachBatchOnce,
     zkVars, coordVars, dbVars, histVars
<1>6. QED
  BY <1>1, <1>3, <1>4, <1>5
-----------------------------------------------------------------------------
LEMMA ProcessedIInv ==
  ASSUME IInv, NEW a \in Attempts, Processed(a)
  PROVE  IInv'
<1> USE DEF IInv, Processed
<1>1. BoltInv'
  BY BoltInvUnchanged
<1>2. Types' /\ MetaInv' /\ AttemptInv'
  BY AttemptsAssumption DEF Types, MetaInv, AttemptInv, BatchesTile, zkVars,
     boltVars, dbVars, histVars
<1>3. CommitInv' /\ DbInv'
  BY DEF CommitInv, DbInv, NothingSkipped, CountsEachBatchOnce, zkVars,
     boltVars, dbVars, histVars
<1>4. QED
  BY <1>1, <1>2, <1>3

LEMMA SendCommitIInv ==
  ASSUME IInv, SendCommit
  PROVE  IInv'
<1> USE DEF IInv, SendCommit
<1>1. BoltInv'
  BY BoltInvUnchanged
<1>2. attempt \in used /\ attempt \in Attempts /\ received[attempt] = Tasks
  BY DEF AttemptInv, Types
<1>3. Types' /\ MetaInv' /\ AttemptInv'
  <2>1. commits' \in Seq(Attempts)
    BY <1>2 DEF Types
  <2>2. Types'
    BY <2>1 DEF Types, zkVars, boltVars, histVars
  <2>3. MetaInv' /\ AttemptInv'
    BY <1>2, AttemptsAssumption
    DEF MetaInv, AttemptInv, BatchesTile, zkVars, boltVars
  <2>4. QED
    BY <2>2, <2>3
<1>4. CommitInv'
  <2>1. /\ commits \in Seq(Attempts)
        /\ Len(commits') = Len(commits) + 1
        /\ \A i \in 1 .. Len(commits) : commits'[i] = commits[i]
        /\ commits'[Len(commits')] = attempt
    BY <1>2 DEF Types
  <2>2. \A i \in 1 .. Len(commits) : commits[i] # attempt
    BY DEF CommitInv
  <2>3. attempt \notin acks /\ acks' = acks /\ used' = used
        /\ received' = received
    BY DEF CommitInv, boltVars
  <2>4. ASSUME NEW i \in 1 .. Len(commits')
        PROVE  commits'[i] \in used \ acks /\ received[commits'[i]] = Tasks
    <3>1. i \in 1 .. Len(commits) \/ i = Len(commits')
      BY <2>1
    <3>2. QED
      BY <1>2, <2>1, <2>3, <3>1 DEF CommitInv
  <2>5. ASSUME NEW i \in 1 .. Len(commits'), NEW j \in 1 .. Len(commits'),
               i # j
        PROVE  commits'[i] # commits'[j]
    <3>1. i \in 1 .. Len(commits) \/ i = Len(commits')
      BY <2>1
    <3>2. j \in 1 .. Len(commits) \/ j = Len(commits')
      BY <2>1
    <3>3. QED
      BY <2>1, <2>2, <2>5, <3>1, <3>2 DEF CommitInv
  <2>6. QED
    BY <2>1, <2>3, <2>4, <2>5 DEF CommitInv
<1>5. DbInv'
  BY DEF DbInv, NothingSkipped, CountsEachBatchOnce, zkVars, histVars
<1>6. QED
  BY <1>1, <1>3, <1>4, <1>5

(* Taking the first commit request off the channel leaves these. *)
OtherRequests(q) ==
  /\ q \in Seq(Attempts)
  /\ \A i \in 1 .. Len(q) :
       /\ q[i] \in used \ acks
       /\ received[q[i]] = Tasks
       /\ q[i] # Head(commits)
       /\ status \in {"processing", "processed"} => q[i] # attempt
  /\ \A i, j \in 1 .. Len(q) : i # j => q[i] # q[j]
  /\ status = "committing" => q = <<>> \/ q[Len(q)] = attempt

LEMMA TailCommits ==
  ASSUME Types, CommitInv, commits # <<>>
  PROVE  /\ Head(commits) \in used \ acks
         /\ received[Head(commits)] = Tasks
         /\ OtherRequests(Tail(commits))
<1> DEFINE q == Tail(commits)
<1>1. /\ commits \in Seq(Attempts) /\ Len(commits) \in Nat \ {0}
      /\ Head(commits) = commits[1]
  BY DEF Types
<1>2. /\ q \in Seq(Attempts) /\ Len(q) = Len(commits) - 1
      /\ \A i \in 1 .. Len(q) : q[i] = commits[i + 1]
  BY <1>1
<1> HIDE DEF q
<1>3. 1 \in 1 .. Len(commits)
  BY <1>1
<1>4. \A i \in 1 .. Len(q) : i + 1 \in 1 .. Len(commits) /\ i + 1 # 1
  BY <1>1, <1>2
<1>5. \A i \in 1 .. Len(q) :
        /\ q[i] \in used \ acks
        /\ received[q[i]] = Tasks
        /\ q[i] # Head(commits)
        /\ status \in {"processing", "processed"} => q[i] # attempt
  BY <1>1, <1>2, <1>3, <1>4 DEF CommitInv
<1>6. ASSUME NEW i \in 1 .. Len(q), NEW j \in 1 .. Len(q), i # j
      PROVE  q[i] # q[j]
  <2>1. i + 1 # j + 1
    BY <1>6
  <2>2. QED
    BY <1>2, <1>4, <2>1 DEF CommitInv
<1>7. ASSUME status = "committing", q # <<>>
      PROVE  q[Len(q)] = attempt
  <2>1. Len(q) \in 1 .. Len(q) /\ Len(q) + 1 = Len(commits)
    BY <1>1, <1>2, <1>7
  <2>2. QED
    BY <1>1, <1>2, <1>7, <2>1 DEF CommitInv
<1>8. Head(commits) \in used \ acks /\ received[Head(commits)] = Tasks
  BY <1>1, <1>3 DEF CommitInv
<1>9. OtherRequests(q)
  BY <1>2, <1>5, <1>6, <1>7 DEF OtherRequests
<1>10. QED
  BY <1>8, <1>9 DEF q

(* Applying a whole batch: either it is the next one, and is added, or it  *)
(* is already in the total, and nothing changes.                           *)
LEMMA ApplyBatch ==
  ASSUME Types, DbInv
  PROVE  /\ Apply(BatchNum) \in [txid : Nat, count : Nat]
         /\ Apply(BatchNum).txid = currTx
         /\ Apply(BatchNum) # NoValue
         /\ Apply(BatchNum).txid > base
         /\ Apply(BatchNum).count = BatchNum * (currTx - base)
         /\ \/ /\ dbMap # NoValue /\ dbMap.txid = currTx
               /\ Apply(BatchNum) = dbMap
            \/ /\ IF dbMap = NoValue THEN currTx = base + 1
                                    ELSE currTx = dbMap.txid + 1
               /\ Apply(BatchNum).count = dbMap.count + BatchNum
<1> DEFINE new == [txid |-> currTx, count |-> dbMap.count + BatchNum]
<1>1. /\ currTx \in Nat \ {0} /\ base \in Nat
      /\ dbMap \in [txid : Nat, count : Nat] /\ BatchNum \in Nat \ {0}
  BY BatchAssumption DEF Types
<1>2. new \in [txid : Nat, count : Nat] /\ new # NoValue
  BY <1>1 DEF NoValue
<1>3. CASE dbMap = NoValue
  <2>1. Apply(BatchNum) = new /\ dbMap.count = 0 /\ currTx = base + 1
    BY <1>3 DEF Apply, NoValue, DbInv, NothingSkipped
  <2>2. new.count = BatchNum * (currTx - base)
    BY <1>1, <2>1
  <2>3. QED
    BY <1>1, <1>2, <1>3, <2>1, <2>2
<1>4. CASE dbMap # NoValue /\ dbMap.txid # currTx
  <2>1. /\ Apply(BatchNum) = new /\ dbMap.txid = currTx - 1
        /\ dbMap.count = BatchNum * (dbMap.txid - base)
        /\ dbMap.txid > base
    BY <1>4 DEF Apply, DbInv, NothingSkipped, CountsEachBatchOnce
  <2>2. new.count = BatchNum * ((currTx - 1) - base) + BatchNum
    BY <1>1, <2>1
  <2>3. \A m \in Int : BatchNum * (m - 1) + BatchNum = BatchNum * m
    BY <1>1
  <2>4. new.count = BatchNum * (currTx - base)
    <3>1. currTx - base \in Int /\ (currTx - 1) - base = (currTx - base) - 1
      BY <1>1
    <3>2. QED
      BY <2>2, <2>3, <3>1
  <2>5. QED
    BY <1>1, <1>2, <1>4, <2>1, <2>4
<1>5. CASE dbMap # NoValue /\ dbMap.txid = currTx
  <2>1. Apply(BatchNum) = dbMap
    BY <1>5 DEF Apply
  <2>2. QED
    BY <1>1, <1>5, <2>1 DEF DbInv, CountsEachBatchOnce
<1>6. QED
  BY <1>3, <1>4, <1>5

LEMMA FinishCommitApplies ==
  ASSUME IInv, FinishCommit
  PROVE  dbMap' = Apply(BatchNum)
<1>1. Head(commits) \in Attempts /\ received[Head(commits)] = Tasks
  BY TailCommits DEF FinishCommit, IInv, Types
<1>2. sum[Head(commits)] = BatchNum
  BY <1>1, AllSharesMakeABatch DEF IInv
<1>3. QED
  BY <1>2 DEF FinishCommit

LEMMA FinishCommitIInv ==
  ASSUME IInv, FinishCommit
  PROVE  IInv'
<1> USE DEF IInv
<1>1. /\ commits # <<>> /\ commits' = Tail(commits)
      /\ acks' = acks \cup {Head(commits)}
      /\ UNCHANGED <<zkVars, coordVars, boltVars, histVars>>
  BY DEF FinishCommit
<1>2. BoltInv'
  BY <1>1, BoltInvUnchanged
<1>3. dbMap' = Apply(BatchNum)
  BY FinishCommitApplies
<1>4. /\ dbMap' \in [txid : Nat, count : Nat]
      /\ dbMap' # NoValue /\ dbMap'.txid = currTx /\ currTx > base
      /\ dbMap'.count = BatchNum * (currTx - base)
  BY <1>3, ApplyBatch
<1>5. /\ Head(commits) \in used \ acks
      /\ received[Head(commits)] = Tasks
      /\ commits' \in Seq(Attempts)
      /\ \A i \in 1 .. Len(commits') :
           /\ commits'[i] \in used \ acks
           /\ received[commits'[i]] = Tasks
           /\ commits'[i] # Head(commits)
           /\ status \in {"processing", "processed"} => commits'[i] # attempt
      /\ \A i, j \in 1 .. Len(commits') : i # j => commits'[i] # commits'[j]
      /\ status = "committing" =>
           commits' = <<>> \/ commits'[Len(commits')] = attempt
  <2>1. /\ Head(commits) \in used \ acks /\ received[Head(commits)] = Tasks
        /\ OtherRequests(Tail(commits))
    BY <1>1, TailCommits
  <2>2. OtherRequests(commits')
    BY <1>1, <2>1
  <2>3. QED
    BY <2>1, <2>2, Zenon DEF OtherRequests
<1>6. /\ Types' /\ MetaInv' /\ AttemptInv'
  BY <1>1, <1>4, <1>5 DEF Types, MetaInv, AttemptInv, BatchesTile, zkVars,
     coordVars, boltVars, histVars
<1>7. CommitInv'
  <2>1. status \in {"processing", "processed"} => attempt \notin acks'
    <3>1. 1 \in 1 .. Len(commits) /\ Head(commits) = commits[1]
      BY <1>1 DEF Types
    <3>2. QED
      BY <1>1, <3>1 DEF CommitInv
  <2>2. acks' \subseteq used
    BY <1>1, <1>5 DEF CommitInv
  <2>3. used' = used /\ received' = received /\ status' = status
        /\ attempt' = attempt
    BY <1>1 DEF coordVars, boltVars
  <2>4. QED
    BY <1>1, <1>5, <2>1, <2>2, <2>3 DEF CommitInv
<1>8. DbInv'
  <2>1. currTx' = currTx /\ base' = base
    BY <1>1 DEF zkVars, histVars
  <2>2. QED
    BY <1>4, <2>1 DEF DbInv, NothingSkipped, CountsEachBatchOnce
<1>9. QED
  BY <1>2, <1>6, <1>7, <1>8

LEMMA LoseCommitIInv ==
  ASSUME IInv, LoseCommit
  PROVE  IInv'
<1> USE DEF IInv
<1>1. /\ commits # <<>> /\ commits' = Tail(commits)
      /\ UNCHANGED <<zkVars, coordVars, boltVars, acks, dbMap, histVars>>
  BY DEF LoseCommit
<1>2. BoltInv'
  BY <1>1, BoltInvUnchanged
<1>3. /\ commits' \in Seq(Attempts)
      /\ \A i \in 1 .. Len(commits') :
           /\ commits'[i] \in used \ acks
           /\ received[commits'[i]] = Tasks
           /\ status \in {"processing", "processed"} => commits'[i] # attempt
      /\ \A i, j \in 1 .. Len(commits') : i # j => commits'[i] # commits'[j]
      /\ status = "committing" =>
           commits' = <<>> \/ commits'[Len(commits')] = attempt
  <2>1. /\ Head(commits) \in used \ acks /\ received[Head(commits)] = Tasks
        /\ OtherRequests(Tail(commits))
    BY <1>1, TailCommits
  <2>2. OtherRequests(commits')
    BY <1>1, <2>1
  <2>3. QED
    BY <2>1, <2>2, Zenon DEF OtherRequests
<1>4. Types' /\ MetaInv' /\ AttemptInv'
  BY <1>1, <1>3 DEF Types, MetaInv, AttemptInv, BatchesTile, zkVars,
     coordVars, boltVars, histVars
<1>5. CommitInv'
  BY <1>1, <1>3 DEF CommitInv, coordVars, boltVars
<1>6. DbInv'
  BY <1>1 DEF DbInv, NothingSkipped, CountsEachBatchOnce, zkVars, histVars
<1>7. QED
  BY <1>2, <1>4, <1>5, <1>6
LEMMA CommittedIInv ==
  ASSUME IInv, Committed
  PROVE  IInv'
<1> USE DEF IInv
<1>1. /\ ForgetAttempts /\ currTx' = currTx + 1
      /\ UNCHANGED <<meta, commits, dbMap, histVars>>
      /\ status = "committing" /\ attempt \in acks
  BY DEF Committed
<1>2. commits = <<>>
  <2>1. commits # <<>> => Len(commits) \in 1 .. Len(commits)
    BY DEF Types
  <2>2. QED
    BY <1>1, <2>1 DEF CommitInv
<1>3. BoltInv'
  BY <1>1, BoltInvForgotten
<1>4. Types'
  BY <1>1, ForgetTypes DEF Types, histVars
<1>5. MetaInv' /\ AttemptInv'
  <2>1. Len(meta) = currTx /\ meta' = meta /\ used' = {}
    BY <1>1 DEF MetaInv, AttemptInv, ForgetAttempts
  <2>2. MetaInv'
    <3>1. Len(meta') \in {currTx' - 1, currTx'}
      BY <1>1, <2>1 DEF Types
    <3>2. BatchesTile'
      BY <1>1 DEF MetaInv, BatchesTile
    <3>3. QED
      BY <2>1, <3>1, <3>2 DEF MetaInv
  <2>3. AttemptInv'
    BY <1>1 DEF ForgetAttempts, AttemptInv
  <2>4. QED
    BY <2>2, <2>3
<1>6. CommitInv'
  BY <1>1, <1>2 DEF ForgetAttempts, CommitInv
<1>7. DbInv'
  <2>1. dbMap.txid = currTx /\ dbMap' = dbMap /\ base' = base /\ acks' = {}
    BY <1>1 DEF DbInv, histVars, ForgetAttempts
  <2>2. dbMap # NoValue
    BY <2>1 DEF Types, NoValue
  <2>3. QED
    BY <1>1, <2>1, <2>2
    DEF Types, DbInv, NothingSkipped, CountsEachBatchOnce
<1>8. QED
  BY <1>3, <1>4, <1>5, <1>6, <1>7

LEMMA TimeoutIInv ==
  ASSUME IInv, Timeout
  PROVE  IInv'
<1> USE DEF IInv, Timeout
<1>1. BoltInv'
  BY BoltInvUnchanged
<1>2. Types' /\ MetaInv' /\ AttemptInv'
  BY DEF Types, MetaInv, AttemptInv, BatchesTile, zkVars, boltVars, dbVars,
     histVars
<1>3. CommitInv' /\ DbInv'
  BY DEF CommitInv, DbInv, NothingSkipped, CountsEachBatchOnce, zkVars,
     boltVars, dbVars, histVars
<1>4. QED
  BY <1>1, <1>2, <1>3

(* Both ways for the worker to die. *)
LEMMA RestartIInv ==
  ASSUME IInv, Restart, crashes' \in Nat
  PROVE  IInv'
<1> USE DEF IInv
<1>1. /\ ForgetAttempts
      /\ commits' = <<>> /\ dbMap' = NoValue /\ base' = currTx - 1
      /\ currTx' = currTx /\ meta' = meta
  BY DEF Restart, zkVars
<1>2. BoltInv'
  BY <1>1, BoltInvForgotten
<1>3. Types'
  BY <1>1, ForgetTypes DEF Types, NoValue
<1>4. MetaInv' /\ AttemptInv' /\ CommitInv'
  BY <1>1 DEF ForgetAttempts, MetaInv, BatchesTile, AttemptInv, CommitInv
<1>5. DbInv'
  BY <1>1 DEF ForgetAttempts, Types, DbInv, NothingSkipped,
     CountsEachBatchOnce
<1>6. QED
  BY <1>2, <1>3, <1>4, <1>5

LEMMA StutterIInv ==
  ASSUME IInv, UNCHANGED vars
  PROVE  IInv'
<1> USE DEF IInv, vars
<1>1. BoltInv'
  BY BoltInvUnchanged
<1>2. Types' /\ MetaInv' /\ AttemptInv' /\ CommitInv' /\ DbInv'
  BY DEF Types, MetaInv, AttemptInv, BatchesTile, CommitInv, DbInv,
     NothingSkipped, CountsEachBatchOnce, zkVars, coordVars, boltVars, dbVars,
     histVars
<1>3. QED
  BY <1>1, <1>2

LEMMA NextIInv == IInv /\ [Next]_vars => IInv'
<1> SUFFICES ASSUME IInv, [Next]_vars PROVE IInv'
  OBVIOUS
<1>1. ASSUME NEW a \in Attempts, StartAttempt(a)
      PROVE  IInv'
  BY <1>1, StartAttemptIInv
<1>2. ASSUME NEW a \in Attempts, BoltStep(a)
      PROVE  IInv'
  <2>1. CASE EmitBatch(a)
    BY <2>1, EmitBatchIInv
  <2>2. CASE EmitBeyondEnd(a)
    BY <2>2, RestartIInv DEF EmitBeyondEnd, IInv, Types
  <2>3. ASSUME NEW t \in Tasks, Execute(a, t)
        PROVE  IInv'
    BY <2>3, ExecuteIInv
  <2>4. ASSUME NEW t \in Tasks, FinishBatch(a, t)
        PROVE  IInv'
    BY <2>4, FinishBatchIInv
  <2>5. ASSUME NEW t \in Tasks, CommitterExecute(a, t)
        PROVE  IInv'
    BY <2>5, CommitterExecuteIInv
  <2>6. CASE Processed(a)
    BY <2>6, ProcessedIInv
  <2>7. QED
    BY <1>2, <2>1, <2>2, <2>3, <2>4, <2>5, <2>6 DEF BoltStep
<1>3. CASE SendCommit
  BY <1>3, SendCommitIInv
<1>4. CASE FinishCommit
  BY <1>4, FinishCommitIInv
<1>5. CASE LoseCommit
  BY <1>5, LoseCommitIInv
<1>6. CASE Committed
  BY <1>6, CommittedIInv
<1>7. CASE Timeout
  BY <1>7, TimeoutIInv
<1>8. CASE WorkerCrash
  <2>1. Restart /\ crashes' = crashes + 1 /\ crashes \in Nat
    BY <1>8 DEF WorkerCrash, IInv, Types
  <2>2. QED
    BY <2>1, RestartIInv
<1>9. CASE UNCHANGED vars
  BY <1>9, StutterIInv
<1>10. QED
  BY <1>1, <1>2, <1>3, <1>4, <1>5, <1>6, <1>7, <1>8, <1>9 DEF Next

LEMMA Invariance == Spec => []IInv
  BY InitIInv, NextIInv, PTL DEF Spec
-----------------------------------------------------------------------------
(* The type invariant of the run: on top of Types, no counter exceeds the  *)
(* batch.                                                                  *)
LEMMA IInvTypes == IInv => TypeOK
<1> SUFFICES ASSUME IInv PROVE TypeOK
  OBVIOUS
<1>1. ASSUME NEW a \in Attempts
      PROVE  sum[a] \in 0 .. BatchNum
  <2>1. Added(a) \in SUBSET Offsets
    BY DEF Added
  <2>2. sum[a] = Cardinality(Added(a))
    BY DEF IInv, BoltInv
  <2>3. QED
    BY <2>1, <2>2, OffsetsFinite
<1>2. ASSUME NEW a \in Attempts, NEW t \in Tasks
      PROVE  count[a][t] \in 0 .. BatchNum
  <2>1. Share(a, t) \cap executed[a] \in SUBSET Offsets
    BY DEF Share
  <2>2. count[a][t] = Cardinality(Share(a, t) \cap executed[a])
    BY DEF IInv, BoltInv
  <2>3. QED
    BY <2>1, <2>2, OffsetsFinite
<1>3. sum \in [Attempts -> 0 .. BatchNum]
  BY <1>1 DEF IInv, Types
<1>4. count \in [Attempts -> [Tasks -> 0 .. BatchNum]]
  <2>1. ASSUME NEW a \in Attempts
        PROVE  count[a] \in [Tasks -> 0 .. BatchNum]
    BY <1>2 DEF IInv, Types
  <2>2. QED
    BY <2>1 DEF IInv, Types
<1>5. QED
  BY <1>3, <1>4 DEF IInv, Types, TypeOK

(* Every variable of the topology stays in its type, and no count or sum   *)
(* of MyTransactionBolt or MyCommitter ever exceeds the batch.             *)
THEOREM TopologyTypes == Spec => []TypeOK
  BY Invariance, IInvTypes, PTL

(* MyCommitter's total is exact: every batch committed since the worker    *)
(* started is in it once, through replays, repeated and late commits.      *)
THEOREM ExactlyOnce == Spec => []CountsEachBatchOnce
<1>1. IInv => CountsEachBatchOnce
  BY DEF IInv, DbInv
<1>2. QED
  BY <1>1, Invariance, PTL

(* The total keeps up with the coordinator: at most one batch ahead, never *)
(* behind.                                                                 *)
THEOREM TotalKeepsUp == Spec => []NothingSkipped
<1>1. IInv => NothingSkipped
  BY DEF IInv, DbInv
<1>2. QED
  BY <1>1, Invariance, PTL

(* MyCoordinator's batches cover the source without gap or overlap.        *)
THEOREM NoGapNoOverlap == Spec => []BatchesTile
<1>1. IInv => BatchesTile
  BY DEF IInv, MetaInv
<1>2. QED
  BY <1>1, Invariance, PTL

(* Only complete batches reach MyCommitter.finishBatch.                    *)
THEOREM CommitsAreComplete == Spec => []WholeBatchesCommitted
<1>1. IInv => WholeBatchesCommitted
  <2> SUFFICES ASSUME IInv, NEW i \in 1 .. Len(commits)
               PROVE  sum[commits[i]] = BatchNum
    BY DEF WholeBatchesCommitted
  <2>1. commits[i] \in Attempts /\ received[commits[i]] = Tasks
    BY DEF IInv, Types, CommitInv
  <2>2. QED
    BY <2>1, AllSharesMakeABatch DEF IInv
<1>2. QED
  BY <1>1, Invariance, PTL
-----------------------------------------------------------------------------
(* What the ordered total shows as the transaction to be added next.       *)
NextToAdd == IF dbMap = NoValue THEN base + 1 ELSE dbMap.txid + 1

LEMMA InitTotal == Init => Total!Init
  BY DEF Init, Total!Init, NoValue

(* FinishCommit adds the next batch, or finds it added already. *)
LEMMA FinishCommitTotal ==
  ASSUME IInv, FinishCommit
  PROVE  Total!Apply \/ UNCHANGED Total!totalVars
<1>1. dbMap' = Apply(BatchNum) /\ base' = base
  BY FinishCommitApplies DEF FinishCommit, histVars
<1>2. /\ dbMap' # NoValue /\ dbMap'.txid = currTx
      /\ \/ dbMap # NoValue /\ dbMap.txid = currTx /\ dbMap' = dbMap
         \/ /\ IF dbMap = NoValue THEN currTx = base + 1
                                  ELSE currTx = dbMap.txid + 1
            /\ dbMap'.count = dbMap.count + BatchNum
  BY <1>1, ApplyBatch DEF IInv
<1>3. CASE dbMap' = dbMap
  BY <1>1, <1>3 DEF Total!totalVars
<1>4. CASE /\ NextToAdd = currTx
           /\ dbMap'.count = dbMap.count + BatchNum
  BY <1>1, <1>2, <1>4 DEF Total!Apply, NextToAdd
<1>5. QED
  BY <1>2, <1>3, <1>4 DEF NextToAdd

(* A restart resumes at the current transaction, which is the next one or, *)
(* if the commit was carried out but not recorded, the one before.         *)
LEMMA RestartTotal ==
  ASSUME IInv, Restart
  PROVE  Total!Restart
<1>1. dbMap' = NoValue /\ base' = currTx - 1 /\ currTx \in Nat \ {0}
  BY DEF Restart, IInv, Types
<1>2. NextToAdd' = currTx /\ dbMap'.count = 0
  BY <1>1 DEF NextToAdd, NoValue
<1>3. /\ currTx \in {NextToAdd, NextToAdd - 1}
      /\ dbMap # NoValue => dbMap.txid \in Nat
  BY <1>1 DEF IInv, Types, DbInv, NothingSkipped, NextToAdd
<1>4. QED
  BY <1>2, <1>3 DEF Total!Restart, NextToAdd

LEMMA StepTotal == IInv /\ [Next]_vars => [Total!Next]_(Total!totalVars)
<1> SUFFICES ASSUME IInv, [Next]_vars PROVE [Total!Next]_(Total!totalVars)
  OBVIOUS
<1>1. ASSUME UNCHANGED <<dbMap, base>>
      PROVE  UNCHANGED Total!totalVars
  BY <1>1 DEF Total!totalVars
<1>2. ASSUME NEW a \in Attempts, StartAttempt(a)
      PROVE  UNCHANGED Total!totalVars
  BY <1>1, <1>2 DEF StartAttempt, dbVars, histVars
<1>3. ASSUME NEW a \in Attempts, BoltStep(a)
      PROVE  Total!Restart \/ UNCHANGED Total!totalVars
  <2>1. CASE EmitBatch(a)
    BY <1>1, <2>1 DEF EmitBatch, dbVars, histVars
  <2>2. CASE EmitBeyondEnd(a)
    BY <2>2, RestartTotal DEF EmitBeyondEnd
  <2>3. ASSUME NEW t \in Tasks,
               Execute(a, t) \/ FinishBatch(a, t) \/ CommitterExecute(a, t)
        PROVE  UNCHANGED Total!totalVars
    BY <1>1, <2>3 DEF Execute, FinishBatch, CommitterExecute, dbVars, histVars
  <2>4. CASE Processed(a)
    BY <1>1, <2>4 DEF Processed, dbVars, histVars
  <2>5. QED
    BY <1>3, <2>1, <2>2, <2>3, <2>4 DEF BoltStep
<1>4. CASE SendCommit \/ LoseCommit \/ Committed \/ Timeout
  BY <1>1, <1>4
  DEF SendCommit, LoseCommit, Committed, Timeout, dbVars, histVars
<1>5. CASE FinishCommit
  BY <1>5, FinishCommitTotal DEF Total!Next
<1>6. CASE WorkerCrash
  BY <1>6, RestartTotal DEF WorkerCrash, Total!Next
<1>7. CASE UNCHANGED vars
  BY <1>1, <1>7 DEF vars, dbVars, histVars
<1>8. QED
  BY <1>2, <1>3, <1>4, <1>5, <1>6, <1>7 DEF Next, Total!Next

(* The transactional topology implements the ordered total: seen through   *)
(* MyCommitter's dbMap, every step adds the next batch, changes nothing,   *)
(* or is a restart of the worker.                                          *)
THEOREM TopologyImplementsTotal == Spec => ImplementsTotal
  BY InitTotal, StepTotal, Invariance, PTL
  DEF Spec, ImplementsTotal, Total!Spec
=============================================================================
