------------------------------- MODULE TxCount -------------------------------
(***************************************************************************)
(* Storm-Projects, package transactions: the transactional topology of     *)
(* MyTopo.  MyCoordinator cuts the source into batches, MyEmitter emits    *)
(* the records of a batch to the tasks of MyTransactionBolt, every task    *)
(* counts its share, and MyCommitter adds the shares and commits the sum   *)
(* to a global total, skipping a transaction it has already applied.       *)
(*                                                                         *)
(* Storm itself is external: it keeps the number of the current            *)
(* transaction and the metadata of the batches in ZooKeeper, starts a new  *)
(* attempt of a transaction whose tuples time out, sends the commit of an  *)
(* attempt down one FIFO channel to the committer, and restarts the worker *)
(* process when it dies.  MyTopo leaves topology.max.spout.pending unset,  *)
(* so one transaction is active at a time, and asks for no more than the   *)
(* default single worker, so a crash takes every task with it.             *)
(***************************************************************************)
EXTENDS Integers, FiniteSets, Sequences

CONSTANTS
  NumRecords,  \* records in the source (100 in MyTxSpout)
  BatchNum,    \* records in a batch (BATCH_NUM, 10)
  Tasks,       \* the tasks of MyTransactionBolt (3 in MyTopo)
  Attempts,    \* attempt ids Storm may draw for one transaction
  NoAttempt,   \* no attempt in progress
  MaxCrashes   \* bound on the worker crashes the environment inflicts

ASSUME BatchAssumption ==
  /\ NumRecords \in Nat
  /\ BatchNum \in Nat \ {0}
  /\ MaxCrashes \in Nat
ASSUME AttemptsAssumption == NoAttempt \notin Attempts
ASSUME TasksAssumption ==
  /\ IsFiniteSet(Tasks)
  /\ Tasks # {}
  /\ Cardinality(Tasks) <= BatchNum  \* every task gets a share of the batch

NoMeta == [beginPoint |-> -1, num |-> 0]
NoValue == [txid |-> 0, count |-> 0]   \* dbMap has no GLOBAL_KEY

VARIABLES
  \* kept by Storm in ZooKeeper
  currTx,    \* the transaction being processed; Storm counts from 1
  meta,      \* MyMeta of the transactions initialized so far
  \* the coordinator's memory
  attempt,   \* the attempt in progress, or NoAttempt
  status,    \* how far it is
  used,      \* attempt ids drawn for currTx
  \* one instance of the bolts per attempt
  emitted,   \* attempts whose batch MyEmitter has emitted
  share,     \* the task each record of the attempt's batch was sent to
  executed,  \* the records MyTransactionBolt has counted
  count,     \* MyTransactionBolt.count of each task
  reported,  \* tasks whose finishBatch has emitted the count
  received,  \* tasks whose count MyCommitter has added up
  sum,       \* MyCommitter.sum
  \* the commit phase
  commits,   \* commit requests on their way to the committer
  acks,      \* attempts whose commit has been carried out
  dbMap,     \* MyCommitter.dbMap.get(GLOBAL_KEY)
  \* history
  base,      \* transactions committed before this worker started
  crashes    \* worker crashes so far

zkVars    == <<currTx, meta>>
coordVars == <<attempt, status, used>>
boltVars  == <<emitted, share, executed, count, reported, received, sum>>
dbVars    == <<commits, acks, dbMap>>
histVars  == <<base, crashes>>
vars == <<zkVars, coordVars, boltVars, dbVars, histVars>>

Offsets == 0 .. BatchNum - 1

(* A bolt instance is created, by prepare, for each attempt it sees. *)
NoShares   == [a \in Attempts |-> [o \in Offsets |-> CHOOSE t \in Tasks : TRUE]]
NoCounts   == [a \in Attempts |-> [t \in Tasks |-> 0]]
Nothing    == [a \in Attempts |-> {}]
InitialSum == [a \in Attempts |-> 0]

Init ==
  /\ currTx = 1
  /\ meta = <<>>
  /\ attempt = NoAttempt /\ status = "idle" /\ used = {}
  /\ emitted = {} /\ share = NoShares /\ executed = Nothing /\ count = NoCounts
  /\ reported = Nothing /\ received = Nothing /\ sum = InitialSum
  /\ commits = <<>> /\ acks = {} /\ dbMap = NoValue
  /\ base = 0 /\ crashes = 0
-----------------------------------------------------------------------------
(* MyCoordinator.initializeTransaction: begin where the previous batch     *)
(* ends.                                                                   *)
BeginPointShort(prev) ==               \* mutant: re-reads the last record
  IF prev = NoMeta THEN 0 ELSE prev.beginPoint + prev.num - 1
BeginPoint(prev) == IF prev = NoMeta THEN 0 ELSE prev.beginPoint + prev.num

InitializeTransaction(prev) == [beginPoint |-> BeginPoint(prev), num |-> BatchNum]

(* The coordinator starts an attempt of the current transaction; isReady   *)
(* always agrees.  Metadata already in ZooKeeper is used again, so that a  *)
(* replay is of the same batch.                                            *)
StoredMeta(m) ==
  IF currTx <= Len(m) THEN m
  ELSE Append(m, InitializeTransaction(IF m = <<>> THEN NoMeta ELSE m[Len(m)]))

StartAttempt(a) ==
  /\ status = "idle"
  /\ a \notin used
  /\ attempt' = a
  /\ status' = "processing"
  /\ used' = used \cup {a}
  /\ meta' = StoredMeta(meta)
  /\ UNCHANGED <<currTx, boltVars, dbVars, histVars>>

HasRecord(i) == i < NumRecords

(* MyEmitter.emitBatch, when the source holds all the records: shuffle     *)
(* grouping deals them out evenly.                                         *)
EvenShares ==
  {f \in [Offsets -> Tasks] :
     \A t, u \in Tasks :
       Cardinality({o \in Offsets : f[o] = t})
         <= Cardinality({o \in Offsets : f[o] = u}) + 1}

Batch == meta[currTx]

EmitBatch(a) ==
  /\ a \in used \ emitted
  /\ \A o \in Offsets : HasRecord(Batch.beginPoint + o)
  /\ emitted' = emitted \cup {a}
  /\ \E f \in EvenShares : share' = [share EXCEPT ![a] = f]
  /\ UNCHANGED <<zkVars, coordVars, executed, count, reported, received, sum,
                 dbVars, histVars>>

Share(a, t) == {o \in Offsets : share[a][o] = t}

(* MyTransactionBolt.execute: every log line of the source is non-empty.   *)
Execute(a, t) ==
  /\ a \in emitted
  /\ \E o \in Share(a, t) \ executed[a] :
       executed' = [executed EXCEPT ![a] = @ \cup {o}]
  /\ count' = [count EXCEPT ![a][t] = @ + 1]
  /\ UNCHANGED <<zkVars, coordVars, emitted, share, reported, received, sum,
                 dbVars, histVars>>

(* MyTransactionBolt.finishBatch: Storm calls it when the task has seen    *)
(* its whole share.                                                        *)
FinishBatch(a, t) ==
  /\ a \in emitted
  /\ Share(a, t) \subseteq executed[a]
  /\ t \notin reported[a]
  /\ reported' = [reported EXCEPT ![a] = @ \cup {t}]
  /\ UNCHANGED <<zkVars, coordVars, emitted, share, executed, count, received,
                 sum, dbVars, histVars>>

(* MyCommitter.execute *)
SumOverwritten(a, t) == count[a][t]    \* mutant: = instead of +=
SumWith(a, t) == sum[a] + count[a][t]

(* Storm delivers each count emitted under an attempt once.                *)
DeliveredAgain(a, t) == t \in reported[a]   \* mutant: duplicates come through
NotYetReceived(a, t) == t \in reported[a] \ received[a]

CommitterExecute(a, t) ==
  /\ NotYetReceived(a, t)
  /\ received' = [received EXCEPT ![a] = @ \cup {t}]
  /\ sum' = [sum EXCEPT ![a] = SumWith(a, t)]
  /\ UNCHANGED <<zkVars, coordVars, emitted, share, executed, count, reported,
                 dbVars, histVars>>
-----------------------------------------------------------------------------
(* Storm: all tuples of the attempt in progress have been acknowledged.    *)
Processed(a) ==
  /\ attempt = a /\ status = "processing"
  /\ a \in emitted
  /\ received[a] = Tasks
  /\ status' = "processed"
  /\ UNCHANGED <<zkVars, attempt, used, boltVars, dbVars, histVars>>

(* Storm: the commit request of a processed attempt is sent. *)
SendCommit ==
  /\ status = "processed"
  /\ status' = "committing"
  /\ commits' = Append(commits, attempt)
  /\ UNCHANGED <<zkVars, attempt, used, boltVars, acks, dbMap, histVars>>

(* MyCommitter.finishBatch compares the transaction id of the attempt with *)
(* the one stored with the total, and applies the sum only if they differ. *)
(* All attempts in play belong to currTx.                                  *)
ApplyAlways(s) ==                      \* mutant: no txid check
  [txid |-> currTx, count |-> dbMap.count + s]
ApplyForgetful(s) ==                   \* mutant: the old total is dropped
  IF dbMap = NoValue \/ dbMap.txid # currTx
  THEN [txid |-> currTx, count |-> s] ELSE dbMap
ApplyUnstamped(s) ==                   \* mutant: newValue.txid never set
  IF dbMap = NoValue \/ dbMap.txid # currTx
  THEN [txid |-> dbMap.txid, count |-> dbMap.count + s] ELSE dbMap
Apply(s) ==
  IF dbMap = NoValue \/ dbMap.txid # currTx
  THEN [txid |-> currTx, count |-> dbMap.count + s] ELSE dbMap

FinishCommit ==
  /\ commits # <<>>
  /\ dbMap' = Apply(sum[Head(commits)])
  /\ acks' = acks \cup {Head(commits)}
  /\ commits' = Tail(commits)
  /\ UNCHANGED <<zkVars, coordVars, boltVars, histVars>>

(* Storm: a commit request is lost, or the committer has forgotten the     *)
(* attempt by the time the request arrives.                                *)
LoseCommit ==
  /\ commits # <<>>
  /\ used # Attempts
  /\ commits' = Tail(commits)
  /\ UNCHANGED <<zkVars, coordVars, boltVars, acks, dbMap, histVars>>

(* Storm forgets the attempts of a transaction, and the bolt instances     *)
(* with them.                                                              *)
ForgetAttempts ==
  /\ attempt' = NoAttempt /\ status' = "idle" /\ used' = {}
  /\ emitted' = {} /\ share' = NoShares /\ executed' = Nothing
  /\ count' = NoCounts /\ reported' = Nothing /\ received' = Nothing
  /\ sum' = InitialSum
  /\ acks' = {}

(* Storm: the commit of the attempt in progress is acknowledged and the    *)
(* next transaction begins.                                                *)
Committed ==
  /\ status = "committing"
  /\ attempt \in acks
  /\ currTx' = currTx + 1
  /\ ForgetAttempts
  /\ UNCHANGED <<meta, commits, dbMap, histVars>>

(* Storm: the attempt in progress times out.  Its tuples, and its commit   *)
(* request if it was sent, may still be on their way.  The last attempt id *)
(* neither times out nor loses its commit: the bound on replays.           *)
Timeout ==
  /\ status # "idle"
  /\ used # Attempts
  /\ attempt' = NoAttempt /\ status' = "idle"
  /\ UNCHANGED <<zkVars, used, boltVars, dbVars, histVars>>

(* Storm: the worker dies and is started again: only ZooKeeper remembers.  *)
Restart ==
  /\ ForgetAttempts
  /\ commits' = <<>> /\ dbMap' = NoValue
  /\ base' = currTx - 1
  /\ UNCHANGED zkVars

WorkerCrash ==
  /\ crashes < MaxCrashes
  /\ crashes' = crashes + 1
  /\ Restart

(* MyEmitter.emitBatch beyond the end of the source:                       *)
(* dbMap.get(i).equals(null) is called on null, and the exception kills    *)
(* the worker.                                                             *)
EmitBeyondEnd(a) ==
  /\ a \in used \ emitted
  /\ \E o \in Offsets : ~HasRecord(Batch.beginPoint + o)
  /\ Restart
  /\ UNCHANGED crashes

BoltStep(a) ==
  \/ EmitBatch(a)
  \/ EmitBeyondEnd(a)
  \/ \E t \in Tasks : Execute(a, t) \/ FinishBatch(a, t) \/ CommitterExecute(a, t)
  \/ Processed(a)

Next ==
  \/ \E a \in Attempts : StartAttempt(a) \/ BoltStep(a)
  \/ SendCommit \/ FinishCommit \/ LoseCommit \/ Committed
  \/ Timeout \/ WorkerCrash

Spec == Init /\ [][Next]_vars

(* Storm's threads make progress, and an attempt that does not complete    *)
(* times out.                                                              *)
Fairness ==
  /\ \A a \in Attempts : WF_vars(StartAttempt(a)) /\ WF_vars(BoltStep(a))
  /\ WF_vars(SendCommit)
  /\ WF_vars(FinishCommit)
  /\ WF_vars(Committed)
  /\ WF_vars(Timeout)

FairSpec == Spec /\ Fairness
-----------------------------------------------------------------------------
(* Type invariant of the topology. *)
TypeOK ==
  /\ currTx \in Nat \ {0}
  /\ meta \in Seq([beginPoint : Int, num : {BatchNum}])
  /\ attempt \in Attempts \cup {NoAttempt}
  /\ status \in {"idle", "processing", "processed", "committing"}
  /\ used \in SUBSET Attempts
  /\ emitted \in SUBSET Attempts
  /\ share \in [Attempts -> [Offsets -> Tasks]]
  /\ executed \in [Attempts -> SUBSET Offsets]
  /\ count \in [Attempts -> [Tasks -> 0 .. BatchNum]]
  /\ reported \in [Attempts -> SUBSET Tasks]
  /\ received \in [Attempts -> SUBSET Tasks]
  /\ sum \in [Attempts -> 0 .. BatchNum]
  /\ commits \in Seq(Attempts)
  /\ acks \in SUBSET Attempts
  /\ dbMap \in [txid : Nat, count : Nat]
  /\ base \in Nat
  /\ crashes \in Nat

(* MyCommitter's total holds every batch committed since the worker        *)
(* started exactly once, however often batches were replayed, commits were *)
(* repeated or acknowledgements came late.                                 *)
CountsEachBatchOnce ==
  dbMap # NoValue => dbMap.count = BatchNum * (dbMap.txid - base)

(* The total is never behind what the coordinator has recorded as          *)
(* committed since the worker started, and at most one batch ahead.        *)
NothingSkipped ==
  IF dbMap = NoValue THEN currTx = base + 1
  ELSE dbMap.txid \in {currTx - 1, currTx}

(* The batches of MyCoordinator cover the source without gap or overlap,   *)
(* also when the coordinator was restarted between two of them.            *)
BatchesTile ==
  \A k \in 1 .. Len(meta) : meta[k].beginPoint = (k - 1) * BatchNum

(* Only a whole batch is ever committed: a commit request on its way       *)
(* belongs to an attempt whose shares have all been added up.              *)
WholeBatchesCommitted ==
  \A i \in 1 .. Len(commits) : sum[commits[i]] = BatchNum

(* Liveness: without crashes every record of the source gets counted, in   *)
(* spite of timeouts and lost commit requests.                             *)
AllRecordsCounted == MaxCrashes = 0 => <>(dbMap.count = NumRecords)

(* The topology implements the total of its abstract specification. *)
Total == INSTANCE OrderedTotal
           WITH BatchSize <- BatchNum,
                total <- dbMap.count,
                next <- IF dbMap = NoValue THEN base + 1 ELSE dbMap.txid + 1

ImplementsTotal == Total!Spec
=============================================================================
