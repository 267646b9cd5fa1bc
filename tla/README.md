# A verification of BigDataNote's stateful programs in TLA+

BigDataNote collects a developer's working programs around big data: Storm
topologies, Spark and Hadoop jobs, ZooKeeper, Kafka and Redis clients, rate
limiters, servlets and scripts. They live side by side under `WorkSpace/`, each
with a build of its own, and share no code. What they have in common is that the
interesting ones are small concurrent or distributed protocols, written against a
framework (Storm, Spark, ZooKeeper, the JVM) that repeats, reorders, kills and
restarts them. Those are the subject of these specifications.

Paths below are relative to `src/WorkSpace/`.

## 1. Inventory

### Modelled

| Part | State | Operations | Interacts with |
|---|---|---|---|
| **Concurrency limiter**: `Test_Limit/.../Simple/SimpleLimit.java` | `requestCount`, an AtomicInteger; the start latch | `doRequest` (decrement, look, increment in `finally`), `main` | request threads share the counter |
| **Time-window limiter**: `Test_Limit/.../TimeWindow/TimeLimit.java` | `counter`, a Guava cache from seconds to counters, its entries expiring two seconds after they were written; the flag `exit` | `doRequest` (clock, lookup, increment, second lookup), `main` | request threads share the cache and the clock |
| **Transactional topology**: `Storm-Projects/.../transactions/` | metadata of the batches (in ZooKeeper, by Storm), a count per task and attempt, a sum per attempt, the static total `dbMap` | `initializeTransaction`, `emitBatch`, `execute` and `finishBatch` of the bolt and of the committer | tuples between spout, 3 bolt tasks and 1 committer; commit requests; restarts by Storm |
| **Connection pool**: `Spark-Projects/.../stream/ConnectionPool.java`, `PersistWordCount.java` | a static `LinkedList` of connections | `getConnection` (synchronized), `returnConnection` (not), the partition function | task threads of one executor share the list |
| **ZooKeeper lock**: `Zookeeper-Projects/.../LockFactory.java`, `Lock.java`, `Main.java` | an ephemeral znode `ip:lock` / `ip:unlock`, one session per JVM | `getLock`, `lock`, `unLock`, `isLock` | processes on several hosts, through the ZooKeeper server |
| **ZooKeeper configuration**: `Zookeeper-Projects/.../MyClient.java`, `SetConfig.java` | the znodes `url`, `username`, `passwd`; the client's three fields, its one-shot watches and event queue | `initValue` (three reads), `process`, `SetConfig.main` | the client's main and event threads share the fields; changes reach it as events |
| **Reliable word count**: `Storm-Projects/.../storm/topology/` and `.../storm/trident1/test/` | the spout's `tuples` and `retries`, `CountBolt.wordcounts` | `nextTuple`, `ack`, `fail`, `execute` of the bolts | tuples anchored to the spout's emission, tracked by Storm's acker |
| **Shortest path**: `Hadoop-Projects/mapr/.../shortestpath/` | a line per node with distance and backpointer, the job's counter, the number of the job | `createInputFile`, `map`, `reduce`, the loop of `main` | jobs, each reading the files the last one wrote |
| **Online users**: `Java_Performance_tuning/.../SignletonLogin/` | the static Vector of `UserList`; a session attribute per browser | `doGet`, `valueBound`, `valueUnbound`, the enumeration | requests and the container's expiry of sessions share the list |

What is hard in each, and what makes it correct:

* **Limiter.** The check comes after the decrement, so the counter goes below
  zero and a rejected request holds a token for a moment. Correct means: never
  more than `Limit` requests served at once, tokens are conserved, nobody is
  rejected while fewer than `Limit` requests have been accepted, everybody gets an
  answer.
* **Time window.** Time passes between the steps of a request, so the counter that
  a request looks up, or looks up again, may not be the one its second began with.
  Correct means: each second accepts at most `Limit` requests, rejects nobody before
  that, and reports counts that include the request itself.
* **Transactional topology.** Storm replays a batch whose tuples time out, a commit
  request can be lost, carried out twice, or acknowledged late, several attempts
  of one batch are in the bolts at the same time, and a dying worker takes the
  static total with it while the transaction number survives in ZooKeeper.
  Correct means: each batch counted exactly once and completely, batches that tile
  the source, and a total that is level with the coordinator.
* **Pool.** `push` runs outside the monitor that `poll` runs in. Correct means: no
  connection is used by two tasks; what is given back stays in the pool; null is
  handed out only when there is nothing to hand out.
* **Lock.** `exists` and `create` are separate requests, every exception of the
  first is swallowed, a reply may be lost although the request took effect, a
  process may be restarted before its old session expires, and a session may
  expire under a process that still runs. Correct means: one holder.
* **Configuration.** A watch is used up by the event it causes and renewed by the next
  read; an exception skips the remaining reads with their watches; `url` has none; and two threads
  run `initValue`. Correct means: a client with nothing left to do shows the current
  configuration, and a failure does not make it deaf.
* **Word count.** Replays overlap with late tuples of earlier emissions, and
  `ack` and `fail` of one message race. Correct means: what is acknowledged has
  been counted; what may still fail can be replayed; over-counting is bounded by
  the number of emissions; no sentence stays in the cache for ever.
* **Shortest path.** The values of a key come in any order, ties replace backpointers that
  were already right, a missing one is written as the text `null`, and what `reduce` cannot
  handle (a name without a line, a node without neighbours) fails a job whose result nobody
  looks at. Correct means: distances are shortest, the backpointers spell the walks, and the
  loop ends when the target is reached and only then.
* **Online users.** The new user of a session is entered before the old one is taken out, two
  requests of one session overlap, equal names are told apart by nothing, and the
  enumeration goes by index while elements move. Correct means: the list agrees with the sessions, and
  a listing is off by no more than those who left while it was made.

### Not modelled

* **Future**, `Java_Performance_tuning/.../FutureModel/`: `wait` in a while loop and one `notifyAll` under
  one monitor, one waiter and one setter. A model would be as long as the code and no
  interleaving of it is in doubt.
* **Online listener**, `MyServlet/.../divideModule/OnlineListener.java`: the timer removes from a
  `HashMap` while it iterates over it, but nothing in the repository puts anything into that
  map, so there is no writer to model.
* **Data collection**, `ReceiveData/.../serviceImpl.java`: a line appended under a monitor and a
  file read without it. What the reader may see of an append in progress is decided by
  buffers and the file system, not by this code.
* **Lottery recorder**, `lottery-predict/record/`: whether rows written without a commit survive is
  decided by the storage engine and the driver's autocommit.

Left out, because there is no state of their own to get wrong: the ZooKeeper API demos
(`ZkTest`, `ZkTest2`, `Auth`), the distributed limiters (their counters are in Redis
or nginx), Kafka and Redis clients, the other MapReduce, HBase and Hive jobs, the Spark
and Scala pipelines and the Trident topologies (library operations evaluated by the
framework), servlet, Spring and design-pattern demos, the predictors, crawlers and
neural-network scripts. Left out as third-party code: the vendored `storm-starter-master`, and the copies of jQuery,
jQuery UI and Bootstrap under `hadoop2/WebContent`, which are the repository's only JavaScript
of any length and are none of its own.

`PROJECT.json` lists each of these as a component, and under "hazards" the places where
the code is hard to test, with the properties that cover them or the reason none does.

## 2. Modules and plan

| Module | Role |
|---|---|
| `AdmissionGate` | abstract: what a concurrency limiter promises |
| `SimpleLimit` | the limiter, shown to implement `AdmissionGate` |
| `TimeLimit` | the time-window limiter with its cache and clock |
| `OrderedTotal` | abstract: one total, batches added once and in order |
| `TxCount` | the transactional topology, shown to implement `OrderedTotal`; `MCTxCount` holds the symmetry |
| `ConnectionPool` | the pool with its caller |
| `ZkLock` | the lock over ZooKeeper; `MCZkLock` holds hosts and addresses |
| `ZkConfig` | the configuration: client, publisher, server and an operator |
| `SentenceCount` | the word count, both packages; `MCSentenceCount` holds sentences |
| `ShortestPath` | the search by MapReduce; `MCShortestPath` holds the graphs |
| `LoginUserList` | the list of online users; `MCLoginUserList` holds the symmetry |
| `LimiterProofs` | theorems on `TimeLimit`, which it extends, and on `SimpleLimit`, which it instantiates |
| `TxCountProofs`, `ConnectionPoolProofs`, `ZkLockProofs`, `ZkConfigProofs`, `SentenceCountProofs`, `ShortestPathProofs`, `LoginUserListProofs` | theorems, each on the module it is named after |

Next: an abstract search (distances of a breadth-first search after so many rounds) that
`ShortestPath` refines, to which the other copy of the job in the repository,
`shortestpath2`, could be related as well.

## 3. How the models correspond to the code

An action is one handler or, where other threads or requests can come in between, one
atomic piece of it. "map" in `PROJECT.json` gives the lines of every definition.
Definitions marked `mutant:` in the modules are wrong variants of the definition that
follows them; nothing uses them, they exist to show that a property can fail.

**SimpleLimit.** `Start`, `CountDown`, `Await` are `main` and the latch; `Decrement` is
`decrementAndGet` with the branch it decides, `Increment` the `finally` block. The
request itself is a print statement between the two.

**TimeLimit.** `now` counts ticks, `Second` of them to a second, from the moment the
latch opens, which may be anywhere within a second (`Init`). `ReadClock`, `Lookup`,
`Increment`, `Report` are the four shared accesses of `doRequest`; `Wake` ends the sleep,
`Exit` is `main`. `Get` is the cache: it loads a counter if there is no entry or the entry
was written `ExpiresAfter` ticks ago. `Tick` may not leave a request in progress for more than
`MaxDelay`, nor let `main` oversleep, which would only lengthen the run. The cache
measures its expiry with `System.nanoTime`, the requests read
`currentTimeMillis`; the model has one clock for both, that is, it leaves out that the wall
clock can be set.

**TxCount.** `StartAttempt` is Storm asking the coordinator for a transaction
(`initializeTransaction`, `isReady`); metadata already in ZooKeeper is reused.
`EmitBatch`, `Execute`, `FinishBatch`, `CommitterExecute`, `FinishCommit` are the
callbacks of emitter, bolt and committer. The records a task receives are a share of
the batch's offsets, dealt evenly as Storm's shuffle grouping does; the log lines
themselves are all non-empty and are not represented. `Processed`, `SendCommit`,
`LoseCommit`, `Committed`, `Timeout`, `WorkerCrash`, `Restart` are Storm. Transactions
run one at a time because `MyTopo` leaves `topology.max.spout.pending` unset; commit
requests use one FIFO stream to the single committer task, so attempts of an earlier
transaction cannot commit after a later one has begun. `EmitBeyondEnd` is the null
dereference of `MyEmitter.java:27`: `dbMap.get(i).equals(null)` throws on the missing
record it is meant to skip. The uncaught exception ends the worker, so the model
restarts it; on a `LocalCluster` the JVM stays down. `base` is a history variable:
transactions committed before this worker started.

**ConnectionPool.** The list is modelled as `java.util.LinkedList` is written: `poll`
reads `first`, then the node, then clears the node and moves `first` on; `push` reads
`first`, then stores a new node. The thread may stop between any two of those steps. Only
`poll` touches the fields of an existing node, always inside the monitor; `next` of a new
node is written before it is published. The data race on `first` is between a read in
`push`, whose value is used arbitrarily later, and the stores of other threads; `prev`,
`last` and `size` are not read by these two methods. What the Java memory model permits
beyond that, a published node whose final `item` is seen but whose `next` is not, is not
modelled. `raced` is history: a push or a poll has begun while another thread was between two
steps of one. `Fail` is an exception of the insert, or of `createStatement` on null.

**ZkLock.** One action per request: `Exists`, `GetData`, `CreateZnode`, and, for `lock`
and `unLock`, `StartSet` (their `exists`) and `SetData`. Each has a branch in which the
request fails, and `CreateZnode` one in which it succeeds and its reply is lost.
`IpArg` is the argument of `getLock`. `Main` passes `InetAddress.toString()`, which is
`host/address` and therefore equals no `getHostAddress()`; `MCZkLock` uses such values.
`isLock` only reads. A process whose `getLock` throws ends (`down`) and may be
started again with a new session.

**ZkConfig.** `Read` is one `getData` of `initValue`, with the watch it sets at the server,
`Assign` the assignment of what it returned, `ReadFails` the exception that ends the call
(no such znode, a lost connection, an ended session). Between them the other thread, or a
change, may come. `Process` takes an event: `NodeDataChanged` calls `initValue`, `NodeDeleted`,
the only other event these watches can cause, is printed. `Exists` and `Create` are `SetConfig`'s
requests; it may be started at any time and fail anywhere. Nothing in the repository changes a
configuration that exists, so the operator (`Plan`, `Change`) is external: either it changes and
removes single nodes, or all of them in the order in which `SetConfig`
creates them (and its lines 49 to 52, commented out, delete them). Contents
are numbers of writes. A watch that was set survives a lost connection, since the ZooKeeper client sets it again and
is told of changes in between. `missed`, `lapses` and `alone` are history; `alone` says that only a part of the
nodes has been changed or removed, be it that a single one was meant or that a plan for all of them broke
off at a node that is missing. Visibility of the plain
fields between threads is not modelled.

**SentenceCount.** A tuple is a record of the message, the emission it belongs to, the
position of the word and the bolt it is going to; those `CountBolt` sends to HBase, one for
each word counted so far, also say which word they are about. `Anchored` is what the `input` argument
of `emit` does: the acker tracks the new tuples. The acker tracks the latest emission of a
message id only; tuples of an earlier one are processed but no longer matter to `ack`.
`Fail` may come at any time (a timeout or `collector.fail`). `variant` is the package that
is running: `storm.topology`, whose `CountBolt` does not acknowledge and whose spout keeps the
`retries` of messages it has given up, or `storm.trident1.test`, which does both; `MaxRetry` is
3 in the one and 5 in the other. The spout's executors have disjoint message ids and do
not share maps, so one spout stands for both.

**ShortestPath.** `Map` stands for `map` over all lines: what it writes is complete and sorted
before the first `reduce`, so nothing can come in between. `Reduce` is one call of `reduce`, key after key
in their order; `Chosen` leaves the order of its values open. Names are numbers in the
order of their text; 0 (`Blank`) is the empty name that the trailing separator of a node without
neighbours turns into, -1 (`NullText`) the text `null` that `Node.toString` writes for a
missing backpointer. `ReduceThrows` is `Reduce.java:41` or `:45` with no `originalNode`. A failed job, which
`Main.java:66` does not look at, leaves an empty output directory, and the next job reads that; `failure` is
history. The lines `line` of a job's input are the output of the last.

**LoginUserList.** One action per call on the shared list or the session. `GetAttribute` is the
condition of `LoginAction.java:21` with its three outcomes, among them the null dereference for a
request without a name in a session with a user. `ValueBound`, `StoreAttribute`, `ValueUnbound` are the three parts of
`setAttribute`, in Tomcat's order. The enumeration of a Vector compares its index
with the current size and reads the element at that index; another request may change
the Vector between the two. `Expire` and `Expired` are the container's: it removes the attribute of a session
with no request in progress, and then tells the user. `listed` and `leavers` are history.

## 4. Runs

| Run | Configuration | Shows | States |
|---|---|---|---|
| `simple_limit` | `SimpleLimit.cfg` | implements `AdmissionGate`, and with it the limit and no early rejection; everybody is answered | 603 |
| `time_limit` | `TimeLimit.cfg` | limit per second, no early rejection, true reports | 1.1 million |
| `tx_count` | `TxCount.cfg` | exactly once, nothing skipped, tiling, whole batches; implements `OrderedTotal` | 148 033 |
| `tx_count_live` | `TxCountLive.cfg` | every record is counted in the end | 103 000 |
| `pool` | `ConnectionPool.cfg` | exclusive use, losses only by races, honest null; three threads | 3.7 million |
| `pool_shared` | `ConnectionPoolShared.cfg` | **violated**: connections given back get lost | |
| `zk_lock` | `ZkLock.cfg` | one live holder, owner's address, only expiry releases | 762 000 |
| `zk_config` | `ZkConfig.cfg` | credentials are followed, and the whole configuration if it changes as a whole; a lapse costs one watch; the client catches up | 197 000 |
| `zk_config_race` | `ZkConfigRace.cfg` | **violated**: credentials are followed, when a change meets the first `initValue` | |
| `sentence_count` | `SentenceCount.cfg` | acknowledged means counted; replays have values; no early drop; bounded over-counting; the cache empties | 207 000 |
| `shortest_path` | `ShortestPath.cfg` | shortest distances, real paths, the loop ends at the target's distance and only there | 495 000 |
| `login_users` | `LoginUserList.cfg` | the list agrees with the sessions; listings are off only by those who left | 1.2 million |

**Bounds, and why they suffice.**
`SimpleLimit`: twice as many threads as tokens, so the counter reaches `-Limit` and
rejections overlap with releases. `TimeLimit`: three
threads for two requests a second; with two ticks to a second, requests begin and end in
different seconds and entries expire after four ticks, within the six of the run. `TxCount`: two batches of two records, so that one batch is replayed
while the next is pending; three attempts, so that two late ones meet a third; one crash,
which may fall before, inside or after a commit; the third batch begins beyond the end of
the source. The liveness run uses batches of three for two tasks, so shares differ, and two
attempts. The last attempt id neither times out nor loses its commit: that is the
bound on replays. `ConnectionPool`: `PoolSize` 2 for three threads makes the pool run
empty; two tasks each reuse returned nodes. `PersistWordCount` runs as `local[2]`, of
which the socket receiver occupies one thread, so its own executions are those in which one
of the three threads runs all the tasks; they are among the schedules of the run, and `NullOnlyWhenEmpty` is about
them. `ZkLock`: three processes, two of them on one host; four sessions allow one
restart; `MaxVersion` 1 lets a rewrite race another. `ZkConfig`: two plans of
up to three requests each let one event be queued while another is handled and a third change falls
between two reads; two failures can cost both watches. `SentenceCount`: two sentences that share
a word and `MaxRetry` 0, so that each is emitted up to twice and late tuples of the first emission
meet the second; the code's 3 and 5 add more of the same late tuples, and the theorems on it
hold for every value. `ShortestPath`: four names leave room for a detour, a
diamond (two shortest walks, hence ties) and a cycle; graphs of three lines name a fourth without one; four
jobs are one more than the longest distance. `LoginUserList`: three requests in two sessions give two
that overlap in one session and a third that lists meanwhile; the names are two or none, so
that equal ones meet.

**Deadlock** is checked in the limiter, topology and pool runs (the limiters and the
pool have an explicit `Finished`). It is switched off for `ZkLock`, where processes that
are down stay down when the bound on sessions is used up, for `ZkConfig`, whose client waits for ever, and for `SentenceCount`, whose
finite set of sentences is processed to the end, for `ShortestPath`, which ends with the loop or the bound on jobs, and for
`LoginUserList`, when all requests are answered and all sessions gone.

**Fairness.** `SimpleLimit`: weak fairness of every thread and of `main`, which the
JVM's scheduler gives; no operation blocks but `latch.await`. `TxCount`: weak fairness of the
executors and of `Timeout`, which Storm's message timeout provides; none of `LoseCommit` or
`WorkerCrash`. `SentenceCount`: weak fairness of "acknowledged or failed" per message,
the 30 seconds of `setMessageTimeoutSecs`; the bolts need none. `ShortestPath`: weak fairness of the
steps of main and of its job, a single thread of control as far as their order goes; none of `JobLost`. `ZkConfig`: weak fairness of
the client's threads and of requests of a plan already begun; none of `SetConfig`, of plans or of the
end of the session. The other runs check safety under
`Spec` alone.

**Disagreements found** ("findings" in `PROJECT.json`):

1. *Connections get lost.* `returnConnection` (`ConnectionPool.java:53`) pushes outside the
   monitor. A push that has read `first` before a poll, or another push, overwrites what the other
   stored, and connections given back are no longer reachable. Exclusive
   use is not affected (proved). The application is configured so that it does not happen
   (one task thread), but the method comments promise it for several.
2. *An old value over a new one.* A change during the client's start lets main's `initValue`
   overwrite what the event thread has just stored (`MyClient.java:52`), for good.

**Where the properties end.** The conditions in the properties and theorems mark what the code does
not promise:

* `OneLiveHolder` speaks of live sessions. Nothing in `LockFactory` or `Main` reacts to
  an expiry, so a process can go on believing that it holds the resource.
* The lock theorems assume that the argument of `getLock` is no host address. With
  one, `LockFactory.java:33` would hand a restarted process the lock on the znode of its
  predecessor's session, which disappears with that session.
* The theorems on `TimeLimit` assume that a request reaches its counter within a second of reading the
  clock. A slower one may meet an expired entry and a fresh counter.
* `EndsAtDistance` and `LoopEnds` are about targets that can be found (`SearchableIn`): a walk
  leads there, not of length 0, and the search does not meet a name without a line or a node
  without neighbours earlier. In all other cases the loop of `Main.java:100` never ends.
* `ListingComplete` lets a listing miss as many names as have left: the enumeration skips
  a user who stays when one before him goes.
* `LostOnlyByRace` lets connections vanish once two operations on the list have overlapped;
  `pool_shared` shows that they do.
* `FollowsConfig` assumes that configurations are only changed as a whole, to the last node, because
  `url` is read without a watch (`MyClient.java:51`) and followed by way of the other two. A plan that breaks off
  after `url` is not enough. TLC needs four plans to show it: all nodes are removed and `SetConfig` is creating them
  again while a late event is handled; that call has read the new `url`; a plan changes `url` and breaks
  off because `username` is still missing; `username` is created, and the call goes on without a failure.
  The client then shows an old `url` and nothing is left to tell it. The history variable `alone` is set by such a
  plan too.

## 5. Proofs

All theorems hold for every value of the constants under the assumptions named in the
modules. TLC evaluates those assumptions in every run.

* **LimiterProofs, TimeLimit.** Theorems assume `OnTime`: no request takes longer than a second. The entry
  of second `s` is written at `s * Second` at the earliest and lives for two seconds more,
  while a request of `s` is over before `(s + 2) * Second` (`ClockInv`); so a second
  has one counter (`OwnCounter`, `OneSecondEach`), whose value is the number of requests counted in it
  (`CountMatches`).
* **LimiterProofs, SimpleLimit** (`Simple!...`). Besides the refinement, the limit, conservation of tokens and
  the absence of early rejections as invariants of the counter itself, which the run leaves to
  `ImplementsGate`. Assumes finite `Threads`, as the module does, and positive `Limit`.
  `TokenConservation` alone is inductive; `RejectOnlyAfterLimit` needs `AnswerMatchesPc`,
  which ties what a thread was told to where it is: a rejection at a non-positive counter
  means `Limit` other threads hold tokens, and each is either accepted or was
  itself rejected after `Limit` acceptances. Cardinalities of the sets of holders are
  handled in lemmas. `LimiterImplementsGate`: `Decrement` maps to `Admit` or `Refuse`,
  a serving thread's `Increment` to `Leave`, all other steps to stuttering.
* **TxCountProofs.** Assumes positive `BatchNum`, a finite set of at most `BatchNum`
  tasks (10 and 3 in the code; otherwise a task would get no record and `finishBatch` would
  emit a null attempt), and `NoAttempt` outside `Attempts`. The invariant:
  `MetaInv` (metadata reaches up to the current transaction, batches tile), `AttemptInv`
  (phases), `BoltInv` (every count and sum is the cardinality of the set of records it stands
  for), `CommitInv` (requests in the channel belong to complete attempts, none occurs twice, that
  of the attempt in progress is last) and `DbInv` (an acknowledged commit is in the
  total; the total is level with the coordinator or one batch ahead). Exactly-once is then
  arithmetic: `FinishCommit` adds `BatchNum` precisely if the stored transaction is not
  the current one. `TopologyImplementsTotal`: `FinishCommit` is `Apply` or a stutter, a crash
  is `Restart` of `OrderedTotal`.
* **ConnectionPoolProofs.** Any number of threads and connections. The invariant adds to `ExclusiveUse` that only
  the thread in the monitor is inside `poll` (`MonitorInv`), that a thread about to
  unlink has read the item of its node (`UnlinkInv`), and that nobody has a connection before
  the first call (`EmptyInv`). A lost push drops nodes from the list but
  never copies an item, which is why exclusiveness survives the missing synchronization.
  For the two properties about what is in the list, the recursive function `Chain` has to be reasoned about:
  it is unfolded by a theorem on its defining equation (`ChainUnfolds`), and what it computes follows by looking at the
  oldest node for which the claim fails, since nodes point to older ones only. `OnlyRacesLose`: without an
  overlap one thread at a time is inside `poll` or `push` and what it read of `first` is still true (`RaceInv`).
  `NullMeansEmpty` is about a thread whose tasks run alone: a connection is never behind a null in its
  list (`NullsLast`), because null is only pushed onto a list without connections.
* **ZkLockProofs.** Theorems assume `ArgIsNoAddress`, which `Main`'s argument satisfies.
  Inductive are: a live holder owns the znode (`HolderOwns`), and an ephemeral znode does not
  outlive its session (`OwnerLives`). From the same invariant: the znode changes hands only by an expiry.
* **ZkConfigProofs.** Theorems assume `QuietStart`: nothing changes before main is through
  `initValue`; `zk_config_race` shows what
  happens otherwise. What is watched is fresh or
  about to be stored (`WatchedIsFresh`, `GotIsFresh`); a watch that is missing was taken by an event
  still queued, if a running `initValue` is past its node (`PastIsQueued`) or nothing was
  missed (`MissingIsQueued`); and the number of missing watches is at most that of lapses, of queued
  events and of the event being handled (`MissingIsPaid`), which is what makes
  `LapseCostsOneWatch` inductive.
  `ConfigIsFollowed` (the url as well) adds the order of the requests: what is left of a plan for all nodes are
  those at the end of `Config` (`TodoInv`), so while the url shown is old, the running `initValue` has yet to read it,
  an event is queued, or a node that is still watched has yet to be changed (`UrlInv`).
* **SentenceCountProofs.** Assumes finitely many sentences of finite length, for any `MaxRetry`. The invariant
  makes the words counted so far a set derived from the state (`Counted`: the emission has been split and
  the word's tuple has left the bolt), so that a count is a cardinality (`CountInv`) and no sum needs an
  induction. Every tuple on its way is unacknowledged, so an emission that Storm acknowledges has all its words
  in that set (`AckInv`); `AtLeastOnce` then matches each place in an acknowledged sentence with the
  count its last emission caused, `AtMostPerEmission` embeds the set in emissions times places.
  `RetryInv` ties `retries` to the emissions made.
* **ShortestPathProofs.** Any graph, also an infinite one, and any number of jobs. The invariant (`PathInv`) carries two
  facts through the phases of a job: what has a distance spells a walk of that length
  (`LinesReal`, `ValuesReal`, `OutputReal`), and whatever a walk of at most `i` steps leads to has at most its length
  (`Covers`, `ValuesCover`); `LinesWhole` and `OutputWhole` say that lines are lost all at once or not at all.
  `CounterTrue` adds that the counter moves only if the target was given a distance, and
  `ShortestPathFound` concludes that the answer is a shortest walk. `LoopEndsInTime` relates the end of the loop to the
  reference search `NodesAt`, a recursive function, which is first shown to be the ends of walks (`NodesAtAreEnds`, by
  the smallest length for which it is not). Its invariant (`SearchInv`): nothing that could be counted is left after a failed
  job, no earlier job met the target (`TargetUnmet`, `TargetCounted`), and as long as jobs succeed every name
  the search meets has a line and every node it passes has neighbours (`AllProposed`, `GraphReached`).
* **LoginUserListProofs.** Assumes finitely many requests and sessions. `ListMatchesSessions` is inductive with the types:
  every step moves one user from one of its terms to another, and `removeUser` takes out one element that equals the
  name (`RemovedIsWithout`), which is there because the equation says so. `ListingComplete` needs an invariant of the enumeration
  (`ListingOf`): the list, and what has been printed, are short of the list at its beginning by no more than have
  left, and both are its head as long as nobody has. What others do to the list meanwhile is either
  growth at the end or the loss of one element together with a leaver (`Grows`, `Shrinks`).

**Only model-checked:** the liveness properties (`EveryoneAnswered`, `AllRecordsCounted`,
`EveryTupleLeavesCache`, `CatchesUp`, `LoopEnds`), which are beyond the prover. `PoolComplete`, and
`FollowsCredentials` without a quiet start, are violated by the code. Every other property of the runs is a theorem.
