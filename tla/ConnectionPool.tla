---------------------------- MODULE ConnectionPool ----------------------------
(***************************************************************************)
(* Spark-Projects, spark.stream.ConnectionPool and its only caller, the    *)
(* partition function of PersistWordCount: task threads take a database    *)
(* connection from a static LinkedList, insert the words of their          *)
(* partition and give the connection back.  getConnection is synchronized, *)
(* returnConnection is not, so the list is modelled access by access, with *)
(* the fields that poll and push read: first, and item and next of a node. *)
(*                                                                         *)
(* Connections and nodes are numbered in the order they are created.       *)
(* Stores of one thread become visible in program order; a read of first   *)
(* may be arbitrarily old by the time it is used.                          *)
(***************************************************************************)
EXTENDS Integers, Sequences

CONSTANTS Threads,   \* the executor threads that run tasks
          NoThread,  \* the monitor is free
          PoolSize,  \* connections getConnection opens on its first call (10)
          MaxTasks   \* bound: partitions processed by one thread

ASSUME PoolAssumption ==
  /\ PoolSize \in Nat
  /\ MaxTasks \in Nat
  /\ NoThread \notin Threads

VARIABLES
  connectionQueue,  \* FALSE while the static field is null
  first,            \* LinkedList.first
  node,             \* the nodes allocated so far
  monitor,          \* the thread inside getConnection, or NoThread
  pc,               \* where each thread is
  f,                \* local variable f of poll and push
  conn,             \* local variable conn of call (element, inside poll)
  tasks,            \* partitions each thread has begun
  opened,           \* history: number of connections opened
  leaked,           \* history: connections dropped by a failing task
  raced             \* history: has a push overlapped another list operation?

listVars == <<connectionQueue, first, node>>
histVars == <<opened, leaked, raced>>
vars == <<listVars, monitor, pc, f, conn, tasks, histVars>>

Null == 0   \* both for connections and for nodes

Locations == {"idle", "locked", "unlink", "using", "returning", "push"}

Init ==
  /\ connectionQueue = FALSE /\ first = Null /\ node = <<>>
  /\ monitor = NoThread
  /\ pc = [t \in Threads |-> "idle"]
  /\ f = [t \in Threads |-> Null]
  /\ conn = [t \in Threads |-> Null]
  /\ tasks = [t \in Threads |-> 0]
  /\ opened = 0 /\ leaked = {} /\ raced = FALSE

(* A task begins with getConnection, which takes the monitor. *)
AnyTime == TRUE                        \* mutant: not synchronized
MayEnter == monitor = NoThread

Enter(t) ==
  /\ pc[t] = "idle" /\ tasks[t] < MaxTasks
  /\ MayEnter
  /\ monitor' = t
  /\ pc' = [pc EXCEPT ![t] = "locked"]
  /\ tasks' = [tasks EXCEPT ![t] = @ + 1]
  /\ UNCHANGED <<listVars, f, conn, histVars>>

(* The first call opens the connections and pushes them.  DriverManager    *)
(* may fail at any of them; the exception is printed and the queue stays   *)
(* as far as it was filled.                                                *)
FilledOneTooMany(n) ==                 \* mutant: i <= 10
  [i \in 1 .. (IF n = PoolSize THEN n + 1 ELSE n) |->
     [item |-> i, next |-> i - 1]]
FilledWithNull(n) ==                   \* mutant: a failed connection is pushed
  [i \in 1 .. (IF n < PoolSize THEN n + 1 ELSE n) |->
     [item |-> IF i > n THEN Null ELSE i, next |-> i - 1]]
Filled(n) == [i \in 1 .. n |-> [item |-> i, next |-> i - 1]]

Fill(t) ==
  /\ pc[t] = "locked" /\ ~connectionQueue
  /\ connectionQueue' = TRUE
  /\ \E n \in 0 .. PoolSize :
       /\ node' = Filled(n)
       /\ first' = Len(node')
       /\ opened' = n
  /\ UNCHANGED <<monitor, pc, f, conn, tasks, leaked, raced>>

(* LinkedList.poll: null if first is null; otherwise unlinkFirst, which    *)
(* reads the node, clears it and moves first on.  Only poll, inside the    *)
(* monitor, reads or changes the fields of a node.                         *)
PollEmpty(t) ==
  /\ pc[t] = "locked" /\ connectionQueue
  /\ first = Null
  /\ conn' = [conn EXCEPT ![t] = Null]
  /\ monitor' = NoThread
  /\ pc' = [pc EXCEPT ![t] = "using"]
  /\ UNCHANGED <<listVars, f, tasks, histVars>>

(* For the history only: another thread is between two steps of a poll or  *)
(* push.                                                                   *)
MidOperation(t) == \E u \in Threads \ {t} : pc[u] \in {"unlink", "push"}

PollFirst(t) ==
  /\ pc[t] = "locked" /\ connectionQueue
  /\ first # Null
  /\ f' = [f EXCEPT ![t] = first]
  /\ conn' = [conn EXCEPT ![t] = node[first].item]
  /\ pc' = [pc EXCEPT ![t] = "unlink"]
  /\ raced' = (raced \/ MidOperation(t))
  /\ UNCHANGED <<listVars, monitor, tasks, opened, leaked>>

UnlinkFirst(t) ==
  /\ pc[t] = "unlink"
  /\ node' = [node EXCEPT ![f[t]] = [item |-> Null, next |-> Null]]
  /\ first' = node[f[t]].next
  /\ monitor' = NoThread
  /\ pc' = [pc EXCEPT ![t] = "using"]
  /\ UNCHANGED <<connectionQueue, f, conn, tasks, histVars>>

(* The words are inserted, or the partition is empty.  Without a           *)
(* connection only an empty partition gets this far.                       *)
Insert(t) ==
  /\ pc[t] = "using"
  /\ pc' = [pc EXCEPT ![t] = "returning"]
  /\ UNCHANGED <<listVars, monitor, f, conn, tasks, histVars>>

(* createStatement is called on null, or a statement fails: the exception  *)
(* leaves call before returnConnection.                                    *)
Fail(t) ==
  /\ pc[t] = "using"
  /\ leaked' = leaked \cup ({conn[t]} \ {Null})
  /\ conn' = [conn EXCEPT ![t] = Null]
  /\ pc' = [pc EXCEPT ![t] = "idle"]
  /\ UNCHANGED <<listVars, monitor, f, tasks, opened, raced>>

(* returnConnection: LinkedList.push is linkFirst, which reads first, makes *)
(* the new node point to it and stores the new node in first.              *)
PushRead(t) ==
  /\ pc[t] = "returning"
  /\ f' = [f EXCEPT ![t] = first]
  /\ pc' = [pc EXCEPT ![t] = "push"]
  /\ raced' = (raced \/ MidOperation(t))
  /\ UNCHANGED <<listVars, monitor, conn, tasks, opened, leaked>>

UnlinkedNode(t) == [item |-> conn[t], next |-> Null]  \* mutant: next not set
NewNode(t) == [item |-> conn[t], next |-> f[t]]

LinkFirst(t) ==
  /\ pc[t] = "push"
  /\ node' = Append(node, NewNode(t))
  /\ first' = Len(node')
  /\ conn' = [conn EXCEPT ![t] = Null]
  /\ pc' = [pc EXCEPT ![t] = "idle"]
  /\ UNCHANGED <<connectionQueue, monitor, f, tasks, histVars>>

(* The job is over when no thread has a task left. *)
Finished ==
  /\ \A t \in Threads : pc[t] = "idle" /\ tasks[t] = MaxTasks
  /\ UNCHANGED vars

GetConnection(t) ==
  Enter(t) \/ Fill(t) \/ PollEmpty(t) \/ PollFirst(t) \/ UnlinkFirst(t)
ReturnConnection(t) == PushRead(t) \/ LinkFirst(t)

Next ==
  \/ \E t \in Threads :
       GetConnection(t) \/ Insert(t) \/ Fail(t) \/ ReturnConnection(t)
  \/ Finished

Spec == Init /\ [][Next]_vars
-----------------------------------------------------------------------------
(* Type invariant of the pool: nodes hold connections that were opened and *)
(* point to older nodes.                                                   *)
TypeOK ==
  /\ connectionQueue \in BOOLEAN
  /\ node \in Seq([item : 0 .. PoolSize, next : Nat])
  /\ \A i \in 1 .. Len(node) : node[i].next < i
  /\ first \in 0 .. Len(node)
  /\ monitor \in Threads \cup {NoThread}
  /\ pc \in [Threads -> Locations]
  /\ f \in [Threads -> 0 .. Len(node)]
  /\ conn \in [Threads -> 0 .. PoolSize]
  /\ tasks \in [Threads -> 0 .. MaxTasks]
  /\ opened \in 0 .. PoolSize
  /\ leaked \subseteq 1 .. PoolSize
  /\ raced \in BOOLEAN

Holds(t) == pc[t] \in {"using", "returning", "push"} /\ conn[t] # Null

(* A connection is never handed to two tasks: however getConnection and    *)
(* returnConnection interleave, a connection in use is held by one thread  *)
(* and is in no node of the list, and no two nodes hold the same one.      *)
ExclusiveUse ==
  /\ \A t, u \in Threads :
       t # u /\ Holds(t) /\ Holds(u) => conn[t] # conn[u]
  /\ \A t \in Threads, i \in 1 .. Len(node) :
       Holds(t) => node[i].item # conn[t]
  /\ \A i, j \in 1 .. Len(node) :
       i # j /\ node[i].item # Null => node[i].item # node[j].item

(* The nodes that can still be reached from a node of the list. *)
Chain ==
  LET from[i \in 0 .. Len(node)] ==
        IF i = Null THEN {} ELSE {i} \cup from[node[i].next]
  IN  from

Pooled == {node[i].item : i \in Chain[first]} \ {Null}

(* returnConnection gives a connection back: when no task is running,      *)
(* every connection opened is in the pool, except those whose task failed. *)
PoolComplete ==
  (\A t \in Threads : pc[t] = "idle") =>
    Pooled = (1 .. opened) \ leaked

(* A connection is lost only by a push that overlaps another push or poll: *)
(* until then every connection opened is in the pool, with one task, or    *)
(* went with a task that failed, at every moment.                          *)
LostOnlyByRace ==
  ~raced => 1 .. opened = (Pooled \cup {conn[t] : t \in Threads} \cup leaked) \ {Null}

(* To a thread whose tasks run alone, as in PersistWordCount's local[2],   *)
(* null is given only while the pool has no connection to give.            *)
NullOnlyWhenEmpty ==
  \A t \in Threads :
    pc[t] = "using" /\ conn[t] = Null /\ (\A u \in Threads \ {t} : tasks[u] = 0) =>
      Pooled = {}
=============================================================================
