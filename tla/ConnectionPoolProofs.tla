------------------------ MODULE ConnectionPoolProofs ------------------------
(***************************************************************************)
(* Proofs about ConnectionPool for every number of threads, connections    *)
(* and tasks: although returnConnection is not synchronized, the monitor   *)
(* of getConnection is enough for exclusive use, connections are lost only *)
(* by an overlapping push, and a thread alone is given null only by an     *)
(* empty pool.                                                             *)
(***************************************************************************)
EXTENDS ConnectionPool, WellFoundedInduction, TLAPS

Node == [item : 0 .. PoolSize, next : Nat]

(* Before the first call there is no list, and nobody has a connection. *)
EmptyInv ==
  ~connectionQueue =>
    /\ node = <<>> /\ first = Null
    /\ \A t \in Threads : /\ pc[t] \in {"idle", "locked"}
                          /\ f[t] = Null /\ conn[t] = Null

(* Only the thread in the monitor is inside poll. *)
MonitorInv ==
  \A t \in Threads : pc[t] \in {"locked", "unlink"} <=> monitor = t

(* A thread about to unlink the first node has read its item. *)
UnlinkInv ==
  \A t \in Threads :
    pc[t] = "unlink" => /\ f[t] \in 1 .. Len(node)
                        /\ conn[t] = node[f[t]].item

HoldersDiffer ==
  \A t, u \in Threads : t # u /\ Holds(t) /\ Holds(u) => conn[t] # conn[u]
HeldIsNotListed ==
  \A t \in Threads, i \in 1 .. Len(node) : Holds(t) => node[i].item # conn[t]
NodesDiffer ==
  \A i, j \in 1 .. Len(node) :
    i # j /\ node[i].item # Null => node[i].item # node[j].item

IInv ==
  /\ TypeOK
  /\ EmptyInv
  /\ MonitorInv
  /\ UnlinkInv
  /\ HoldersDiffer /\ HeldIsNotListed /\ NodesDiffer

LEMMA InitIInv == Init => IInv
<1> SUFFICES ASSUME Init PROVE IInv
  OBVIOUS
<1>1. TypeOK
  <2>1. /\ node = <<>> /\ Len(node) = 0 /\ first = 0
        /\ node \in Seq([item : 0 .. PoolSize, next : Nat])
    BY DEF Init, Null
  <2>2. /\ conn \in [Threads -> 0 .. PoolSize]
        /\ f \in [Threads -> 0 .. Len(node)]
        /\ tasks \in [Threads -> 0 .. MaxTasks]
    BY <2>1, PoolAssumption DEF Init, Null
  <2>3. \A i \in 1 .. Len(node) : node[i].next < i
    BY <2>1
  <2>4. first \in 0 .. Len(node)
    BY <2>1
  <2>5. opened \in 0 .. PoolSize /\ leaked \subseteq 1 .. PoolSize
    BY PoolAssumption DEF Init
  <2>6. raced \in BOOLEAN
    BY DEF Init
  <2>7. monitor \in Threads \cup {NoThread} /\ pc \in [Threads -> Locations]
    BY DEF Init, Locations
  <2>8. connectionQueue \in BOOLEAN
    BY DEF Init
  <2>9. QED
    BY <2>1, <2>2, <2>3, <2>4, <2>5, <2>7, <2>8, <2>6 DEF TypeOK
<1>2. EmptyInv /\ MonitorInv /\ UnlinkInv
  BY PoolAssumption DEF Init, EmptyInv, MonitorInv, UnlinkInv
<1>3. HoldersDiffer /\ HeldIsNotListed /\ NodesDiffer
  BY DEF Init, HoldersDiffer, HeldIsNotListed, NodesDiffer, Holds
<1>4. QED
  BY <1>1, <1>2, <1>3 DEF IInv

(* Steps that leave the list alone, and in which nobody comes to hold a    *)
(* connection, keep the use exclusive.                                     *)
LEMMA NobodyGains ==
  ASSUME IInv, UNCHANGED listVars,
         \A t \in Threads : Holds(t)' => Holds(t) /\ conn'[t] = conn[t]
  PROVE  HoldersDiffer' /\ HeldIsNotListed' /\ NodesDiffer'
  BY DEF IInv, listVars, HoldersDiffer, HeldIsNotListed, NodesDiffer

LEMMA EnterIInv ==
  ASSUME IInv, NEW t \in Threads, Enter(t)
  PROVE  IInv'
<1> USE DEF IInv, Enter, MayEnter
<1>1. TypeOK' /\ EmptyInv' /\ MonitorInv' /\ UnlinkInv'
  BY PoolAssumption
  DEF TypeOK, Locations, EmptyInv, MonitorInv, UnlinkInv, listVars, histVars
<1>2. \A u \in Threads : Holds(u)' => Holds(u) /\ conn'[u] = conn[u]
  BY DEF TypeOK, Holds
<1>3. HoldersDiffer' /\ HeldIsNotListed' /\ NodesDiffer'
  BY <1>2, NobodyGains
<1>4. QED
  BY <1>1, <1>3

LEMMA FillIInv ==
  ASSUME IInv, NEW t \in Threads, Fill(t)
  PROVE  IInv'
<1>1. PICK n \in 0 .. PoolSize :
        node' = Filled(n) /\ first' = Len(node') /\ opened' = n
  BY DEF Fill
<1>2. /\ \A u \in Threads : f[u] = Null /\ conn[u] = Null
      /\ \A u \in Threads : pc[u] \in {"idle", "locked"}
      /\ connectionQueue' = TRUE
      /\ UNCHANGED <<monitor, pc, f, conn, tasks, leaked, raced>>
  BY DEF IInv, EmptyInv, Fill
<1>3. /\ node' \in Seq(Node) /\ Len(node') = n
      /\ \A i \in 1 .. n : node'[i].item = i /\ node'[i].next = i - 1
  BY <1>1, PoolAssumption DEF Filled, Node
<1>4. TypeOK'
  BY <1>1, <1>2, <1>3, PoolAssumption DEF IInv, TypeOK, Node, Null
<1>5. EmptyInv' /\ MonitorInv' /\ UnlinkInv'
  BY <1>2 DEF IInv, EmptyInv, MonitorInv, UnlinkInv
<1>6. HoldersDiffer' /\ HeldIsNotListed' /\ NodesDiffer'
  BY <1>2, <1>3 DEF HoldersDiffer, HeldIsNotListed, NodesDiffer, Holds
<1>7. QED
  BY <1>4, <1>5, <1>6 DEF IInv

LEMMA PollEmptyIInv ==
  ASSUME IInv, NEW t \in Threads, PollEmpty(t)
  PROVE  IInv'
<1>1. /\ monitor = t /\ monitor' = NoThread
      /\ pc' = [pc EXCEPT ![t] = "using"]
      /\ conn' = [conn EXCEPT ![t] = Null]
      /\ UNCHANGED <<listVars, f, tasks, histVars>>
      /\ connectionQueue
  BY DEF IInv, MonitorInv, PollEmpty
<1>2. TypeOK'
  BY <1>1, PoolAssumption
  DEF IInv, TypeOK, Locations, listVars, histVars, Null
<1>3. EmptyInv' /\ MonitorInv' /\ UnlinkInv'
  BY <1>1, PoolAssumption
  DEF IInv, TypeOK, EmptyInv, MonitorInv, UnlinkInv, listVars
<1>4. \A u \in Threads : Holds(u)' => Holds(u) /\ conn'[u] = conn[u]
  BY <1>1 DEF IInv, TypeOK, Holds
<1>5. HoldersDiffer' /\ HeldIsNotListed' /\ NodesDiffer'
  BY <1>1, <1>4, NobodyGains
<1>6. QED
  BY <1>2, <1>3, <1>5 DEF IInv

LEMMA PollFirstIInv ==
  ASSUME IInv, NEW t \in Threads, PollFirst(t)
  PROVE  IInv'
<1>1. /\ monitor = t /\ first \in 1 .. Len(node)
      /\ f' = [f EXCEPT ![t] = first]
      /\ conn' = [conn EXCEPT ![t] = node[first].item]
      /\ pc' = [pc EXCEPT ![t] = "unlink"]
      /\ UNCHANGED <<listVars, monitor, tasks, opened, leaked>>
      /\ connectionQueue /\ raced' \in BOOLEAN
  BY DEF IInv, TypeOK, MonitorInv, PollFirst, Null, MidOperation
<1>2. node[first].item \in 0 .. PoolSize
  <2>1. node \in Seq(Node)
    BY DEF IInv, TypeOK, Node
  <2>2. node[first] \in Node
    BY <1>1, <2>1
  <2>3. QED
    BY <2>2 DEF Node
<1>3. TypeOK'
  BY <1>1, <1>2 DEF IInv, TypeOK, Locations, listVars, histVars
<1>4. EmptyInv' /\ MonitorInv' /\ UnlinkInv'
  BY <1>1 DEF IInv, TypeOK, EmptyInv, MonitorInv, UnlinkInv, listVars
<1>5. \A u \in Threads : Holds(u)' => Holds(u) /\ conn'[u] = conn[u]
  BY <1>1 DEF IInv, TypeOK, Holds
<1>6. HoldersDiffer' /\ HeldIsNotListed' /\ NodesDiffer'
  BY <1>1, <1>5, NobodyGains
<1>7. QED
  BY <1>3, <1>4, <1>6 DEF IInv

(* The thread in the monitor takes the connection over from the node. *)
LEMMA UnlinkFirstIInv ==
  ASSUME IInv, NEW t \in Threads, UnlinkFirst(t)
  PROVE  IInv'
<1> DEFINE k == f[t]
<1>1. /\ k \in 1 .. Len(node) /\ conn[t] = node[k].item
      /\ monitor = t /\ monitor' = NoThread
      /\ pc[t] = "unlink" /\ pc' = [pc EXCEPT ![t] = "using"]
      /\ first' = node[k].next
      /\ UNCHANGED <<connectionQueue, f, conn, tasks, histVars>>
  BY DEF IInv, MonitorInv, UnlinkInv, UnlinkFirst
<1>2. /\ node \in Seq(Node)
      /\ node' = [node EXCEPT ![k] = [item |-> Null, next |-> Null]]
      /\ [item |-> Null, next |-> Null] \in Node
  BY PoolAssumption DEF IInv, TypeOK, Node, UnlinkFirst, Null
<1> HIDE DEF k
<1>3. /\ node' \in Seq(Node) /\ Len(node') = Len(node)
      /\ node'[k].item = Null /\ node'[k].next = Null
      /\ \A i \in 1 .. Len(node) : i # k => node'[i] = node[i]
  BY <1>1, <1>2
<1>4. TypeOK'
  <2>1. \A i \in 1 .. Len(node') : node'[i].next < i
    <3> SUFFICES ASSUME NEW i \in 1 .. Len(node) PROVE node'[i].next < i
      BY <1>3
    <3>1. CASE i = k
      BY <1>3, <3>1 DEF Null
    <3>2. CASE i # k
      <4>1. node[i].next < i
        BY DEF IInv, TypeOK
      <4>2. node'[i] = node[i]
        BY <1>3, <3>2
      <4>3. QED
        BY <4>1, <4>2
    <3>3. QED
      BY <3>1, <3>2
  <2>2. first' \in 0 .. Len(node')
    <3>1. node[k] \in Node
      BY <1>1, <1>2
    <3>2. node[k].next \in Nat /\ node[k].next < k
      BY <1>1, <3>1 DEF IInv, TypeOK, Node
    <3>3. QED
      BY <1>1, <1>3, <3>2
  <2>3. QED
    BY <1>1, <1>3, <2>1, <2>2
    DEF IInv, TypeOK, Node, Locations, histVars
<1>5. EmptyInv' /\ MonitorInv' /\ UnlinkInv'
  <2>1. \A u \in Threads : pc'[u] # "unlink"
    BY <1>1 DEF IInv, TypeOK, MonitorInv
  <2>2. connectionQueue
    BY <1>1 DEF IInv, EmptyInv
  <2>3. MonitorInv'
    BY <1>1, PoolAssumption DEF IInv, TypeOK, MonitorInv
  <2>4. QED
    BY <1>1, <2>1, <2>2, <2>3 DEF EmptyInv, UnlinkInv
<1>6. \A u \in Threads : u # t => Holds(u)' = Holds(u)
  BY <1>1 DEF IInv, TypeOK, Holds
<1>7. \A u \in Threads \ {t} : Holds(u) => conn[u] # conn[t]
  BY <1>1 DEF IInv, HeldIsNotListed
<1>8. HoldersDiffer'
  BY <1>1, <1>6, <1>7 DEF IInv, HoldersDiffer
<1>9. HeldIsNotListed'
  <2> SUFFICES ASSUME NEW u \in Threads, NEW i \in 1 .. Len(node), Holds(u)'
               PROVE  node'[i].item # conn[u]
    BY <1>1, <1>3 DEF HeldIsNotListed
  <2>1. conn[u] # Null
    BY <1>1 DEF Holds
  <2>2. CASE i = k
    BY <1>3, <2>1, <2>2
  <2>3. CASE i # k /\ u = t
    BY <1>1, <1>3, <2>1, <2>3 DEF IInv, NodesDiffer
  <2>4. CASE i # k /\ u # t
    BY <1>3, <1>6, <2>4 DEF IInv, HeldIsNotListed
  <2>5. QED
    BY <2>2, <2>3, <2>4
<1>10. NodesDiffer'
  BY <1>1, <1>3 DEF IInv, NodesDiffer
<1>11. QED
  BY <1>4, <1>5, <1>8, <1>9, <1>10 DEF IInv

LEMMA UseIInv ==
  ASSUME IInv, NEW t \in Threads, Insert(t) \/ Fail(t)
  PROVE  IInv'
<1>1. /\ pc[t] = "using" /\ pc' \in [Threads -> Locations]
      /\ pc'[t] \in {"returning", "idle"}
      /\ \A u \in Threads : u # t => pc'[u] = pc[u] /\ conn'[u] = conn[u]
      /\ UNCHANGED <<listVars, monitor, f, tasks, opened, raced>>
  BY DEF IInv, TypeOK, Locations, Insert, Fail, histVars
<1>2. TypeOK'
  <2>1. conn' \in [Threads -> 0 .. PoolSize]
    <3>1. conn \in [Threads -> 0 .. PoolSize]
      BY DEF IInv, TypeOK
    <3>2. conn' = conn \/ conn' = [conn EXCEPT ![t] = 0]
      BY DEF Insert, Fail, Null
    <3>3. QED
      BY <3>1, <3>2, PoolAssumption
  <2>2. conn[t] \in 0 .. PoolSize
    BY DEF IInv, TypeOK
  <2>3. {conn[t]} \ {Null} \subseteq 1 .. PoolSize
    BY <2>2, PoolAssumption DEF Null
  <2>4. leaked' \subseteq 1 .. PoolSize
    BY <2>3 DEF IInv, TypeOK, Insert, Fail, histVars
  <2>5. QED
    BY <1>1, <2>1, <2>4 DEF IInv, TypeOK, listVars
<1>3. EmptyInv' /\ MonitorInv' /\ UnlinkInv'
  BY <1>1 DEF IInv, EmptyInv, MonitorInv, UnlinkInv, listVars
<1>4. \A u \in Threads : Holds(u)' => Holds(u) /\ conn'[u] = conn[u]
  BY <1>1 DEF IInv, TypeOK, Holds, Insert, Fail
<1>5. HoldersDiffer' /\ HeldIsNotListed' /\ NodesDiffer'
  BY <1>1, <1>4, NobodyGains
<1>6. QED
  BY <1>2, <1>3, <1>5 DEF IInv

LEMMA PushReadIInv ==
  ASSUME IInv, NEW t \in Threads, PushRead(t)
  PROVE  IInv'
<1> USE DEF IInv, PushRead
<1>1. TypeOK'
  BY DEF TypeOK, Locations, listVars, histVars
<1>2. EmptyInv' /\ MonitorInv' /\ UnlinkInv'
  BY DEF TypeOK, EmptyInv, MonitorInv, UnlinkInv, listVars
<1>3. \A u \in Threads : Holds(u)' => Holds(u) /\ conn'[u] = conn[u]
  BY DEF TypeOK, Holds
<1>4. HoldersDiffer' /\ HeldIsNotListed' /\ NodesDiffer'
  BY <1>3, NobodyGains
<1>5. QED
  BY <1>1, <1>2, <1>4

(* The new node takes the connection over from the thread. *)
LEMMA LinkFirstIInv ==
  ASSUME IInv, NEW t \in Threads, LinkFirst(t)
  PROVE  IInv'
<1> DEFINE k == Len(node) + 1
<1>1. /\ pc[t] = "push" /\ pc' = [pc EXCEPT ![t] = "idle"]
      /\ conn' = [conn EXCEPT ![t] = Null]
      /\ node' = Append(node, NewNode(t)) /\ first' = Len(node')
      /\ UNCHANGED <<connectionQueue, monitor, f, tasks, histVars>>
  BY DEF LinkFirst
<1>2. /\ node \in Seq(Node) /\ NewNode(t) \in Node
      /\ NewNode(t).item = conn[t] /\ NewNode(t).next = f[t]
      /\ f[t] \in 0 .. Len(node)
  BY DEF IInv, TypeOK, Node, NewNode
<1>3. /\ node' \in Seq(Node) /\ Len(node') = k /\ k \in Nat
      /\ node'[k].item = conn[t] /\ node'[k].next = f[t]
      /\ \A i \in 1 .. Len(node) : node'[i] = node[i] /\ i # k
      /\ \A i \in 1 .. k : i \in 1 .. Len(node) \/ i = k
  BY <1>1, <1>2
<1> HIDE DEF k
<1>4. TypeOK'
  <2>1. ASSUME NEW i \in 1 .. k
        PROVE  node'[i].next < i
    <3>1. CASE i = k
      BY <1>2, <1>3, <3>1 DEF k
    <3>2. CASE i \in 1 .. Len(node)
      BY <1>3, <3>2 DEF IInv, TypeOK
    <3>3. QED
      BY <1>3, <3>1, <3>2
  <2>2. first' \in 0 .. Len(node')
    BY <1>1, <1>3
  <2>3. f' \in [Threads -> 0 .. Len(node')]
    BY <1>1, <1>2, <1>3 DEF IInv, TypeOK, k
  <2>4. QED
    BY <1>1, <1>3, <2>1, <2>2, <2>3, PoolAssumption
    DEF IInv, TypeOK, Node, Locations, histVars, Null
<1>5. EmptyInv' /\ MonitorInv' /\ UnlinkInv'
  <2>1. connectionQueue
    BY <1>1 DEF IInv, EmptyInv
  <2>2. MonitorInv'
    BY <1>1 DEF IInv, TypeOK, MonitorInv
  <2>3. ASSUME NEW u \in Threads, pc'[u] = "unlink"
        PROVE  f'[u] \in 1 .. Len(node') /\ conn'[u] = node'[f'[u]].item
    <3>1. u # t /\ pc[u] = "unlink"
      BY <1>1, <2>3 DEF IInv, TypeOK
    <3>2. f[u] \in 1 .. Len(node) /\ conn[u] = node[f[u]].item
      BY <3>1 DEF IInv, UnlinkInv
    <3>3. f[u] \in 1 .. Len(node')
      BY <1>3, <3>2 DEF k
    <3>4. QED
      BY <1>1, <1>3, <3>1, <3>2, <3>3 DEF IInv, TypeOK
  <2>4. QED
    BY <1>1, <2>1, <2>2, <2>3 DEF EmptyInv, UnlinkInv
<1>6. \A u \in Threads : Holds(u)' => u # t /\ Holds(u) /\ conn'[u] = conn[u]
  BY <1>1 DEF IInv, TypeOK, Holds
<1>7. HoldersDiffer'
  BY <1>6 DEF IInv, HoldersDiffer
<1>8. conn[t] # Null => Holds(t)
  BY <1>1 DEF Holds
<1>9. HeldIsNotListed'
  <2> SUFFICES ASSUME NEW u \in Threads, NEW i \in 1 .. k, Holds(u)'
               PROVE  node'[i].item # conn'[u]
    BY <1>3 DEF HeldIsNotListed
  <2>1. u # t /\ Holds(u) /\ conn'[u] = conn[u] /\ conn[u] # Null
    BY <1>6 DEF Holds
  <2>2. CASE i = k
    BY <1>3, <1>8, <2>1, <2>2 DEF IInv, HoldersDiffer
  <2>3. CASE i \in 1 .. Len(node)
    BY <1>3, <2>1, <2>3 DEF IInv, HeldIsNotListed
  <2>4. QED
    BY <1>3, <2>2, <2>3
<1>10. NodesDiffer'
  <2> SUFFICES ASSUME NEW i \in 1 .. k, NEW j \in 1 .. k, i # j,
                      node'[i].item # Null
               PROVE  node'[i].item # node'[j].item
    BY <1>3 DEF NodesDiffer
  <2>1. CASE i \in 1 .. Len(node) /\ j \in 1 .. Len(node)
    BY <1>3, <2>1 DEF IInv, NodesDiffer
  <2>2. CASE i = k /\ j \in 1 .. Len(node)
    BY <1>3, <1>8, <2>2 DEF IInv, HeldIsNotListed
  <2>3. CASE j = k /\ i \in 1 .. Len(node)
    BY <1>3, <1>8, <2>3 DEF IInv, HeldIsNotListed
  <2>4. QED
    BY <1>3, <2>1, <2>2, <2>3
<1>11. QED
  BY <1>4, <1>5, <1>7, <1>9, <1>10 DEF IInv

LEMMA NextIInv == IInv /\ [Next]_vars => IInv'
<1> SUFFICES ASSUME IInv, [Next]_vars PROVE IInv'
  OBVIOUS
<1>1. ASSUME NEW t \in Threads, GetConnection(t)
      PROVE  IInv'
  BY <1>1, EnterIInv, FillIInv, PollEmptyIInv, PollFirstIInv, UnlinkFirstIInv
  DEF GetConnection
<1>2. ASSUME NEW t \in Threads,
             Insert(t) \/ Fail(t) \/ ReturnConnection(t)
      PROVE  IInv'
  BY <1>2, UseIInv, PushReadIInv, LinkFirstIInv DEF ReturnConnection
<1>3. CASE UNCHANGED vars
  <2>1. TypeOK' /\ EmptyInv' /\ MonitorInv' /\ UnlinkInv'
    BY <1>3 DEF IInv, TypeOK, EmptyInv, MonitorInv, UnlinkInv, vars,
       listVars, histVars
  <2>2. HoldersDiffer' /\ HeldIsNotListed' /\ NodesDiffer'
    BY <1>3, NobodyGains DEF vars, Holds
  <2>3. QED
    BY <2>1, <2>2 DEF IInv
<1>4. QED
  BY <1>1, <1>2, <1>3 DEF Next, Finished

LEMMA Invariance == Spec => []IInv
  BY InitIInv, NextIInv, PTL DEF Spec

(* The list stays well-formed: nodes point to older nodes and hold         *)
(* connections that were opened, whatever the interleaving.                *)
THEOREM PoolTypes == Spec => []TypeOK
<1>1. IInv => TypeOK
  BY DEF IInv
<1>2. QED
  BY <1>1, Invariance, PTL

(* No connection is ever in use by two tasks, nor in the list while it is  *)
(* in use.                                                                 *)
THEOREM ConnectionsAreExclusive == Spec => []ExclusiveUse
<1>1. IInv => ExclusiveUse
  BY DEF IInv, HoldersDiffer, HeldIsNotListed, NodesDiffer, ExclusiveUse
<1>2. QED
  BY <1>1, Invariance, PTL
-----------------------------------------------------------------------------
(* Every nonempty set of numbers has a smallest element. *)
LEMMA SmallestElement ==
  ASSUME NEW T, T \subseteq Nat, T # {}
  PROVE  \E m \in T : \A k \in T : m <= k
<1>1. IsWellFoundedOn(OpToRel(<, Nat), Nat)
  BY NatLessThanWellFounded
<1>2. PICK m \in T : \A k \in T : <<k, m>> \notin OpToRel(<, Nat)
  BY <1>1, WFMin, Zenon
<1>3. \A k \in T : ~(k < m)
  BY <1>2 DEF OpToRel
<1>4. QED
  BY <1>3

(***************************************************************************)
(* The chain of nodes is a recursive function.  What it computes is proved *)
(* by looking at the oldest node for which the claim would be false: nodes *)
(* point to older nodes, so the claim holds one step along the chain.      *)
(***************************************************************************)
ChainOf(s) ==
  LET from[i \in 0 .. Len(s)] ==
        IF i = Null THEN {} ELSE {i} \cup from[s[i].next]
  IN  from

PointsBack(s) == s \in Seq(Node) /\ \A i \in 1 .. Len(s) : s[i].next < i

Unfolds(s, g, n) ==
  g = [i \in 0 .. n |-> IF i = Null THEN {} ELSE {i} \cup g[s[i].next]]

LEMMA NextInRange ==
  ASSUME NEW s, PointsBack(s), NEW i \in 1 .. Len(s)
  PROVE  s[i].next \in 0 .. i - 1
<1>1. s[i] \in Node /\ s[i].next < i
  BY DEF PointsBack
<1>2. s[i].next \in Nat
  BY <1>1 DEF Node
<1>3. QED
  BY <1>1, <1>2

(* There is a function with the defining equation of ChainOf, so ChainOf    *)
(* has it too.                                                             *)
LEMMA ChainExists ==
  ASSUME NEW s, PointsBack(s), NEW n \in 0 .. Len(s)
  PROVE  \E g : Unfolds(s, g, n)
<1> DEFINE T == {k \in 0 .. Len(s) : ~ \E g : Unfolds(s, g, k)}
<1> SUFFICES ASSUME T # {} PROVE FALSE
  OBVIOUS
<1>1. Len(s) \in Nat
  BY DEF PointsBack
<1>2. PICK m \in T : \A k \in T : m <= k
  <2>1. T \subseteq Nat
    BY <1>1
  <2>2. QED
    BY <2>1, SmallestElement
<1>3. CASE m = 0
  <2> DEFINE g == [i \in 0 .. 0 |-> {}]
  <2>1. g = [i \in 0 .. 0 |-> IF i = Null THEN {} ELSE {i} \cup g[s[i].next]]
    BY DEF Null
  <2>2. Unfolds(s, g, 0)
    BY <2>1 DEF Unfolds
  <2>3. QED
    BY <1>3, <2>2
<1>4. CASE m # 0
  <2>1. m \in 1 .. Len(s) /\ m - 1 \in 0 .. Len(s)
    BY <1>1, <1>4
  <2>2. m - 1 \notin T
    BY <1>1, <1>2, <2>1
  <2>3. PICK g : Unfolds(s, g, m - 1)
    BY <2>1, <2>2
  <2> DEFINE h == [i \in 0 .. m |-> IF i = m THEN {m} \cup g[s[m].next] ELSE g[i]]
  <2>4. ASSUME NEW i \in 0 .. m
        PROVE  h[i] = IF i = Null THEN {} ELSE {i} \cup h[s[i].next]
    <3>1. CASE i = m
      <4>1. s[m].next \in 0 .. m - 1
        BY <2>1, NextInRange
      <4>2. h[s[m].next] = g[s[m].next]
        BY <2>1, <4>1
      <4>3. h[m] = {m} \cup g[s[m].next] /\ m # Null
        BY <2>1 DEF Null
      <4> HIDE DEF h
      <4>4. QED
        BY <3>1, <4>2, <4>3
    <3>2. CASE i # m /\ i # 0
      <4>1. i \in 0 .. m - 1 /\ i \in 1 .. Len(s)
        BY <2>1, <3>2
      <4>2. s[i].next \in 0 .. i - 1
        BY <4>1, NextInRange
      <4>3. h[s[i].next] = g[s[i].next] /\ h[i] = g[i]
        BY <2>1, <3>2, <4>1, <4>2
      <4>4. g[i] = {i} \cup g[s[i].next]
        BY <2>3, <3>2, <4>1 DEF Unfolds, Null
      <4>5. i # Null
        BY <3>2 DEF Null
      <4> HIDE DEF h
      <4>6. QED
        BY <4>3, <4>4, <4>5
    <3>3. CASE i # m /\ i = 0
      <4>1. 0 \in 0 .. m - 1
        BY <2>1
      <4>2. g[0] = {}
        BY <2>3, <4>1 DEF Unfolds, Null
      <4>3. QED
        BY <3>3, <4>2 DEF Null
    <3>4. QED
      BY <3>1, <3>2, <3>3
  <2>5. h = [i \in 0 .. m |-> h[i]]
    OBVIOUS
  <2>6. Unfolds(s, h, m)
    <3> HIDE DEF h
    <3>1. QED
      BY <2>4, <2>5 DEF Unfolds
  <2>7. QED
    BY <1>2, <2>6
<1>5. QED
  BY <1>3, <1>4

LEMMA ChainUnfolds ==
  ASSUME NEW s, PointsBack(s)
  PROVE  /\ ChainOf(s)[0] = {}
         /\ \A i \in 1 .. Len(s) :
              ChainOf(s)[i] = {i} \cup ChainOf(s)[s[i].next]
<1>1. Len(s) \in 0 .. Len(s)
  BY DEF PointsBack
<1>2. \E g : Unfolds(s, g, Len(s))
  BY <1>1, ChainExists
<1>3. ChainOf(s) = CHOOSE g : Unfolds(s, g, Len(s))
  BY DEF ChainOf, Unfolds
<1>4. Unfolds(s, ChainOf(s), Len(s))
  BY <1>2, <1>3
<1> DEFINE g == ChainOf(s)
<1>5. \A i \in 0 .. Len(s) :
        g[i] = IF i = 0 THEN {} ELSE {i} \cup g[s[i].next]
  <2> HIDE DEF g
  <2>1. g = [i \in 0 .. Len(s) |-> IF i = 0 THEN {} ELSE {i} \cup g[s[i].next]]
    BY <1>4 DEF Unfolds, Null, g
  <2>2. QED
    BY <2>1
<1>6. Len(s) \in Nat
  BY DEF PointsBack
<1> HIDE DEF g
<1>7. g[0] = {}
  <2>1. 0 \in 0 .. Len(s)
    BY <1>6
  <2>2. QED
    BY <1>5, <2>1
<1>8. ASSUME NEW i \in 1 .. Len(s)
      PROVE  g[i] = {i} \cup g[s[i].next]
  <2>1. i \in 0 .. Len(s) /\ i # 0
    BY <1>6
  <2>2. g[i] = IF i = 0 THEN {} ELSE {i} \cup g[s[i].next]
    BY <1>5, <2>1
  <2>3. QED
    BY <2>1, <2>2
<1>9. QED
  BY <1>7, <1>8 DEF g

(* A chain passes only nodes as old as its first or older. *)
LEMMA ChainBelow ==
  ASSUME NEW s, PointsBack(s), NEW i \in 0 .. Len(s)
  PROVE  ChainOf(s)[i] \subseteq 1 .. i
<1> DEFINE T == {k \in 0 .. Len(s) : ~(ChainOf(s)[k] \subseteq 1 .. k)}
<1> SUFFICES ASSUME T # {} PROVE FALSE
  OBVIOUS
<1>1. Len(s) \in Nat
  BY DEF PointsBack
<1>2. PICK m \in T : \A k \in T : m <= k
  <2>1. T \subseteq Nat
    BY <1>1
  <2>2. QED
    BY <2>1, SmallestElement
<1>3. m \in 0 .. Len(s) /\ ~(ChainOf(s)[m] \subseteq 1 .. m)
  OBVIOUS
<1>4. m # 0
  BY <1>3, ChainUnfolds
<1>5. m \in 1 .. Len(s)
  BY <1>1, <1>3, <1>4
<1>6. ChainOf(s)[m] = {m} \cup ChainOf(s)[s[m].next]
  BY <1>5, ChainUnfolds
<1>7. s[m].next \in 0 .. m - 1
  BY <1>5, NextInRange
<1>8. s[m].next \in 0 .. Len(s) /\ s[m].next \notin T
  BY <1>1, <1>2, <1>5, <1>7
<1>9. ChainOf(s)[s[m].next] \subseteq 1 .. s[m].next
  BY <1>8
<1>10. 1 .. s[m].next \subseteq 1 .. m
  BY <1>1, <1>5, <1>7
<1>11. QED
  BY <1>1, <1>3, <1>5, <1>6, <1>9, <1>10

(* Lists that agree on their older nodes have the same chains there. *)
LEMMA ChainAgrees ==
  ASSUME NEW s, PointsBack(s), NEW r, PointsBack(r),
         NEW n \in 0 .. Len(s), n <= Len(r),
         \A i \in 1 .. n : r[i] = s[i]
  PROVE  \A i \in 0 .. n : ChainOf(r)[i] = ChainOf(s)[i]
<1> DEFINE T == {k \in 0 .. n : ChainOf(r)[k] # ChainOf(s)[k]}
<1> SUFFICES ASSUME T # {} PROVE FALSE
  OBVIOUS
<1>1. Len(s) \in Nat /\ Len(r) \in Nat /\ n \in Nat
  BY DEF PointsBack
<1>2. PICK m \in T : \A k \in T : m <= k
  <2>1. T \subseteq Nat
    BY <1>1
  <2>2. QED
    BY <2>1, SmallestElement
<1>3. m \in 0 .. n /\ ChainOf(r)[m] # ChainOf(s)[m]
  OBVIOUS
<1>4. m \in 0 .. Len(s) /\ m \in 0 .. Len(r)
  BY <1>1, <1>3
<1>5. m # 0
  BY <1>3, ChainUnfolds
<1>6. m \in 1 .. n /\ m \in 1 .. Len(s) /\ m \in 1 .. Len(r)
  BY <1>1, <1>3, <1>4, <1>5
<1>7. s[m].next \in 0 .. m - 1 /\ r[m] = s[m]
  BY <1>6, NextInRange
<1>8. s[m].next \in 0 .. n /\ s[m].next \notin T
  BY <1>1, <1>2, <1>6, <1>7
<1>9. ChainOf(r)[s[m].next] = ChainOf(s)[s[m].next]
  BY <1>8
<1>10. /\ ChainOf(s)[m] = {m} \cup ChainOf(s)[s[m].next]
      /\ ChainOf(r)[m] = {m} \cup ChainOf(r)[r[m].next]
  BY <1>6, ChainUnfolds
<1>11. QED
  BY <1>3, <1>7, <1>9, <1>10

(* The connections in the chain from node i. *)
ItemsOf(s, i) == {s[j].item : j \in ChainOf(s)[i]} \ {Null}

LEMMA ItemsUnfold ==
  ASSUME NEW s, PointsBack(s)
  PROVE  /\ ItemsOf(s, Null) = {}
         /\ \A i \in 1 .. Len(s) :
              ItemsOf(s, i) = ({s[i].item} \ {Null}) \cup ItemsOf(s, s[i].next)
<1>1. Len(s) \in Nat
  BY DEF PointsBack
<1>2. ChainOf(s)[Null] = {}
  BY ChainUnfolds DEF Null
<1>3. ASSUME NEW i \in 1 .. Len(s)
      PROVE  ChainOf(s)[i] = {i} \cup ChainOf(s)[s[i].next]
  BY ChainUnfolds
<1>4. QED
  BY <1>2, <1>3 DEF ItemsOf

LEMMA ItemsAgree ==
  ASSUME NEW s, PointsBack(s), NEW r, PointsBack(r),
         NEW n \in 0 .. Len(s), n <= Len(r),
         \A i \in 1 .. n : r[i] = s[i]
  PROVE  ItemsOf(r, n) = ItemsOf(s, n)
<1>1. n \in Nat
  BY DEF PointsBack
<1>2. ChainOf(r)[n] = ChainOf(s)[n] /\ ChainOf(s)[n] \subseteq 1 .. n
  BY <1>1, ChainAgrees, ChainBelow
<1>3. QED
  BY <1>2 DEF ItemsOf

LEMMA PooledItems ==
  ASSUME TypeOK
  PROVE  /\ PointsBack(node) /\ first \in 0 .. Len(node) /\ Len(node) \in Nat
         /\ Chain = ChainOf(node)
         /\ Pooled = ItemsOf(node, first)
<1>1. PointsBack(node) /\ first \in 0 .. Len(node) /\ Len(node) \in Nat
  BY DEF TypeOK, PointsBack, Node
<1>2. Chain = ChainOf(node)
  BY DEF Chain, ChainOf
<1>3. QED
  BY <1>1, <1>2 DEF Pooled, ItemsOf

LEMMA PooledItemsAfter ==
  Chain' = ChainOf(node') /\ Pooled' = ItemsOf(node', first')
<1>1. Chain' = ChainOf(node')
  BY DEF Chain, ChainOf
<1>2. QED
  BY <1>1 DEF Pooled, ItemsOf

(* The first node of the list and the rest. *)
LEMMA FirstAndRest ==
  ASSUME TypeOK, first # Null
  PROVE  /\ first \in 1 .. Len(node) /\ first \in Chain[first]
         /\ node[first].next \in 0 .. first - 1
         /\ Chain[first] = {first} \cup Chain[node[first].next]
         /\ Pooled = ({node[first].item} \ {Null}) \cup ItemsOf(node, node[first].next)
<1>1. /\ PointsBack(node) /\ Len(node) \in Nat /\ first \in 1 .. Len(node)
      /\ Chain = ChainOf(node) /\ Pooled = ItemsOf(node, first)
  BY PooledItems DEF Null
<1>2. Chain[first] = {first} \cup Chain[node[first].next]
  BY <1>1, ChainUnfolds
<1>3. node[first].next \in 0 .. first - 1
  BY <1>1, NextInRange
<1>4. Pooled = ({node[first].item} \ {Null}) \cup ItemsOf(node, node[first].next)
  BY <1>1, ItemsUnfold
<1>5. QED
  BY <1>1, <1>2, <1>3, <1>4

(***************************************************************************)
(* Where a connection can be while no push overlapped another operation,   *)
(* and what a thread whose tasks run alone finds in the list.              *)
(***************************************************************************)

(* Between tasks a thread has no connection; a thread that never began a   *)
(* task is idle.                                                           *)
IdleInv ==
  \A t \in Threads : /\ pc[t] \in {"idle", "locked"} => conn[t] = Null
                     /\ tasks[t] = 0 => pc[t] = "idle"

UnopenedInv == ~connectionQueue => opened = 0 /\ leaked = {}

(* Without an overlap one thread at a time is inside poll or push, and     *)
(* what it has read of first is still true.                                *)
Mid(t) == pc[t] \in {"unlink", "push"}

RaceInv ==
  ~raced =>
    \A t \in Threads : Mid(t) => /\ f[t] = first
                                 /\ \A u \in Threads : Mid(u) => u = t

Alone(t) == \A u \in Threads \ {t} : tasks[u] = 0

(* returnConnection pushes null where getConnection returned null, so the  *)
(* list can hold null; a thread alone pushes it only onto an empty pool.   *)
NullsLast ==
  \A i \in Chain[first] : node[i].item = Null => ItemsOf(node, node[i].next) = {}

AloneAt(t) ==
  /\ ~raced
  /\ NullsLast
  /\ pc[t] \notin {"idle", "locked"} /\ conn[t] = Null => Pooled = {}

AloneInv == \A t \in Threads : Alone(t) => AloneAt(t)

Accounts == IdleInv /\ UnopenedInv /\ RaceInv /\ LostOnlyByRace

PInv == IInv /\ Accounts /\ AloneInv

LEMMA InitAccounts == Init => Accounts /\ AloneInv
<1> SUFFICES ASSUME Init PROVE Accounts /\ AloneInv
  OBVIOUS
<1>1. TypeOK /\ node = <<>> /\ first = 0
  BY InitIInv DEF IInv, Init, Null
<1>2. Chain[first] = {} /\ Pooled = {}
  BY <1>1, PooledItems, ChainUnfolds, ItemsUnfold DEF Null
<1>3. IdleInv /\ UnopenedInv /\ RaceInv
  BY DEF Init, IdleInv, UnopenedInv, RaceInv, Mid
<1>4. LostOnlyByRace
  <2>1. opened = 0 /\ leaked = {} /\ \A t \in Threads : conn[t] = Null
    BY DEF Init
  <2>2. 1 .. opened = {}
    BY <2>1
  <2>3. QED
    BY <1>2, <2>1, <2>2 DEF LostOnlyByRace
<1>5. AloneInv
  BY <1>2 DEF Init, AloneInv, AloneAt, NullsLast
<1>6. QED
  BY <1>3, <1>4, <1>5 DEF Accounts

(* A step that leaves the list and the connections where they are. *)
LEMMA NothingMoves ==
  ASSUME PInv, UNCHANGED <<listVars, conn, leaked, opened>>,
         raced' = FALSE => raced = FALSE
  PROVE  /\ LostOnlyByRace' /\ UnopenedInv'
         /\ Pooled' = Pooled /\ (NullsLast => NullsLast')
<1>1. Chain' = Chain /\ Pooled' = Pooled
  BY DEF Chain, Pooled, listVars
<1>2. UnopenedInv' /\ (NullsLast => NullsLast')
  BY <1>1 DEF PInv, Accounts, UnopenedInv, NullsLast, listVars
<1>3. LostOnlyByRace'
  BY <1>1 DEF PInv, Accounts, LostOnlyByRace, IInv, TypeOK
<1>4. QED
  BY <1>1, <1>2, <1>3

LEMMA EnterAccounts ==
  ASSUME PInv, NEW t \in Threads, Enter(t)
  PROVE  Accounts' /\ (Alone(t) => AloneAt(t)')
<1>1. /\ UNCHANGED <<listVars, f, conn, opened, leaked, raced>>
      /\ pc' = [pc EXCEPT ![t] = "locked"] /\ pc[t] = "idle"
      /\ tasks' = [tasks EXCEPT ![t] = @ + 1]
  BY DEF Enter, histVars
<1>2. TypeOK
  BY DEF PInv, IInv
<1>3. /\ LostOnlyByRace' /\ UnopenedInv'
      /\ Pooled' = Pooled /\ (NullsLast => NullsLast')
  BY <1>1, NothingMoves
<1>4. IdleInv'
  BY <1>1, <1>2 DEF PInv, Accounts, IdleInv, TypeOK
<1>5. RaceInv'
  BY <1>1, <1>2 DEF PInv, Accounts, RaceInv, Mid, TypeOK, listVars
<1>6. Alone(t) => AloneAt(t)'
  BY <1>1, <1>2, <1>3 DEF PInv, AloneInv, AloneAt, TypeOK
<1>7. QED
  BY <1>3, <1>4, <1>5, <1>6 DEF Accounts

(* The first call fills the list with the connections 1 .. n. *)
LEMMA FilledItems ==
  ASSUME NEW n \in 0 .. PoolSize
  PROVE  /\ PointsBack(Filled(n)) /\ Len(Filled(n)) = n
         /\ \A i \in 0 .. n : ItemsOf(Filled(n), i) = 1 .. i
         /\ \A i \in 1 .. n : Filled(n)[i].item # Null
<1> DEFINE s == Filled(n)
<1>1. n \in Nat /\ n <= PoolSize
  BY PoolAssumption
<1>2. /\ PointsBack(s) /\ Len(s) = n
      /\ \A i \in 1 .. n : s[i].item = i /\ s[i].next = i - 1
  BY <1>1, PoolAssumption DEF Filled, PointsBack, Node
<1> HIDE DEF s
<1> DEFINE T == {i \in 0 .. n : ItemsOf(s, i) # 1 .. i}
<1>3. ASSUME T # {} PROVE FALSE
  <2>1. PICK m \in T : \A k \in T : m <= k
    <3>1. T \subseteq Nat
      BY <1>1
    <3>2. QED
      BY <1>3, <3>1, SmallestElement
  <2>2. m \in 0 .. n /\ ItemsOf(s, m) # 1 .. m
    OBVIOUS
  <2>3. m # 0
    <3>1. ItemsOf(s, 0) = {}
      BY <1>2, ItemsUnfold DEF Null
    <3>2. QED
      BY <2>2, <3>1
  <2>4. m \in 1 .. n /\ m - 1 \in 0 .. n /\ m - 1 \notin T
    BY <1>1, <2>1, <2>2, <2>3
  <2>5. ItemsOf(s, m - 1) = 1 .. m - 1
    BY <2>4
  <2>6. ItemsOf(s, m) = ({m} \ {Null}) \cup ItemsOf(s, m - 1)
    BY <1>2, <2>4, ItemsUnfold
  <2>7. {m} \ {Null} = {m}
    BY <2>3 DEF Null
  <2>8. 1 .. m = {m} \cup 1 .. m - 1
    BY <1>1, <2>4
  <2>9. QED
    BY <2>2, <2>5, <2>6, <2>7, <2>8
<1>4. \A i \in 1 .. n : s[i].item # Null
  BY <1>1, <1>2 DEF Null
<1>5. QED
  BY <1>2, <1>3, <1>4 DEF s

LEMMA FillAccounts ==
  ASSUME PInv, NEW t \in Threads, Fill(t)
  PROVE  Accounts' /\ (Alone(t) => AloneAt(t)')
<1>1. PICK n \in 0 .. PoolSize :
        node' = Filled(n) /\ first' = Len(node') /\ opened' = n
  BY DEF Fill
<1>2. /\ \A u \in Threads : conn[u] = Null /\ pc[u] \in {"idle", "locked"}
      /\ connectionQueue' = TRUE /\ leaked = {} /\ pc[t] = "locked"
      /\ UNCHANGED <<monitor, pc, f, conn, tasks, leaked, raced>>
  BY DEF PInv, IInv, EmptyInv, Accounts, UnopenedInv, Fill
<1>3. TypeOK'
  BY FillIInv DEF PInv, IInv
<1>4. n \in Nat
  BY PoolAssumption
<1>5. Pooled' = 1 .. n
  <2>1. Pooled' = ItemsOf(node', first')
    BY PooledItemsAfter
  <2>2. node' = Filled(n) /\ first' = n /\ n \in 0 .. n
    BY <1>1, <1>4, FilledItems
  <2>3. QED
    BY <2>1, <2>2, FilledItems
<1>6. NullsLast'
  <2>1. Chain'[first'] \subseteq 1 .. n
    <3>1. Chain' = ChainOf(node') /\ first' = n /\ n \in 0 .. Len(node')
      BY <1>1, <1>4, PooledItemsAfter, FilledItems
    <3>2. PointsBack(node')
      BY <1>1, FilledItems
    <3>3. QED
      BY <3>1, <3>2, ChainBelow
  <2>2. QED
    BY <1>1, <2>1, FilledItems DEF NullsLast
<1>7. IdleInv' /\ UnopenedInv' /\ RaceInv'
  BY <1>2 DEF PInv, Accounts, IdleInv, UnopenedInv, RaceInv, Mid
<1>8. LostOnlyByRace'
  <2>1. Null \notin 1 .. n
    BY <1>4 DEF Null
  <2>2. QED
    BY <1>1, <1>2, <1>5, <2>1 DEF LostOnlyByRace
<1>9. Alone(t) => AloneAt(t)'
  BY <1>2, <1>6 DEF PInv, AloneInv, AloneAt
<1>10. QED
  BY <1>7, <1>8, <1>9 DEF Accounts

LEMMA PollEmptyAccounts ==
  ASSUME PInv, NEW t \in Threads, PollEmpty(t)
  PROVE  Accounts' /\ (Alone(t) => AloneAt(t)')
<1>1. TypeOK /\ conn[t] = Null /\ pc[t] = "locked" /\ first = Null
  BY DEF PInv, IInv, Accounts, IdleInv, PollEmpty
<1>2. /\ UNCHANGED <<listVars, f, tasks, opened, leaked, raced>>
      /\ conn' = [conn EXCEPT ![t] = Null]
      /\ pc' = [pc EXCEPT ![t] = "using"]
  BY DEF PollEmpty, histVars
<1>3. conn' = conn
  BY <1>1, <1>2 DEF TypeOK
<1>4. /\ LostOnlyByRace' /\ UnopenedInv'
      /\ Pooled' = Pooled /\ (NullsLast => NullsLast')
  BY <1>2, <1>3, NothingMoves
<1>5. Pooled = {}
  BY <1>1, PooledItems, ItemsUnfold
<1>6. IdleInv' /\ RaceInv'
  BY <1>1, <1>2, <1>3 DEF PInv, Accounts, IdleInv, RaceInv, Mid, TypeOK, listVars
<1>7. Alone(t) => AloneAt(t)'
  BY <1>2, <1>4, <1>5 DEF PInv, AloneInv, AloneAt
<1>8. QED
  BY <1>4, <1>6, <1>7 DEF Accounts

LEMMA PollFirstAccounts ==
  ASSUME PInv, NEW t \in Threads, PollFirst(t)
  PROVE  Accounts' /\ (Alone(t) => AloneAt(t)')
<1>1. TypeOK /\ conn[t] = Null /\ pc[t] = "locked" /\ first # Null /\ connectionQueue
  BY DEF PInv, IInv, Accounts, IdleInv, PollFirst
<1>2. /\ UNCHANGED <<listVars, tasks, opened, leaked>>
      /\ f' = [f EXCEPT ![t] = first]
      /\ conn' = [conn EXCEPT ![t] = node[first].item]
      /\ pc' = [pc EXCEPT ![t] = "unlink"]
      /\ raced' = (raced \/ MidOperation(t)) /\ raced \in BOOLEAN
  BY DEF PollFirst, PInv, IInv, TypeOK
<1>3. Chain' = Chain /\ Pooled' = Pooled /\ (NullsLast => NullsLast')
  <2>1. Chain' = Chain /\ Pooled' = Pooled
    BY <1>2 DEF Chain, Pooled, listVars
  <2>2. QED
    BY <1>2, <2>1 DEF NullsLast, listVars
<1>4. /\ first \in Chain[first]
      /\ Pooled = ({node[first].item} \ {Null}) \cup ItemsOf(node, node[first].next)
  BY <1>1, FirstAndRest
<1>5. UnopenedInv'
  BY <1>1, <1>2 DEF UnopenedInv, listVars
<1>6. IdleInv'
  BY <1>1, <1>2 DEF PInv, Accounts, IdleInv, TypeOK
<1>7. RaceInv'
  <2> SUFFICES ASSUME ~raced' PROVE RaceInv'
    BY DEF RaceInv
  <2>1. \A u \in Threads \ {t} : ~Mid(u) /\ ~Mid(u)'
    BY <1>1, <1>2 DEF MidOperation, Mid, TypeOK
  <2>2. f'[t] = first'
    BY <1>1, <1>2 DEF TypeOK, listVars
  <2>3. QED
    BY <2>1, <2>2 DEF RaceInv
<1>8. LostOnlyByRace'
  <2> SUFFICES ASSUME ~raced'
               PROVE  1 .. opened = (Pooled \cup {conn'[u] : u \in Threads} \cup leaked) \ {Null}
    BY <1>2, <1>3 DEF LostOnlyByRace
  <2>1. 1 .. opened = (Pooled \cup {conn[u] : u \in Threads} \cup leaked) \ {Null}
    BY <1>2 DEF PInv, Accounts, LostOnlyByRace
  <2>2. \A u \in Threads : u # t => conn'[u] = conn[u]
    BY <1>1, <1>2 DEF TypeOK
  <2>3. conn'[t] = node[first].item
    BY <1>1, <1>2 DEF TypeOK
  <2>4. QED
    BY <1>1, <1>4, <2>1, <2>2, <2>3
<1>9. ASSUME Alone(t)
      PROVE  AloneAt(t)'
  <2>1. ~raced /\ NullsLast
    BY <1>9 DEF PInv, AloneInv, AloneAt
  <2>2. ~raced'
    BY <1>2, <1>9, <2>1 DEF PInv, Accounts, IdleInv, Alone, MidOperation
  <2>3. conn'[t] = node[first].item
    BY <1>1, <1>2 DEF TypeOK
  <2>4. conn'[t] = Null => Pooled = {}
    BY <1>4, <2>1, <2>3 DEF NullsLast
  <2>5. QED
    BY <1>3, <2>1, <2>2, <2>4 DEF AloneAt
<1>10. QED
  BY <1>5, <1>6, <1>7, <1>8, <1>9 DEF Accounts

(* Unlinking the first node leaves the chains of the older nodes alone. *)
LEMMA UnlinkAccounts ==
  ASSUME PInv, NEW t \in Threads, UnlinkFirst(t)
  PROVE  Accounts' /\ (Alone(t) => AloneAt(t)')
<1> DEFINE k == f[t]
<1> DEFINE j == node[k].next
<1>1. /\ TypeOK /\ TypeOK' /\ UnlinkInv /\ RaceInv /\ IdleInv /\ UnopenedInv
      /\ LostOnlyByRace /\ connectionQueue
  BY UnlinkFirstIInv DEF PInv, IInv, Accounts, EmptyInv, UnlinkFirst
<1>2. /\ k \in 1 .. Len(node) /\ conn[t] = node[k].item
      /\ pc[t] = "unlink" /\ pc' = [pc EXCEPT ![t] = "using"]
      /\ node' = [node EXCEPT ![k] = [item |-> Null, next |-> Null]]
      /\ first' = j
      /\ UNCHANGED <<connectionQueue, f, conn, tasks, opened, leaked, raced>>
  BY <1>1 DEF UnlinkInv, UnlinkFirst, histVars
<1>3. /\ PointsBack(node) /\ PointsBack(node') /\ Len(node') = Len(node)
      /\ \A i \in 1 .. Len(node) : i # k => node'[i] = node[i]
      /\ Len(node) \in Nat
  BY <1>1, <1>2 DEF TypeOK, PointsBack, Node
<1>4. j \in 0 .. k - 1
  BY <1>2, <1>3, NextInRange
<1>5. Pooled' = ItemsOf(node, j)
  <2>1. ItemsOf(node', j) = ItemsOf(node, j)
    <3>1. j \in 0 .. Len(node) /\ j <= Len(node')
      BY <1>2, <1>3, <1>4
    <3>2. \A i \in 1 .. j : node'[i] = node[i]
      BY <1>2, <1>3, <1>4
    <3>3. QED
      BY <1>3, <3>1, <3>2, ItemsAgree
  <2>2. QED
    BY <1>2, <2>1, PooledItemsAfter
<1>6. IdleInv' /\ UnopenedInv'
  BY <1>1, <1>2 DEF IdleInv, UnopenedInv, TypeOK
<1>7. RaceInv'
  BY <1>1, <1>2 DEF RaceInv, Mid, TypeOK
<1>8. ~raced => k = first
  BY <1>1, <1>2 DEF RaceInv, Mid
<1>9. k = first => Pooled = ({conn[t]} \ {Null}) \cup Pooled'
  BY <1>1, <1>2, <1>5, FirstAndRest DEF Null
<1>10. LostOnlyByRace'
  BY <1>1, <1>2, <1>8, <1>9 DEF LostOnlyByRace
<1>11. ASSUME Alone(t)
       PROVE  AloneAt(t)'
  <2>1. ~raced /\ NullsLast /\ (conn[t] = Null => Pooled = {})
    BY <1>2, <1>11 DEF PInv, AloneInv, AloneAt
  <2>2. conn[t] = Null => Pooled' = {}
    BY <1>8, <1>9, <2>1
  <2>3. NullsLast'
    <3> SUFFICES ASSUME NEW i \in Chain'[first'], node'[i].item = Null
                 PROVE  ItemsOf(node', node'[i].next) = {}
      BY DEF NullsLast
    <3>1. /\ Chain' = ChainOf(node') /\ Chain = ChainOf(node)
          /\ j \in 0 .. Len(node) /\ j \in 0 .. Len(node') /\ j <= Len(node')
      BY <1>1, <1>2, <1>3, <1>4, PooledItems, PooledItemsAfter
    <3>2. \A n \in 1 .. j : node'[n] = node[n]
      BY <1>2, <1>3, <1>4
    <3>3. j \in 0 .. j
      BY <1>3, <1>4
    <3>4. ChainOf(node')[j] = ChainOf(node)[j]
      <4> HIDE DEF j
      <4>1. \A n \in 0 .. j : ChainOf(node')[n] = ChainOf(node)[n]
        BY <1>3, <3>1, <3>2, ChainAgrees
      <4>2. QED
        BY <3>3, <4>1
    <3>5. i \in 1 .. j /\ i \in Chain[j]
      BY <1>2, <1>3, <3>1, <3>4, ChainBelow
    <3>6. i \in Chain[first]
      <4>1. first = k /\ first # Null
        BY <1>2, <1>8, <2>1 DEF Null
      <4>2. QED
        BY <1>1, <3>5, <4>1, FirstAndRest
    <3>7. node'[i] = node[i]
      BY <3>2, <3>5
    <3>8. ItemsOf(node, node[i].next) = {}
      BY <2>1, <3>6, <3>7 DEF NullsLast
    <3>9. node[i].next \in 0 .. i - 1 /\ i \in 1 .. Len(node)
      BY <1>3, <1>4, <3>1, <3>5, NextInRange
    <3>10. /\ node[i].next \in 0 .. Len(node) /\ node[i].next <= Len(node')
           /\ \A n \in 1 .. node[i].next : node'[n] = node[n]
      BY <1>3, <1>4, <3>2, <3>5, <3>9
    <3>11. ItemsOf(node', node[i].next) = ItemsOf(node, node[i].next)
      BY <1>3, <3>10, ItemsAgree
    <3>12. QED
      BY <3>7, <3>8, <3>11
  <2>4. conn' = conn /\ raced' = raced
    BY <1>2
  <2>5. QED
    BY <2>1, <2>2, <2>3, <2>4 DEF AloneAt
<1>12. QED
  BY <1>6, <1>7, <1>10, <1>11 DEF Accounts

LEMMA InsertAccounts ==
  ASSUME PInv, NEW t \in Threads, Insert(t)
  PROVE  Accounts' /\ (Alone(t) => AloneAt(t)')
<1>1. /\ TypeOK /\ pc[t] = "using"
      /\ UNCHANGED <<listVars, f, conn, tasks, opened, leaked, raced>>
      /\ pc' = [pc EXCEPT ![t] = "returning"]
  BY DEF PInv, IInv, Insert, histVars
<1>2. /\ LostOnlyByRace' /\ UnopenedInv'
      /\ Pooled' = Pooled /\ (NullsLast => NullsLast')
  BY <1>1, NothingMoves
<1>3. IdleInv' /\ RaceInv'
  BY <1>1 DEF PInv, Accounts, IdleInv, RaceInv, Mid, TypeOK, listVars
<1>4. Alone(t) => AloneAt(t)'
  BY <1>1, <1>2 DEF PInv, AloneInv, AloneAt
<1>5. QED
  BY <1>2, <1>3, <1>4 DEF Accounts

LEMMA FailAccounts ==
  ASSUME PInv, NEW t \in Threads, Fail(t)
  PROVE  Accounts' /\ (Alone(t) => AloneAt(t)')
<1>1. /\ TypeOK /\ pc[t] = "using" /\ connectionQueue
      /\ UNCHANGED <<listVars, f, tasks, opened, raced>>
      /\ pc' = [pc EXCEPT ![t] = "idle"]
      /\ conn' = [conn EXCEPT ![t] = Null]
      /\ leaked' = leaked \cup ({conn[t]} \ {Null})
      /\ tasks[t] # 0
  BY DEF PInv, IInv, EmptyInv, Accounts, IdleInv, Fail
<1>2. Chain' = Chain /\ Pooled' = Pooled
  BY <1>1 DEF Chain, Pooled, listVars
<1>3. NullsLast => NullsLast'
  BY <1>1, <1>2 DEF NullsLast, listVars
<1>4. IdleInv' /\ RaceInv' /\ UnopenedInv'
  BY <1>1
  DEF PInv, Accounts, IdleInv, RaceInv, UnopenedInv, Mid, TypeOK, listVars
<1>5. LostOnlyByRace'
  <2>1. conn'[t] = Null /\ \A u \in Threads : u # t => conn'[u] = conn[u]
    BY <1>1 DEF TypeOK
  <2>2. QED
    BY <1>1, <1>2, <2>1 DEF PInv, Accounts, LostOnlyByRace
<1>6. Alone(t) => AloneAt(t)'
  BY <1>1, <1>3 DEF PInv, AloneInv, AloneAt, TypeOK
<1>7. QED
  BY <1>4, <1>5, <1>6 DEF Accounts

LEMMA PushReadAccounts ==
  ASSUME PInv, NEW t \in Threads, PushRead(t)
  PROVE  Accounts' /\ (Alone(t) => AloneAt(t)')
<1>1. /\ TypeOK /\ pc[t] = "returning" /\ tasks[t] # 0
      /\ UNCHANGED <<listVars, conn, tasks, opened, leaked>>
      /\ f' = [f EXCEPT ![t] = first]
      /\ pc' = [pc EXCEPT ![t] = "push"]
      /\ raced' = (raced \/ MidOperation(t)) /\ raced \in BOOLEAN
  BY DEF PInv, IInv, TypeOK, Accounts, IdleInv, PushRead
<1>2. /\ LostOnlyByRace' /\ UnopenedInv'
      /\ Pooled' = Pooled /\ (NullsLast => NullsLast')
  BY <1>1, NothingMoves
<1>3. IdleInv'
  BY <1>1 DEF PInv, Accounts, IdleInv, TypeOK
<1>4. RaceInv'
  <2> SUFFICES ASSUME ~raced' PROVE RaceInv'
    BY DEF RaceInv
  <2>1. \A u \in Threads \ {t} : ~Mid(u) /\ ~Mid(u)'
    BY <1>1 DEF MidOperation, Mid, TypeOK
  <2>2. f'[t] = first'
    BY <1>1 DEF TypeOK, listVars
  <2>3. QED
    BY <2>1, <2>2 DEF RaceInv
<1>5. ASSUME Alone(t)
      PROVE  AloneAt(t)'
  <2>1. ~raced /\ NullsLast /\ (conn[t] = Null => Pooled = {})
    BY <1>1, <1>5 DEF PInv, AloneInv, AloneAt
  <2>2. ~raced'
    BY <1>1, <1>5, <2>1 DEF PInv, Accounts, IdleInv, Alone, MidOperation
  <2>3. QED
    BY <1>1, <1>2, <2>1, <2>2 DEF AloneAt
<1>6. QED
  BY <1>2, <1>3, <1>4, <1>5 DEF Accounts

(* Linking a new node leaves the chains of the nodes in the list alone. *)
LEMMA LinkAccounts ==
  ASSUME PInv, NEW t \in Threads, LinkFirst(t)
  PROVE  Accounts' /\ (Alone(t) => AloneAt(t)')
<1> DEFINE k == Len(node) + 1
<1>1. /\ TypeOK /\ TypeOK' /\ RaceInv /\ IdleInv /\ UnopenedInv
      /\ LostOnlyByRace /\ connectionQueue /\ tasks[t] # 0
  BY LinkFirstIInv DEF PInv, IInv, Accounts, EmptyInv, IdleInv, LinkFirst
<1>2. /\ pc[t] = "push" /\ pc' = [pc EXCEPT ![t] = "idle"]
      /\ conn' = [conn EXCEPT ![t] = Null]
      /\ node' = Append(node, NewNode(t)) /\ first' = Len(node')
      /\ UNCHANGED <<connectionQueue, monitor, f, tasks, opened, leaked, raced>>
  BY DEF LinkFirst, histVars
<1>3. /\ PointsBack(node) /\ PointsBack(node') /\ Len(node') = k
      /\ node'[k].item = conn[t] /\ node'[k].next = f[t]
      /\ \A i \in 1 .. Len(node) : node'[i] = node[i]
      /\ Len(node) \in Nat /\ first \in 0 .. Len(node)
  BY <1>1, <1>2 DEF TypeOK, PointsBack, Node, NewNode
<1>4. ASSUME NEW i \in 0 .. Len(node)
      PROVE  /\ ItemsOf(node', i) = ItemsOf(node, i)
             /\ ChainOf(node')[i] = ChainOf(node)[i]
  <2>1. i <= Len(node') /\ \A n \in 1 .. i : node'[n] = node[n]
    BY <1>3
  <2>2. i \in 0 .. i
    BY <1>3
  <2>3. ItemsOf(node', i) = ItemsOf(node, i)
    BY <1>3, <2>1, ItemsAgree
  <2>4. ChainOf(node')[i] = ChainOf(node)[i]
    BY <1>3, <2>1, <2>2, ChainAgrees
  <2>5. QED
    BY <2>3, <2>4
<1>5. ~raced => f[t] = first
  BY <1>1, <1>2 DEF RaceInv, Mid
<1>6. /\ Pooled' = ({conn[t]} \ {Null}) \cup ItemsOf(node', f[t])
      /\ Chain'[first'] = {k} \cup ChainOf(node')[f[t]]
  <2>1. k \in 1 .. Len(node')
    BY <1>3
  <2>2. first' = k
    BY <1>2, <1>3
  <2> HIDE DEF k
  <2>3. ItemsOf(node', k) = ({node'[k].item} \ {Null}) \cup ItemsOf(node', node'[k].next)
    BY <1>3, <2>1, ItemsUnfold
  <2>4. ChainOf(node')[k] = {k} \cup ChainOf(node')[node'[k].next]
    BY <1>3, <2>1, ChainUnfolds
  <2>5. QED
    BY <1>3, <2>2, <2>3, <2>4, PooledItemsAfter
<1>7. ~raced => Pooled' = ({conn[t]} \ {Null}) \cup Pooled
  BY <1>1, <1>3, <1>4, <1>5, <1>6, PooledItems
<1>8. IdleInv' /\ UnopenedInv'
  BY <1>1, <1>2 DEF IdleInv, UnopenedInv, TypeOK
<1>9. RaceInv'
  BY <1>1, <1>2 DEF RaceInv, Mid, TypeOK
<1>10. LostOnlyByRace'
  <2>1. conn'[t] = Null /\ \A u \in Threads : u # t => conn'[u] = conn[u]
    BY <1>1, <1>2 DEF TypeOK
  <2>2. QED
    BY <1>1, <1>2, <1>7, <2>1 DEF LostOnlyByRace
<1>11. ASSUME Alone(t)
       PROVE  AloneAt(t)'
  <2>1. ~raced /\ NullsLast /\ (conn[t] = Null => Pooled = {})
    BY <1>2, <1>11 DEF PInv, AloneInv, AloneAt
  <2>2. NullsLast'
    <3> SUFFICES ASSUME NEW i \in Chain'[first'], node'[i].item = Null
                 PROVE  ItemsOf(node', node'[i].next) = {}
      BY DEF NullsLast
    <3>1. CASE i = k
      BY <1>1, <1>3, <1>4, <1>5, <2>1, <3>1, PooledItems
    <3>2. CASE i # k
      <4>1. i \in Chain[first]
        BY <1>1, <1>3, <1>4, <1>5, <1>6, <2>1, <3>2, PooledItems
      <4>2. i \in 1 .. Len(node)
        <5>1. ChainOf(node)[first] \subseteq 1 .. first
          BY <1>3, ChainBelow
        <5>2. QED
          BY <1>1, <1>3, <4>1, <5>1, PooledItems
      <4>3. ItemsOf(node, node[i].next) = {}
        BY <1>3, <2>1, <4>1, <4>2 DEF NullsLast
      <4>4. node[i].next \in 0 .. i - 1
        BY <1>3, <4>2, NextInRange
      <4>5. node[i].next \in 0 .. Len(node)
        BY <1>3, <4>2, <4>4
      <4>6. QED
        BY <1>3, <1>4, <4>2, <4>3, <4>5
    <3>3. QED
      BY <3>1, <3>2
  <2>3. QED
    BY <1>1, <1>2, <2>1, <2>2 DEF AloneAt, TypeOK
<1>12. QED
  BY <1>8, <1>9, <1>10, <1>11 DEF Accounts

(* If a thread is still alone after a step, the step was its own. *)
Step(t) == GetConnection(t) \/ Insert(t) \/ Fail(t) \/ ReturnConnection(t)

LEMMA AloneActs ==
  ASSUME PInv, NEW t \in Threads, NEW u \in Threads, Step(u), Alone(t)'
  PROVE  u = t /\ Alone(t)
<1>1. TypeOK /\ IdleInv
  BY DEF PInv, IInv, Accounts
<1>2. \/ pc[u] = "idle" /\ tasks' = [tasks EXCEPT ![u] = @ + 1]
      \/ pc[u] # "idle" /\ tasks' = tasks
  BY DEF Step, GetConnection, ReturnConnection, Enter, Fill, PollEmpty,
     PollFirst, UnlinkFirst, Insert, Fail, PushRead, LinkFirst
<1>3. tasks[u] \in Nat
  BY <1>1, PoolAssumption DEF TypeOK
<1>4. u = t
  <2> SUFFICES ASSUME u # t PROVE FALSE
    OBVIOUS
  <2>1. tasks'[u] = 0
    BY DEF Alone
  <2>2. CASE pc[u] = "idle" /\ tasks' = [tasks EXCEPT ![u] = @ + 1]
    <3>1. tasks'[u] = tasks[u] + 1
      BY <1>1, <2>2 DEF TypeOK
    <3>2. QED
      BY <1>3, <2>1, <3>1
  <2>3. CASE pc[u] # "idle" /\ tasks' = tasks
    BY <1>1, <2>1, <2>3 DEF IdleInv
  <2>4. QED
    BY <1>2, <2>2, <2>3
<1>5. Alone(t)
  BY <1>1, <1>2, <1>4 DEF Alone, TypeOK
<1>6. QED
  BY <1>4, <1>5

LEMMA NextPInv == PInv /\ [Next]_vars => PInv'
<1> SUFFICES ASSUME PInv, [Next]_vars PROVE PInv'
  OBVIOUS
<1>1. IInv'
  BY NextIInv DEF PInv
<1>2. ASSUME NEW u \in Threads, Step(u)
      PROVE  Accounts' /\ AloneInv'
  <2>1. Accounts' /\ (Alone(u) => AloneAt(u)')
    BY <1>2, EnterAccounts, FillAccounts, PollEmptyAccounts, PollFirstAccounts,
       UnlinkAccounts, InsertAccounts, FailAccounts, PushReadAccounts, LinkAccounts
    DEF Step, GetConnection, ReturnConnection
  <2>2. ASSUME NEW t \in Threads, Alone(t)'
        PROVE  AloneAt(t)'
    <3>1. u = t /\ Alone(t)
      BY <1>2, <2>2, AloneActs
    <3>2. QED
      BY <2>1, <3>1
  <2>3. QED
    BY <2>1, <2>2 DEF AloneInv
<1>3. ASSUME UNCHANGED vars
      PROVE  Accounts' /\ AloneInv'
  <2>1. /\ LostOnlyByRace' /\ UnopenedInv'
        /\ Pooled' = Pooled /\ (NullsLast => NullsLast')
    BY <1>3, NothingMoves DEF vars, listVars, histVars
  <2>2. IdleInv' /\ RaceInv'
    BY <1>3 DEF PInv, Accounts, IdleInv, RaceInv, Mid, vars, listVars, histVars
  <2>3. AloneInv'
    BY <1>3, <2>1 DEF PInv, AloneInv, Alone, AloneAt, vars, listVars, histVars
  <2>4. QED
    BY <2>1, <2>2, <2>3 DEF Accounts
<1>4. (\E u \in Threads : Step(u)) \/ UNCHANGED vars
  BY DEF Next, Finished, Step
<1>5. Accounts' /\ AloneInv'
  BY <1>2, <1>3, <1>4
<1>6. QED
  BY <1>1, <1>5 DEF PInv

LEMMA PInvariance == Spec => []PInv
<1>1. Init => PInv
  BY InitIInv, InitAccounts DEF PInv
<1>2. QED
  BY <1>1, NextPInv, PTL DEF Spec

(* While no push has overlapped another poll or push, every connection     *)
(* opened is in the list, with a task, or gone with a task that failed:    *)
(* the missing synchronized on returnConnection is the only leak besides   *)
(* the missing finally, for any number of threads and connections.         *)
THEOREM OnlyRacesLose == Spec => []LostOnlyByRace
<1>1. PInv => LostOnlyByRace
  BY DEF PInv, Accounts
<1>2. QED
  BY <1>1, PInvariance, PTL

(* A thread whose tasks run alone is given null only when the pool has no  *)
(* connection left.                                                        *)
THEOREM NullMeansEmpty == Spec => []NullOnlyWhenEmpty
<1>1. PInv => NullOnlyWhenEmpty
  BY DEF PInv, AloneInv, Alone, AloneAt, NullOnlyWhenEmpty
<1>2. QED
  BY <1>1, PInvariance, PTL
=============================================================================
