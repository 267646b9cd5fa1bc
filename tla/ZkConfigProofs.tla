---------------------------- MODULE ZkConfigProofs ----------------------------
(***************************************************************************)
(* Proofs about ZkConfig: if nothing is changed while the client starts,   *)
(* one-shot watches keep user name and password current, and the url too   *)
(* if the nodes change as a whole; and every failed reading costs at most  *)
(* one watch, for any number of changes and lost connections.              *)
(***************************************************************************)
EXTENDS ZkConfig, FiniteSetTheorems, TLAPS

(* Until main has called initValue there is nothing to react to. *)
StartInv ==
  pc["main"] # "show" => pc["event"] = "wait" /\ events = <<>> /\ todo = <<>>

(* What is watched has been read since its last change, though perhaps not *)
(* been stored yet.                                                        *)
WatchedIsFresh ==
  \A n \in watches :
    \/ Shown(n)
    \/ \E t \in Threads : pc[t] = "assign" /\ Node(t) = n

GotIsFresh ==
  \A t \in Threads :
    pc[t] = "assign" /\ Node(t) \in watches => got[t] = version[Node(t)]

(* The watches that are missing. *)
Off(n) == IF n \in watches THEN 0 ELSE 1
Missing == Off("username") + Off("passwd")

(* Of those a call of initValue has been past. *)
PastUsername(t) == at[t] = 3 \/ (at[t] = 2 /\ pc[t] = "assign")
PastPasswd(t) == at[t] = 3 /\ pc[t] = "assign"
MissingPast(t) ==
  (IF PastUsername(t) THEN Off("username") ELSE 0) +
  (IF PastPasswd(t) THEN Off("passwd") ELSE 0)

(* Each of these was taken by an event that is still in the queue. *)
PastIsQueued ==
  live => \A t \in Threads :
            pc[t] \in {"read", "assign"} => MissingPast(t) <= Len(events)

MissingIsQueued ==
  live /\ ~missed /\ pc["main"] = "show" /\ pc["event"] = "wait" =>
    Missing <= Len(events)

(* An event that is being handled stands for one watch. *)
Handling == IF pc["event"] = "wait" THEN 0 ELSE 1

MissingIsPaid ==
  live /\ field["passwd"] # 0 => Missing <= lapses + Len(events) + Handling

IInv ==
  /\ TypeOK
  /\ StartInv
  /\ WatchedIsFresh
  /\ GotIsFresh
  /\ PastIsQueued
  /\ MissingIsQueued
  /\ MissingIsPaid
-----------------------------------------------------------------------------
(* Arithmetic of MissingIsPaid: a failed call of initValue is exchanged for *)
(* a lapse, an event for its handling or a lapse, a watch for an event.    *)
LEMMA Exchange ==
  ASSUME NEW m \in Nat, NEW l \in Nat, NEW e \in Nat,
         NEW h \in Nat, NEW k \in Nat, m <= l + e + h, h <= k + 1
  PROVE  m <= (l + 1) + e + k
  OBVIOUS

LEMMA Handover ==
  ASSUME NEW m \in Nat, NEW l \in Nat, NEW e \in Nat, NEW h \in Nat,
         NEW j \in Nat, NEW d \in Nat, NEW k \in Nat,
         m <= l + e + h, h = 0, d + 1 = e, j + k = l + 1
  PROVE  m <= j + d + k
  OBVIOUS

LEMMA EventPays ==
  ASSUME NEW m \in Nat, NEW l \in Nat, NEW e \in Nat, NEW h \in Nat,
         NEW n \in Nat, NEW p \in Nat, m <= l + e + h, n <= m + p
  PROVE  n <= l + (e + p) + h
  OBVIOUS

LEMMA LenConfig == Len(Config) = 3
  BY DEF Config

(* The node of a thread's next getData. *)
LEMMA NodeOf ==
  ASSUME TypeOK, NEW t \in Threads
  PROVE  /\ at[t] = 1 => Node(t) = "url"
         /\ at[t] = 2 => Node(t) = "username"
         /\ at[t] = 3 => Node(t) = "passwd"
         /\ at[t] \in 1 .. 3
         /\ Node(t) \in Nodes
<1>1. at[t] \in 1 .. 3
  BY DEF TypeOK
<1>2. /\ at[t] = 1 => Node(t) = "url"
      /\ at[t] = 2 => Node(t) = "username"
      /\ at[t] = 3 => Node(t) = "passwd"
  BY DEF Node, Config
<1>3. QED
  BY <1>1, <1>2 DEF Nodes

LEMMA InitIInv == Init => IInv
<1> SUFFICES ASSUME Init PROVE IInv
  OBVIOUS
<1>1. TypeOK
  <2>1. /\ nodes \subseteq Nodes
        /\ version \in [Nodes -> Nat]
        /\ watches \subseteq Credentials \cap nodes
        /\ field \in [Nodes -> Nat]
    BY DEF Init
  <2>2. /\ pc \in [Threads -> {"read", "assign", "show", "wait"}]
        /\ pc["main"] # "wait" /\ pc["event"] # "show"
        /\ at \in [Threads -> 1 .. 3]
        /\ got \in [Threads -> Nat]
    BY DEF Init, Threads
  <2>3. setting \in 0 .. 3 /\ changes \in 0 .. MaxChanges
    BY ConfigAssumption DEF Init
  <2>4. failures \in 0 .. MaxFailures /\ lapses \in Nat
    BY ConfigAssumption DEF Init
  <2>5. events \in Seq({"NodeDataChanged", "NodeDeleted"})
    BY DEF Init
  <2>6. todo \in Seq(Request)
    BY DEF Init
  <2>7. /\ live \in BOOLEAN /\ absent \in BOOLEAN
        /\ alone \in BOOLEAN /\ missed \in BOOLEAN
    BY Zenon DEF Init
  <2>8. QED
    BY <2>1, <2>2, <2>3, <2>4, <2>5, <2>6, <2>7 DEF TypeOK
<1>2. StartInv /\ WatchedIsFresh /\ GotIsFresh
  BY DEF Init, Threads, StartInv, WatchedIsFresh, GotIsFresh
<1>3. PastIsQueued
  BY DEF Init, Threads, PastIsQueued, MissingPast, PastUsername, PastPasswd
<1>4. MissingIsQueued /\ MissingIsPaid
  BY DEF Init, Threads, Nodes, MissingIsQueued, MissingIsPaid
<1>5. QED
  BY <1>1, <1>2, <1>3, <1>4 DEF IInv
-----------------------------------------------------------------------------
(* The threads of the client. *)
LEMMA ReadStep ==
  ASSUME IInv, NEW t \in Threads, Read(t)
  PROVE  IInv'
<1> USE DEF IInv
<1> DEFINE n == Node(t)
<1>1. /\ pc[t] = "read" /\ live /\ n \in nodes
      /\ got' = [got EXCEPT ![t] = version[n]]
      /\ watches' = watches \cup ({n} \cap Watched)
      /\ pc' = [pc EXCEPT ![t] = "assign"]
      /\ UNCHANGED <<nodes, version, setting, absent, todo, changes, alone>>
      /\ UNCHANGED <<events, live, field, at, missed, lapses, failures>>
  BY DEF Read, Goto, serverVars, publisherVars, operatorVars
<1>2. n \in Nodes /\ \A u \in Threads : Node(u)' = Node(u)
  BY <1>1, NodeOf DEF Node
<1>3. TypeOK'
  BY <1>1, <1>2 DEF TypeOK, Watched, Credentials
<1>4. /\ watches \subseteq watches'
      /\ n \in Credentials => n \in watches'
  BY <1>1 DEF Watched, Credentials
<1>5. StartInv'
  BY <1>1 DEF StartInv, TypeOK, Threads
<1>6. \A u \in Threads :
        u # t => pc'[u] = pc[u] /\ pc[u] \notin {"read", "assign"}
  BY <1>1 DEF StartInv, TypeOK, Threads
<1>7. WatchedIsFresh'
  BY <1>1, <1>2, <1>6 DEF WatchedIsFresh, Shown, TypeOK
<1>8. GotIsFresh'
  BY <1>1, <1>2, <1>6 DEF GotIsFresh, TypeOK
<1>9. /\ (Off("username"))' \in {0, 1} /\ (Off("username"))' <= Off("username")
      /\ (Off("passwd"))' \in {0, 1} /\ (Off("passwd"))' <= Off("passwd")
  BY <1>4 DEF Off
<1>10. PastIsQueued'
  <2> SUFFICES ASSUME live', NEW u \in Threads, pc'[u] \in {"read", "assign"}
               PROVE  MissingPast(u)' <= Len(events)'
    BY DEF PastIsQueued
  <2>1. u = t
    BY <1>6
  <2>2. MissingPast(t) <= Len(events)
    BY <1>1 DEF PastIsQueued
  <2>3. MissingPast(t)' <= MissingPast(t)
    <3>1. pc'[t] = "assign" /\ at'[t] = at[t]
      BY <1>1 DEF TypeOK
    <3>2. CASE at[t] = 1
      BY <1>1, <3>1, <3>2 DEF MissingPast, PastUsername, PastPasswd
    <3>3. CASE at[t] = 2
      <4>1. (Off("username"))' = 0
        BY <1>4, <3>3, NodeOf DEF Off, Credentials
      <4>2. QED
        BY <1>1, <3>1, <3>3, <4>1 DEF MissingPast, PastUsername, PastPasswd
    <3>4. CASE at[t] = 3
      <4>1. (Off("passwd"))' = 0
        BY <1>4, <3>4, NodeOf DEF Off, Credentials
      <4>2. QED
        BY <1>1, <1>9, <3>1, <3>4, <4>1
        DEF MissingPast, PastUsername, PastPasswd, Off
    <3>5. QED
      BY <3>2, <3>3, <3>4, NodeOf
  <2>4. QED
    BY <1>1, <2>1, <2>2, <2>3 DEF MissingPast, Off, TypeOK
<1>11. MissingIsQueued'
  BY <1>1 DEF MissingIsQueued, TypeOK, Threads
<1>12. MissingIsPaid'
  <2>1. Missing' <= Missing /\ Missing \in Nat /\ Missing' \in Nat
    BY <1>9 DEF Missing, Off
  <2>2. Handling' = Handling /\ Handling \in Nat
    BY <1>1 DEF Handling, TypeOK, Threads
  <2>3. Len(events) \in Nat /\ lapses \in Nat
    BY DEF TypeOK
  <2>4. QED
    BY <1>1, <2>1, <2>2, <2>3 DEF MissingIsPaid
<1>13. QED
  BY <1>3, <1>5, <1>7, <1>8, <1>10, <1>11, <1>12

LEMMA ReadFailsStep ==
  ASSUME IInv, NEW t \in Threads, ReadFails(t)
  PROVE  IInv'
<1> USE DEF IInv
<1> DEFINE rest == IF t = "main" THEN "show" ELSE "wait"
<1>1. /\ pc[t] = "read"
      /\ pc' = [pc EXCEPT ![t] = rest]
      /\ missed' = TRUE /\ lapses' = lapses + 1
      /\ UNCHANGED <<nodes, version, setting, absent, todo, changes, alone>>
      /\ UNCHANGED <<watches, events, live, field, at, got>>
  BY DEF ReadFails, Return, Goto, Lapse, serverVars, publisherVars, operatorVars
<1>2. failures' \in 0 .. MaxFailures
  BY ConfigAssumption DEF ReadFails, TypeOK
<1>3. TypeOK'
  <2>1. /\ pc' \in [Threads -> {"read", "assign", "show", "wait"}]
        /\ pc'["main"] # "wait" /\ pc'["event"] # "show"
    BY <1>1 DEF TypeOK, Threads
  <2>2. missed' \in BOOLEAN /\ lapses' \in Nat
    BY <1>1 DEF TypeOK
  <2>3. QED
    BY <1>1, <1>2, <2>1, <2>2 DEF TypeOK
<1>4. \A u \in Threads : Node(u)' = Node(u)
  BY <1>1 DEF Node
<1>5. \A u \in Threads :
        pc'[u] \in {"read", "assign"} => u # t /\ pc'[u] = pc[u]
  BY <1>1 DEF TypeOK
<1>6. StartInv'
  BY <1>1 DEF StartInv, TypeOK, Threads
<1>7. WatchedIsFresh' /\ GotIsFresh'
  BY <1>1, <1>4 DEF WatchedIsFresh, GotIsFresh, Shown, TypeOK
<1>8. PastIsQueued'
  BY <1>1, <1>5
  DEF PastIsQueued, MissingPast, PastUsername, PastPasswd, Off, TypeOK
<1>9. MissingIsQueued'
  BY <1>1 DEF MissingIsQueued
<1>10. MissingIsPaid'
  <2> SUFFICES ASSUME live', field'["passwd"] # 0
               PROVE  Missing' <= lapses' + Len(events)' + Handling'
    BY DEF MissingIsPaid
  <2>1. Missing' = Missing /\ Missing \in Nat
    BY <1>1 DEF Missing, Off
  <2>2. Handling <= Handling' + 1 /\ Handling \in Nat /\ Handling' \in Nat
    BY <1>1 DEF Handling
  <2>3. Len(events) \in Nat /\ lapses \in Nat
    BY DEF TypeOK
  <2>4. Missing <= lapses + Len(events) + Handling
    BY <1>1 DEF MissingIsPaid
  <2>5. lapses' = lapses + 1 /\ Len(events)' = Len(events)
    BY <1>1
  <2>6. QED
    BY <2>1, <2>2, <2>3, <2>4, <2>5, Exchange
<1>11. QED
  BY <1>3, <1>6, <1>7, <1>8, <1>9, <1>10

LEMMA AssignStep ==
  ASSUME IInv, NEW t \in Threads, Assign(t)
  PROVE  IInv'
<1> USE DEF IInv
<1> DEFINE n == Node(t)
           rest == IF t = "main" THEN "show" ELSE "wait"
           last == at[t] = 3
<1>1. /\ pc[t] = "assign"
      /\ field' = [field EXCEPT ![n] = got[t]]
      /\ UNCHANGED <<nodes, version, setting, absent, todo, changes, alone>>
      /\ UNCHANGED <<watches, events, live, got, lapses, failures>>
  BY DEF Assign, serverVars, publisherVars, operatorVars
<1>2. \/ /\ ~last /\ at' = [at EXCEPT ![t] = @ + 1]
         /\ pc' = [pc EXCEPT ![t] = "read"] /\ missed' = missed
      \/ /\ last /\ at' = at
         /\ pc' = [pc EXCEPT ![t] = rest] /\ missed' = FALSE
  BY LenConfig, NodeOf DEF Assign, Goto, Return
<1>3. TypeOK'
  <2>1. field' \in [Nodes -> Nat]
    BY <1>1, NodeOf DEF TypeOK
  <2>2. /\ pc' \in [Threads -> {"read", "assign", "show", "wait"}]
        /\ pc'["main"] # "wait" /\ pc'["event"] # "show"
    BY <1>2 DEF TypeOK, Threads
  <2>3. at' \in [Threads -> 1 .. 3]
    <3>1. ~last => at[t] + 1 \in 1 .. 3
      BY NodeOf
    <3>2. at \in [Threads -> 1 .. 3]
      BY DEF TypeOK
    <3>3. QED
      BY <1>2, <3>1, <3>2
  <2>4. missed' \in BOOLEAN
    BY <1>2 DEF TypeOK
  <2>5. QED
    BY <1>1, <2>1, <2>2, <2>3, <2>4 DEF TypeOK
<1>4. /\ pc'[t] # "assign"
      /\ \A u \in Threads :
           u # t => pc'[u] = pc[u] /\ at'[u] = at[u] /\ Node(u)' = Node(u)
  <2>1. pc'[t] # "assign"
    BY <1>2 DEF TypeOK
  <2>2. \A u \in Threads : u # t => pc'[u] = pc[u] /\ at'[u] = at[u]
    BY <1>2 DEF TypeOK
  <2>3. QED
    BY <2>1, <2>2 DEF Node
<1>5. StartInv'
  BY <1>1, <1>2 DEF StartInv, TypeOK, Threads
<1>6. WatchedIsFresh'
  <2> SUFFICES ASSUME NEW m \in watches'
               PROVE  \/ Shown(m)'
                      \/ \E u \in Threads : pc'[u] = "assign" /\ Node(u)' = m
    BY DEF WatchedIsFresh
  <2>1. CASE m = n
    <3>1. got[t] = version[n]
      BY <1>1, <2>1 DEF GotIsFresh
    <3>2. QED
      BY <1>1, <2>1, <3>1, NodeOf DEF Shown, TypeOK
  <2>2. CASE m # n
    <3>1. \/ Shown(m)
          \/ \E u \in Threads : u # t /\ pc[u] = "assign" /\ Node(u) = m
      BY <1>1, <2>2 DEF WatchedIsFresh
    <3>2. Shown(m) => Shown(m)'
      BY <1>1, <2>2 DEF Shown, TypeOK
    <3>3. QED
      BY <1>4, <3>1, <3>2
  <2>3. QED
    BY <2>1, <2>2
<1>7. GotIsFresh'
  BY <1>1, <1>4 DEF GotIsFresh
<1>8. MissingPast(t) <= Len(events) \/ ~live
  BY <1>1 DEF PastIsQueued
<1>9. PastIsQueued'
  <2> SUFFICES ASSUME live', NEW u \in Threads, pc'[u] \in {"read", "assign"}
               PROVE  MissingPast(u)' <= Len(events)'
    BY DEF PastIsQueued
  <2>1. CASE u = t
    <3>1. ~last /\ pc'[t] = "read" /\ at'[t] = at[t] + 1
      BY <1>2, <2>1 DEF TypeOK
    <3>2. MissingPast(t)' = MissingPast(t)
      BY <1>1, <3>1, NodeOf
      DEF MissingPast, PastUsername, PastPasswd, Off, TypeOK
    <3>3. QED
      BY <1>1, <1>8, <2>1, <3>2
  <2>2. CASE u # t
    <3>1. MissingPast(u)' = MissingPast(u)
      BY <1>1, <1>4, <2>2 DEF MissingPast, PastUsername, PastPasswd, Off
    <3>2. QED
      BY <1>1, <1>4, <2>2, <3>1 DEF PastIsQueued
  <2>3. QED
    BY <2>1, <2>2
<1>10. last /\ live => Missing <= Len(events)
  BY <1>1, <1>8 DEF Missing, MissingPast, PastUsername, PastPasswd
<1>11. Missing' = Missing /\ Missing \in Nat
  BY <1>1 DEF Missing, Off
<1>12. MissingIsQueued'
  <2>1. ~last => pc'["main"] # "show" \/ pc'["event"] # "wait"
    BY <1>2 DEF TypeOK, Threads
  <2>2. QED
    BY <1>1, <1>10, <1>11, <2>1 DEF MissingIsQueued
<1>13. MissingIsPaid'
  <2>1. Handling \in Nat /\ Handling' \in Nat
    BY DEF Handling
  <2>2. Len(events) \in Nat /\ lapses \in Nat
    BY DEF TypeOK
  <2>3. CASE last
    BY <1>1, <1>10, <1>11, <2>1, <2>2, <2>3 DEF MissingIsPaid
  <2>4. CASE ~last
    <3>1. field'["passwd"] = field["passwd"]
      BY <1>1, <2>4, NodeOf DEF TypeOK, Nodes
    <3>2. Handling' = Handling
      BY <1>1, <1>2, <2>4 DEF Handling, TypeOK, Threads
    <3>3. QED
      BY <1>1, <1>11, <3>1, <3>2 DEF MissingIsPaid
  <2>5. QED
    BY <2>3, <2>4
<1>14. QED
  BY <1>3, <1>5, <1>6, <1>7, <1>9, <1>12, <1>13

(* The event queue. *)
LEMMA HeadAndTail ==
  ASSUME TypeOK, events # <<>>
  PROVE  /\ Head(events) \in {"NodeDataChanged", "NodeDeleted"}
         /\ Tail(events) \in Seq({"NodeDataChanged", "NodeDeleted"})
         /\ Len(events) \in Nat
         /\ Len(Tail(events)) + 1 = Len(events)
<1>1. events \in Seq({"NodeDataChanged", "NodeDeleted"})
  BY DEF TypeOK
<1>2. Len(events) \in Nat \ {0}
  BY <1>1
<1>3. QED
  BY <1>1, <1>2

LEMMA ProcessStep ==
  ASSUME IInv, Process
  PROVE  IInv'
<1> USE DEF IInv
<1> DEFINE e == Head(events)
<1>1. /\ pc["event"] = "wait" /\ events # <<>> /\ events' = Tail(events)
      /\ UNCHANGED <<nodes, version, setting, absent, todo, changes, alone>>
      /\ UNCHANGED <<watches, live, field, got, failures>>
  BY DEF Process, serverVars, publisherVars, operatorVars
<1>2. pc["main"] = "show"
  BY <1>1 DEF StartInv
<1>3. \/ /\ pc' = [pc EXCEPT !["event"] = "read"]
         /\ at' = [at EXCEPT !["event"] = 1]
         /\ missed' = missed /\ lapses' = lapses
      \/ /\ pc' = pc /\ at' = at
         /\ missed' = TRUE /\ lapses' = lapses + 1
  BY <1>1, HeadAndTail DEF Process, Rereads, Goto, Lapse
<1>4. TypeOK'
  <2>1. /\ pc' \in [Threads -> {"read", "assign", "show", "wait"}]
        /\ pc'["main"] # "wait" /\ pc'["event"] # "show"
    BY <1>3 DEF TypeOK, Threads
  <2>2. at' \in [Threads -> 1 .. 3]
    <3>1. at \in [Threads -> 1 .. 3] /\ 1 \in 1 .. 3
      BY DEF TypeOK
    <3>2. QED
      BY <1>3, <3>1
  <2>3. missed' \in BOOLEAN /\ lapses' \in Nat
    <3>1. missed \in BOOLEAN /\ lapses \in Nat
      BY DEF TypeOK
    <3>2. missed' \in BOOLEAN
      BY <1>3, <3>1
    <3>3. lapses' \in Nat
      BY <1>3, <3>1
    <3>4. QED
      BY <3>2, <3>3
  <2>4. QED
    BY <1>1, <2>1, <2>2, <2>3, HeadAndTail DEF TypeOK
<1>5. \A t \in Threads : pc[t] # "assign" /\ pc'[t] # "assign"
  BY <1>1, <1>2, <1>3 DEF TypeOK, Threads
<1>6. pc'["main"] = "show"
  BY <1>2, <1>3 DEF TypeOK, Threads
<1>7. StartInv'
  BY <1>6 DEF StartInv
<1>8. WatchedIsFresh' /\ GotIsFresh'
  BY <1>1, <1>5 DEF WatchedIsFresh, GotIsFresh, Shown
<1>9. PastIsQueued'
  <2> SUFFICES ASSUME live', NEW t \in Threads, pc'[t] \in {"read", "assign"}
               PROVE  MissingPast(t)' <= Len(events)'
    BY DEF PastIsQueued
  <2>1. t = "event" /\ pc'[t] = "read" /\ at'[t] = 1
    BY <1>1, <1>2, <1>3 DEF TypeOK, Threads
  <2>2. MissingPast(t)' = 0
    BY <2>1 DEF MissingPast, PastUsername, PastPasswd
  <2>3. QED
    BY <1>1, <2>2, HeadAndTail
<1>10. MissingIsQueued'
  BY <1>3 DEF MissingIsQueued, TypeOK, Threads
<1>11. MissingIsPaid'
  <2> SUFFICES ASSUME live', field'["passwd"] # 0
               PROVE  Missing' <= lapses' + Len(events)' + Handling'
    BY DEF MissingIsPaid
  <2>1. Missing <= lapses + Len(events) + Handling
    BY <1>1 DEF MissingIsPaid
  <2>2. Missing' = Missing /\ Missing \in Nat /\ lapses \in Nat
    BY <1>1 DEF Missing, Off, TypeOK
  <2>3. Handling = 0 /\ Len(events)' + 1 = Len(events) /\ Len(events) \in Nat
    BY <1>1, HeadAndTail DEF Handling
  <2>4. lapses' + Handling' = lapses + 1 /\ Handling' \in Nat
    BY <1>1, <1>3 DEF Handling, TypeOK, Threads
  <2>5. Len(events)' \in Nat /\ lapses' \in Nat
    BY <1>1, <1>4, HeadAndTail DEF TypeOK
  <2>6. QED
    BY <2>1, <2>2, <2>3, <2>4, <2>5, Handover
<1>12. QED
  BY <1>4, <1>7, <1>8, <1>9, <1>10, <1>11

LEMMA SessionEndsStep ==
  ASSUME IInv, SessionEnds
  PROVE  IInv'
<1> USE DEF IInv
<1>1. /\ live' = FALSE /\ watches' = {}
      /\ UNCHANGED <<nodes, version, setting, absent, todo, changes, alone>>
      /\ UNCHANGED <<events, field, pc, at, got, missed, lapses, failures>>
  BY DEF SessionEnds, serverVars, publisherVars, operatorVars
<1>2. TypeOK'
  BY <1>1 DEF TypeOK
<1>3. StartInv' /\ WatchedIsFresh' /\ GotIsFresh'
  BY <1>1 DEF StartInv, WatchedIsFresh, GotIsFresh
<1>4. PastIsQueued' /\ MissingIsQueued' /\ MissingIsPaid'
  BY <1>1 DEF PastIsQueued, MissingIsQueued, MissingIsPaid
<1>5. QED
  BY <1>2, <1>3, <1>4
-----------------------------------------------------------------------------
(* The publisher and the operator. *)
LEMMA ClientUnchanged ==
  ASSUME IInv, UNCHANGED clientVars,
         \A n \in watches : version'[n] = version[n]
  PROVE  /\ WatchedIsFresh' /\ GotIsFresh'
         /\ PastIsQueued' /\ MissingIsQueued' /\ MissingIsPaid'
<1> USE DEF IInv
<1>1. UNCHANGED <<watches, events, live, field, pc, at, got, missed, lapses>>
  BY DEF clientVars
<1>2. \A t \in Threads : Node(t)' = Node(t)
  BY <1>1 DEF Node
<1>3. WatchedIsFresh' /\ GotIsFresh'
  BY <1>1, <1>2 DEF WatchedIsFresh, GotIsFresh, Shown
<1>4. PastIsQueued'
  BY <1>1 DEF PastIsQueued, MissingPast, PastUsername, PastPasswd, Off
<1>5. MissingIsQueued' /\ MissingIsPaid'
  BY <1>1 DEF MissingIsQueued, MissingIsPaid, Missing, Off, Handling
<1>6. QED
  BY <1>3, <1>4, <1>5

LEMMA NextNodeType ==
  ASSUME TypeOK, setting # 0
  PROVE  NextNode \in 0 .. 3 /\ Config[setting] \in Nodes
<1>1. setting \in 1 .. 3
  BY DEF TypeOK
<1>2. NextNode \in 0 .. 3
  BY <1>1, LenConfig DEF NextNode
<1>3. Config[setting] \in Nodes
  BY <1>1 DEF Config, Nodes
<1>4. QED
  BY <1>2, <1>3

LEMMA SetConfigStep ==
  ASSUME IInv, SetConfig
  PROVE  IInv'
<1> USE DEF IInv
<1>1. UNCHANGED clientVars /\ UNCHANGED <<todo, changes, alone, failures>>
  BY DEF SetConfig, StartSetConfig, Exists, Create, SetConfigFails, operatorVars
<1>2. UNCHANGED <<watches, events, live, field, pc, at, got, missed, lapses>>
  BY <1>1 DEF clientVars
<1>3. StartInv'
  BY <1>1, <1>2 DEF StartInv
<1>4. setting' \in 0 .. 3 /\ absent' \in BOOLEAN
  <2>1. setting' \in {0, 1, setting} \/ (setting # 0 /\ setting' = NextNode)
    BY DEF SetConfig, StartSetConfig, Exists, Create, SetConfigFails
  <2>2. setting \in 0 .. 3 /\ absent \in BOOLEAN
    BY DEF TypeOK
  <2>3. setting' \in 0 .. 3
    BY <2>1, <2>2, NextNodeType
  <2>4. absent' \in {TRUE, FALSE, absent}
    BY Zenon DEF SetConfig, StartSetConfig, Exists, Create, SetConfigFails
  <2>5. QED
    BY <2>2, <2>3, <2>4
<1>5. /\ nodes \subseteq nodes' /\ nodes' \subseteq Nodes
      /\ version' \in [Nodes -> Nat]
      /\ \A n \in watches : version'[n] = version[n]
  <2>1. CASE Create
    <3> DEFINE n == Config[setting]
    <3>1. n \in Nodes
      BY <2>1, NextNodeType DEF Create
    <3>2. version[n] + 1 \in Nat
      BY <3>1 DEF TypeOK
    <3>3. n \notin watches
      BY <2>1 DEF Create, TypeOK
    <3>4. QED
      BY <2>1, <3>1, <3>2, <3>3 DEF Create, TypeOK
  <2>2. CASE ~Create
    <3>1. UNCHANGED <<nodes, version>>
      BY <2>2 DEF SetConfig, StartSetConfig, Exists, SetConfigFails, serverVars
    <3>2. QED
      BY <3>1 DEF TypeOK
  <2>3. QED
    BY <2>1, <2>2
<1>6. TypeOK'
  BY <1>1, <1>2, <1>4, <1>5 DEF TypeOK
<1>7. QED
  BY <1>1, <1>3, <1>5, <1>6, ClientUnchanged

LEMMA PlanStep ==
  ASSUME IInv, QuietStart, Plan
  PROVE  IInv'
<1> USE DEF IInv
<1>1. /\ pc["main"] = "show" /\ changes < MaxChanges
      /\ changes' = changes + 1
      /\ \/ todo' \in Single /\ alone' = TRUE
         \/ todo' \in Whole /\ alone' = alone
      /\ UNCHANGED <<nodes, version, setting, absent, failures>>
      /\ UNCHANGED clientVars
  BY DEF Plan, serverVars, publisherVars
<1>2. UNCHANGED <<watches, events, live, field, pc, at, got, missed, lapses>>
  BY <1>1 DEF clientVars
<1>3. todo' \in Seq(Request)
  <2>1. CASE todo' \in Whole
    <3>1. PICK kind \in Kinds :
            todo' = [i \in 1 .. 3 |-> [kind |-> kind, node |-> Config[i]]]
      BY <2>1, LenConfig DEF Whole
    <3>2. \A i \in 1 .. 3 : Config[i] \in Nodes
      BY DEF Config, Nodes
    <3>3. \A i \in 1 .. 3 : [kind |-> kind, node |-> Config[i]] \in Request
      BY <3>2 DEF Request
    <3>4. QED
      BY <3>1, <3>3
  <2>2. CASE todo' \in Single
    <3>1. PICK r \in Request : todo' = <<r>>
      BY <2>2 DEF Single
    <3>2. QED
      BY <3>1
  <2>3. QED
    BY <1>1, <2>1, <2>2
<1>4. changes' \in 0 .. MaxChanges
  BY <1>1, ConfigAssumption DEF TypeOK
<1>5. TypeOK'
  <2>1. alone \in BOOLEAN
    BY DEF TypeOK
  <2>2. alone' \in BOOLEAN
    BY <1>1, <2>1, Zenon
  <2>3. QED
    BY <1>1, <1>2, <1>3, <1>4, <2>2 DEF TypeOK
<1>6. StartInv'
  BY <1>1, <1>2 DEF StartInv
<1>7. QED
  BY <1>1, <1>5, <1>6, ClientUnchanged

LEMMA RequestType ==
  ASSUME TypeOK, todo # <<>>
  PROVE  /\ Head(todo).node \in Nodes
         /\ Tail(todo) \in Seq(Request)
<1>1. todo \in Seq(Request)
  BY DEF TypeOK
<1>2. Head(todo) \in Request /\ Tail(todo) \in Seq(Request)
  BY <1>1
<1>3. QED
  BY <1>2 DEF Request

LEMMA ChangeStep ==
  ASSUME IInv, Change
  PROVE  IInv'
<1> USE DEF IInv
<1> DEFINE n == Head(todo).node
           paid == IF n \in watches THEN 1 ELSE 0
<1>1. /\ todo # <<>> /\ n \in Nodes
      /\ UNCHANGED <<setting, absent, changes, live, field>>
      /\ UNCHANGED <<pc, at, got, missed, lapses, failures>>
  BY RequestType DEF Change, publisherVars
<1>2. pc["main"] = "show"
  BY <1>1 DEF StartInv
<1>3. todo' \in Seq(Request)
  <2>1. todo' = Tail(todo) \/ todo' = <<>>
    BY DEF Change
  <2>2. <<>> \in Seq(Request)
    OBVIOUS
  <2>3. QED
    BY <1>1, <2>1, <2>2, RequestType
<1>4. /\ nodes' \subseteq Nodes /\ version' \in [Nodes -> Nat]
      /\ \A m \in Nodes : m # n => version'[m] = version[m]
      /\ n \notin nodes => UNCHANGED <<nodes, version, watches, events>>
      /\ nodes \ {n} \subseteq nodes'
  <2>1. version[n] + 1 \in Nat
    BY <1>1 DEF TypeOK
  <2>2. QED
    BY <1>1, <2>1 DEF Change, TypeOK, serverVars
<1>5. /\ watches' = watches \ {n}
      /\ \/ n \in watches /\ \E e \in {"NodeDataChanged", "NodeDeleted"} :
                                events' = Append(events, e)
         \/ n \notin watches /\ events' = events
  <2>1. CASE n \in nodes
    BY <2>1 DEF Change, Trigger
  <2>2. CASE n \notin nodes
    BY <1>4, <2>2 DEF TypeOK
  <2>3. QED
    BY <2>1, <2>2
<1>6. /\ events' \in Seq({"NodeDataChanged", "NodeDeleted"})
      /\ Len(events) \in Nat /\ Len(events)' = Len(events) + paid
  <2>1. events \in Seq({"NodeDataChanged", "NodeDeleted"})
    BY DEF TypeOK
  <2>2. QED
    BY <1>5, <2>1
<1>7. TypeOK'
  <2>1. watches' \subseteq Credentials \cap nodes'
    BY <1>4, <1>5 DEF TypeOK
  <2>2. alone' \in BOOLEAN
    <3>1. alone \in BOOLEAN
      BY DEF TypeOK
    <3>2. alone' = alone \/ alone' = (alone \/ Len(todo) < Len(Config))
      BY DEF Change
    <3>3. QED
      BY <3>1, <3>2, Zenon
  <2>3. QED
    BY <1>1, <1>3, <1>4, <1>6, <2>1, <2>2 DEF TypeOK
<1>8. StartInv'
  BY <1>1, <1>2 DEF StartInv
<1>9. \A t \in Threads : Node(t)' = Node(t)
  BY <1>1 DEF Node
<1>10. \A m \in watches' : m \in watches /\ version'[m] = version[m]
  BY <1>4, <1>5 DEF TypeOK, Credentials, Nodes
<1>11. WatchedIsFresh' /\ GotIsFresh'
  BY <1>1, <1>9, <1>10 DEF WatchedIsFresh, GotIsFresh, Shown
<1>12. /\ Off("username") \in {0, 1} /\ Off("passwd") \in {0, 1}
       /\ paid \in {0, 1}
       /\ (Off("username"))' = IF n = "username" THEN 1 ELSE Off("username")
       /\ (Off("passwd"))' = IF n = "passwd" THEN 1 ELSE Off("passwd")
       /\ n = "username" => Off("username") + paid = 1
       /\ n = "passwd" => Off("passwd") + paid = 1
  BY <1>5 DEF Off
<1>13. /\ Missing' <= Missing + paid
       /\ Missing \in Nat /\ Missing' \in Nat /\ paid \in Nat
  BY <1>12 DEF Missing
<1>14. PastIsQueued'
  <2> SUFFICES ASSUME live', NEW t \in Threads, pc'[t] \in {"read", "assign"}
               PROVE  MissingPast(t)' <= Len(events)'
    BY DEF PastIsQueued
  <2>1. MissingPast(t) <= Len(events)
    BY <1>1 DEF PastIsQueued
  <2>2. /\ MissingPast(t)' <= MissingPast(t) + paid
        /\ MissingPast(t) \in Nat /\ MissingPast(t)' \in Nat
    <3>1. /\ PastUsername(t)' <=> PastUsername(t)
          /\ PastPasswd(t)' <=> PastPasswd(t)
      BY <1>1 DEF PastUsername, PastPasswd
    <3>2. CASE PastUsername(t) /\ PastPasswd(t)
      BY <1>12, <3>1, <3>2 DEF MissingPast
    <3>3. CASE PastUsername(t) /\ ~PastPasswd(t)
      BY <1>12, <3>1, <3>3 DEF MissingPast
    <3>4. CASE ~PastUsername(t) /\ ~PastPasswd(t)
      BY <1>12, <3>1, <3>4 DEF MissingPast
    <3>5. QED
      BY <3>2, <3>3, <3>4 DEF PastUsername, PastPasswd
  <2>3. QED
    BY <1>6, <1>13, <2>1, <2>2
<1>15. MissingIsQueued'
  <2> SUFFICES ASSUME live', ~missed', pc'["event"] = "wait"
               PROVE  Missing' <= Len(events)'
    BY DEF MissingIsQueued
  <2>1. Missing <= Len(events)
    BY <1>1, <1>2 DEF MissingIsQueued
  <2>2. QED
    BY <1>6, <1>13, <2>1
<1>16. MissingIsPaid'
  <2> SUFFICES ASSUME live', field'["passwd"] # 0
               PROVE  Missing' <= lapses' + Len(events)' + Handling'
    BY DEF MissingIsPaid
  <2>1. Missing <= lapses + Len(events) + Handling
    BY <1>1 DEF MissingIsPaid
  <2>2. Handling' = Handling /\ Handling \in Nat
    BY <1>1 DEF Handling
  <2>3. lapses' = lapses /\ lapses \in Nat
    BY <1>1 DEF TypeOK
  <2>4. QED
    BY <1>6, <1>13, <2>1, <2>2, <2>3, EventPays
<1>17. QED
  BY <1>7, <1>8, <1>11, <1>14, <1>15, <1>16

LEMMA NextIInv ==
  ASSUME QuietStart
  PROVE  IInv /\ [Next]_vars => IInv'
<1> SUFFICES ASSUME IInv, [Next]_vars PROVE IInv'
  OBVIOUS
<1>1. ASSUME NEW t \in Threads, InitValue(t) PROVE IInv'
  BY <1>1, ReadStep, ReadFailsStep, AssignStep DEF InitValue
<1>2. CASE Process
  BY <1>2, ProcessStep
<1>3. CASE SessionEnds
  BY <1>3, SessionEndsStep
<1>4. CASE SetConfig
  BY <1>4, SetConfigStep
<1>5. CASE Plan
  BY <1>5, PlanStep
<1>6. CASE Change
  BY <1>6, ChangeStep
<1>7. CASE UNCHANGED vars
  <2>1. /\ UNCHANGED <<nodes, version, setting, absent, todo, changes, alone>>
        /\ UNCHANGED failures /\ UNCHANGED clientVars
    BY <1>7 DEF vars, serverVars, publisherVars, operatorVars
  <2>2. UNCHANGED <<watches, events, live, field, pc, at, got, missed, lapses>>
    BY <2>1 DEF clientVars
  <2>3. TypeOK'
    BY <2>1, <2>2 DEF IInv, TypeOK
  <2>4. StartInv'
    BY <2>1, <2>2 DEF IInv, StartInv
  <2>5. QED
    BY <2>1, <2>3, <2>4, ClientUnchanged DEF IInv
<1>8. QED
  BY <1>1, <1>2, <1>3, <1>4, <1>5, <1>6, <1>7 DEF Next

LEMMA Invariance ==
  ASSUME QuietStart
  PROVE  Spec => []IInv
  BY InitIInv, NextIInv, PTL DEF Spec
-----------------------------------------------------------------------------
LEMMA MissingCounts ==
  /\ IsFiniteSet(Credentials \ watches)
  /\ Cardinality(Credentials \ watches) = Missing
<1>1. CASE Credentials \ watches = {}
  BY <1>1, FS_EmptySet DEF Credentials, Missing, Off
<1>2. CASE Credentials \ watches = {"username"}
  <2>1. "username" \notin watches /\ "passwd" \in watches
    BY <1>2 DEF Credentials
  <2>2. Missing = 1
    BY <2>1 DEF Missing, Off
  <2>3. QED
    BY <1>2, <2>2, FS_Singleton
<1>3. CASE Credentials \ watches = {"passwd"}
  <2>1. "username" \in watches /\ "passwd" \notin watches
    BY <1>3 DEF Credentials
  <2>2. Missing = 1
    BY <2>1 DEF Missing, Off
  <2>3. QED
    BY <1>3, <2>2, FS_Singleton
<1>4. CASE Credentials \ watches = Credentials
  <2>1. IsFiniteSet({"username"}) /\ Cardinality({"username"}) = 1
    BY FS_Singleton
  <2>2. Credentials = {"username"} \cup {"passwd"}
    BY DEF Credentials
  <2>3. IsFiniteSet(Credentials) /\ Cardinality(Credentials) = 2
    BY <2>1, <2>2, FS_AddElement
  <2>4. Missing = 2
    BY <1>4 DEF Credentials, Missing, Off
  <2>5. QED
    BY <1>4, <2>3, <2>4
<1>5. \/ Credentials \ watches = {} \/ Credentials \ watches = {"username"}
      \/ Credentials \ watches = {"passwd"}
      \/ Credentials \ watches = Credentials
  <2>1. CASE "username" \in watches
    BY <2>1 DEF Credentials
  <2>2. CASE "username" \notin watches
    BY <2>2 DEF Credentials
  <2>3. QED
    BY <2>1, <2>2
<1>6. QED
  BY <1>1, <1>2, <1>3, <1>4, <1>5

(* Type correctness: only existing credentials are watched. *)
THEOREM ConfigTypes ==
  ASSUME QuietStart
  PROVE  Spec => []TypeOK
<1>1. IInv => TypeOK
  BY DEF IInv
<1>2. QED
  BY <1>1, Invariance, PTL

LEMMA SettledCredentials == IInv => FollowsCredentials
<1> SUFFICES ASSUME IInv, Settled, ~missed, NEW n \in Credentials
             PROVE  Shown(n)
  BY DEF FollowsCredentials
<1>1. Missing <= 0
  BY DEF IInv, MissingIsQueued, Settled
<1>2. n \in watches
  BY <1>1 DEF Missing, Off, Credentials
<1>3. \A t \in Threads : pc[t] # "assign"
  BY DEF Settled, Threads
<1>4. QED
  BY <1>2, <1>3 DEF IInv, WatchedIsFresh

(* After a quiet start a settled client that missed nothing shows the      *)
(* current user name and password, whatever is changed, created or removed *)
(* and however often connections are lost.                                 *)
THEOREM CredentialsAreFollowed ==
  ASSUME QuietStart
  PROVE  Spec => []FollowsCredentials
  BY SettledCredentials, Invariance, PTL

(* Every failed reading and every deletion costs a client that once read   *)
(* everything at most one watch: one lost connection never makes it deaf.  *)
THEOREM LapsesCostOneWatch ==
  ASSUME QuietStart
  PROVE  Spec => []LapseCostsOneWatch
<1>1. IInv => LapseCostsOneWatch
  <2> SUFFICES ASSUME IInv, Settled, field["passwd"] # 0
               PROVE  Missing <= lapses
    BY MissingCounts DEF LapseCostsOneWatch
  <2>1. Handling = 0 /\ Len(events) = 0
    BY DEF Settled, Handling
  <2>2. lapses \in Nat
    BY DEF IInv, TypeOK
  <2>3. QED
    BY <2>1, <2>2 DEF IInv, MissingIsPaid, Settled
<1>2. QED
  BY <1>1, Invariance, PTL
-----------------------------------------------------------------------------
(* The url.  A node that exists has been written.                          *)
VersionInv ==
  /\ \A n \in nodes : version[n] # 0
  /\ \A t \in Threads : pc[t] = "assign" => got[t] # 0
  /\ pc["main"] = "show" /\ lapses = 0 => field["passwd"] # 0

(* What is left of a whole plan are the nodes at the end of Config.        *)
TodoInv ==
  ~alone =>
    /\ Len(todo) <= 3
    /\ \A i \in 1 .. Len(todo) : todo[i].node = Config[i + 3 - Len(todo)]

(* The call of initValue that a thread is in will leave the current url.   *)
ReadsUrl(t) ==
  \/ pc[t] = "read" /\ at[t] = 1
  \/ /\ pc[t] = "assign" /\ at[t] = 1
     /\ "url" \in nodes /\ got[t] = version["url"]
  \/ /\ pc[t] \in {"read", "assign"} /\ at[t] > 1
     /\ "url" \in nodes /\ Shown("url")

UrlFresh ==
  \/ ReadsUrl("event")
  \/ pc["event"] = "wait" /\ "url" \in nodes /\ Shown("url")

(* An event is queued, or the rest of the plan will queue one.             *)
WillTell ==
  \/ events # <<>>
  \/ Len(todo) = 2 /\ watches # {}
  \/ Len(todo) = 1 /\ "passwd" \in watches

UrlInv ==
  live /\ ~alone /\ lapses = 0 =>
    IF pc["main"] = "show" THEN UrlFresh \/ WillTell ELSE ReadsUrl("main")

FollowInv == IInv /\ VersionInv /\ TodoInv /\ UrlInv

LEMMA InitFollow == Init => FollowInv
<1> SUFFICES ASSUME Init PROVE FollowInv
  OBVIOUS
<1>1. VersionInv
  <2>1. \A n \in nodes : version[n] # 0
    BY DEF Init
  <2>2. \A t \in Threads : pc[t] # "assign" /\ pc["main"] # "show"
    BY DEF Init, Threads
  <2>3. QED
    BY <2>1, <2>2 DEF VersionInv, Threads
<1>2. TodoInv
  BY DEF Init, TodoInv
<1>3. UrlInv
  BY DEF Init, UrlInv, ReadsUrl, Threads
<1>4. QED
  BY <1>1, <1>2, <1>3, InitIInv DEF FollowInv

LEMMA ReadFollows ==
  ASSUME FollowInv, NEW t \in Threads, Read(t)
  PROVE  VersionInv' /\ TodoInv' /\ UrlInv'
<1> USE DEF FollowInv
<1> DEFINE n == Node(t)
<1>1. /\ pc[t] = "read" /\ n \in nodes
      /\ got' = [got EXCEPT ![t] = version[n]]
      /\ watches' = watches \cup ({n} \cap Watched)
      /\ pc' = [pc EXCEPT ![t] = "assign"]
      /\ UNCHANGED <<nodes, version, todo, alone, events, live, field, at, lapses>>
  BY DEF Read, Goto, serverVars, publisherVars, operatorVars
<1>2. /\ pc'[t] = "assign" /\ got'[t] = version[n]
      /\ \A u \in Threads : u # t => pc'[u] = pc[u] /\ got'[u] = got[u]
      /\ pc'["main"] = "show" <=> pc["main"] = "show"
  BY <1>1 DEF IInv, TypeOK, Threads
<1>3. VersionInv'
  BY <1>1, <1>2 DEF VersionInv
<1>4. TodoInv'
  BY <1>1 DEF TodoInv
<1>5. ReadsUrl(t) => ReadsUrl(t)'
  BY <1>1, <1>2, NodeOf DEF IInv, ReadsUrl, Shown
<1>6. \A u \in Threads : u # t => (ReadsUrl(u) <=> ReadsUrl(u)')
  BY <1>1, <1>2 DEF ReadsUrl, Shown
<1>7. UrlFresh => UrlFresh'
  BY <1>1, <1>2, <1>5, <1>6 DEF UrlFresh, Shown, Threads
<1>8. WillTell => WillTell'
  BY <1>1 DEF WillTell
<1>9. UrlInv'
  BY <1>1, <1>2, <1>5, <1>6, <1>7, <1>8 DEF UrlInv, Threads
<1>10. QED
  BY <1>3, <1>4, <1>9

LEMMA ReadFailsFollows ==
  ASSUME FollowInv, NEW t \in Threads, ReadFails(t)
  PROVE  VersionInv' /\ TodoInv' /\ UrlInv'
<1>1. /\ lapses' = lapses + 1 /\ lapses \in Nat
      /\ pc'[t] # "assign" /\ \A u \in Threads : u # t => pc'[u] = pc[u]
      /\ UNCHANGED <<nodes, version, todo, alone, got>>
  BY DEF FollowInv, IInv, TypeOK, ReadFails, Return, Goto, Lapse, serverVars,
     operatorVars, Threads
<1>2. lapses' # 0
  BY <1>1
<1>3. QED
  BY <1>1, <1>2 DEF FollowInv, VersionInv, TodoInv, UrlInv

LEMMA AssignFollows ==
  ASSUME FollowInv, NEW t \in Threads, Assign(t)
  PROVE  VersionInv' /\ TodoInv' /\ UrlInv'
<1> USE DEF FollowInv
<1> DEFINE n == Node(t)
           rest == IF t = "main" THEN "show" ELSE "wait"
           last == at[t] = 3
<1>1. /\ pc[t] = "assign"
      /\ field' = [field EXCEPT ![n] = got[t]]
      /\ UNCHANGED <<nodes, version, todo, alone, watches, events, live, got, lapses>>
  BY DEF Assign, serverVars, publisherVars, operatorVars
<1>2. \/ ~last /\ at' = [at EXCEPT ![t] = @ + 1] /\ pc' = [pc EXCEPT ![t] = "read"]
      \/ last /\ at' = at /\ pc' = [pc EXCEPT ![t] = rest]
  BY LenConfig, NodeOf DEF Assign, Goto, Return, IInv
<1>3. /\ \/ ~last /\ at'[t] = at[t] + 1 /\ pc'[t] = "read"
         \/ last /\ at'[t] = at[t] /\ pc'[t] = rest
      /\ \A u \in Threads : u # t => at'[u] = at[u] /\ pc'[u] = pc[u]
  BY <1>2 DEF IInv, TypeOK
<1>4. /\ at[t] \in 1 .. 3 /\ n \in Nodes
      /\ (n = "url") <=> (at[t] = 1)
      /\ last => n = "passwd"
  BY NodeOf DEF IInv
<1>5. /\ field'[n] = got[t] /\ got[t] # 0
      /\ \A m \in Nodes : m # n => field'[m] = field[m]
  BY <1>1, <1>4 DEF IInv, TypeOK, VersionInv
<1>6. VersionInv'
  <2>1. \A u \in Threads : pc'[u] = "assign" => pc[u] = "assign"
    BY <1>3
  <2>2. ASSUME pc'["main"] = "show", lapses = 0
        PROVE  field'["passwd"] # 0
    <3>1. CASE last
      BY <1>4, <1>5, <3>1
    <3>2. CASE ~last
      <4>1. t # "main" /\ pc["main"] = "show"
        BY <1>3, <2>2, <3>2 DEF Threads
      <4>2. field["passwd"] # 0
        BY <2>2, <4>1 DEF VersionInv
      <4>3. QED
        BY <1>4, <1>5, <4>2 DEF Nodes
    <3>3. QED
      BY <3>1, <3>2
  <2>3. QED
    BY <1>1, <2>1, <2>2 DEF VersionInv
<1>7. TodoInv'
  BY <1>1 DEF TodoInv
<1>8. WillTell' <=> WillTell
  BY <1>1 DEF WillTell
<1>9. /\ ReadsUrl(t) => "url" \in nodes /\ Shown("url")'
      /\ ReadsUrl(t) /\ ~last => ReadsUrl(t)'
  <2>1. CASE at[t] = 1
    BY <1>1, <1>3, <1>4, <1>5, <2>1 DEF ReadsUrl, Shown
  <2>2. CASE at[t] > 1
    <3>1. field'["url"] = field["url"]
      BY <1>4, <1>5, <2>2 DEF Nodes
    <3>2. QED
      BY <1>1, <1>3, <1>4, <2>2, <3>1 DEF ReadsUrl, Shown
  <2>3. QED
    BY <1>4, <2>1, <2>2
<1>10. UrlInv'
  <2> SUFFICES ASSUME live', ~alone', lapses' = 0
               PROVE  IF pc'["main"] = "show" THEN UrlFresh' \/ WillTell'
                                              ELSE ReadsUrl("main")'
    BY DEF UrlInv
  <2>1. CASE t = "main"
    <3>1. pc["main"] # "show" /\ ReadsUrl("main") /\ pc["event"] = "wait"
      BY <1>1, <2>1 DEF UrlInv, IInv, StartInv
    <3>2. pc'["event"] = "wait"
      BY <1>3, <2>1, <3>1 DEF Threads
    <3>3. QED
      BY <1>1, <1>3, <1>9, <2>1, <3>1, <3>2 DEF UrlFresh
  <2>2. CASE t = "event"
    <3>1. pc["main"] = "show" /\ pc'["main"] = "show"
      BY <1>1, <1>3, <2>2 DEF IInv, StartInv, Threads
    <3>2. UrlFresh \/ WillTell
      BY <1>1, <3>1 DEF UrlInv
    <3>3. UrlFresh => UrlFresh'
      BY <1>1, <1>3, <1>9, <2>2 DEF UrlFresh
    <3>4. QED
      BY <1>8, <3>1, <3>2, <3>3
  <2>3. QED
    BY <2>1, <2>2 DEF Threads
<1>11. QED
  BY <1>6, <1>7, <1>10

LEMMA ProcessFollows ==
  ASSUME FollowInv, Process
  PROVE  VersionInv' /\ TodoInv' /\ UrlInv'
<1> USE DEF FollowInv
<1>1. /\ pc["event"] = "wait" /\ events # <<>>
      /\ UNCHANGED <<nodes, version, todo, alone, watches, live, field, got>>
  BY DEF Process, serverVars, operatorVars
<1>2. pc["main"] = "show"
  BY <1>1 DEF IInv, StartInv
<1>3. CASE Head(events) = "NodeDeleted"
  <2>1. pc' = pc /\ lapses' = lapses + 1 /\ lapses \in Nat
    BY <1>3 DEF Process, Rereads, Lapse, IInv, TypeOK
  <2>2. lapses' # 0
    BY <2>1
  <2>3. QED
    BY <1>1, <2>1, <2>2 DEF VersionInv, TodoInv, UrlInv
<1>4. CASE Head(events) = "NodeDataChanged"
  <2>1. /\ pc' = [pc EXCEPT !["event"] = "read"]
        /\ at' = [at EXCEPT !["event"] = 1]
        /\ lapses' = lapses
    BY <1>4 DEF Process, Rereads, Goto
  <2>2. /\ pc'["event"] = "read" /\ at'["event"] = 1
        /\ pc'["main"] = "show"
    BY <1>2, <2>1 DEF IInv, TypeOK, Threads
  <2>3. VersionInv'
    BY <1>1, <1>2, <2>1, <2>2 DEF VersionInv, Threads
  <2>4. TodoInv'
    BY <1>1 DEF TodoInv
  <2>5. UrlInv'
    BY <2>2 DEF UrlInv, UrlFresh, ReadsUrl
  <2>6. QED
    BY <2>3, <2>4, <2>5
<1>5. QED
  BY <1>1, <1>3, <1>4, HeadAndTail DEF IInv

LEMMA SessionEndsFollows ==
  ASSUME FollowInv, SessionEnds
  PROVE  VersionInv' /\ TodoInv' /\ UrlInv'
  BY DEF FollowInv, SessionEnds, VersionInv, TodoInv, UrlInv, serverVars,
     operatorVars

(* A url that exists is not created, so its version stays.                 *)
LEMMA SetConfigFollows ==
  ASSUME FollowInv, SetConfig
  PROVE  VersionInv' /\ TodoInv' /\ UrlInv'
<1> USE DEF FollowInv
<1>1. /\ UNCHANGED <<watches, events, live, field, pc, at, got, lapses>>
      /\ UNCHANGED <<todo, alone>>
  BY DEF SetConfig, StartSetConfig, Exists, Create, SetConfigFails,
     clientVars, operatorVars
<1>2. /\ nodes \subseteq nodes'
      /\ \A n \in nodes' : version'[n] # 0
      /\ \A n \in nodes : version'[n] = version[n]
  <2>1. CASE Create
    <3> DEFINE n == Config[setting]
    <3>1. n \in Nodes /\ n \notin nodes /\ nodes' = nodes \cup {n}
      BY <2>1, NextNodeType DEF Create, IInv
    <3>2. version' = [version EXCEPT ![n] = @ + 1] /\ version \in [Nodes -> Nat]
      BY <2>1 DEF Create, IInv, TypeOK
    <3>3. nodes \subseteq Nodes
      BY DEF IInv, TypeOK
    <3>4. \A m \in nodes : version'[m] = version[m]
      BY <3>1, <3>2, <3>3
    <3>5. version'[n] # 0
      BY <3>1, <3>2
    <3>6. QED
      BY <3>1, <3>4, <3>5 DEF VersionInv
  <2>2. CASE ~Create
    <3>1. UNCHANGED <<nodes, version>>
      BY <2>2 DEF SetConfig, StartSetConfig, Exists, SetConfigFails, serverVars
    <3>2. QED
      BY <3>1 DEF VersionInv
  <2>3. QED
    BY <2>1, <2>2
<1>3. VersionInv'
  BY <1>1, <1>2 DEF VersionInv
<1>4. TodoInv'
  BY <1>1 DEF TodoInv
<1>5. \A t \in Threads : ReadsUrl(t) => ReadsUrl(t)'
  BY <1>1, <1>2 DEF ReadsUrl, Shown
<1>6. UrlFresh => UrlFresh'
  BY <1>1, <1>2, <1>5 DEF UrlFresh, Shown, Threads
<1>7. UrlInv'
  BY <1>1, <1>5, <1>6 DEF UrlInv, WillTell, Threads
<1>8. QED
  BY <1>3, <1>4, <1>7

LEMMA PlanFollows ==
  ASSUME FollowInv, Plan
  PROVE  VersionInv' /\ TodoInv' /\ UrlInv'
<1> USE DEF FollowInv
<1>1. /\ todo = <<>>
      /\ \/ alone' = TRUE
         \/ todo' \in Whole /\ alone' = alone
      /\ UNCHANGED <<nodes, version, watches, events, live, field>>
      /\ UNCHANGED <<pc, at, got, lapses>>
  BY DEF Plan, serverVars, clientVars
<1>2. VersionInv'
  BY <1>1 DEF VersionInv
<1>3. TodoInv'
  <2>1. CASE todo' \in Whole
    <3>1. PICK kind \in Kinds :
            todo' = [i \in 1 .. 3 |-> [kind |-> kind, node |-> Config[i]]]
      BY <2>1, LenConfig DEF Whole
    <3>2. Len(todo') = 3
      BY <3>1
    <3>3. \A i \in 1 .. 3 : todo'[i].node = Config[i] /\ i + 3 - 3 = i
      BY <3>1
    <3>4. QED
      BY <3>2, <3>3 DEF TodoInv
  <2>2. QED
    BY <1>1, <2>1 DEF TodoInv
<1>4. ~alone' => ~alone
  BY <1>1
<1>5. WillTell => WillTell'
  BY <1>1 DEF WillTell
<1>6. /\ UrlFresh <=> UrlFresh'
      /\ ReadsUrl("main") <=> ReadsUrl("main")'
  BY <1>1 DEF UrlFresh, ReadsUrl, Shown
<1>7. UrlInv'
  BY <1>1, <1>4, <1>5, <1>6 DEF UrlInv
<1>8. QED
  BY <1>2, <1>3, <1>7

(* The order of a plan.                                                    *)
LEMMA TodoFacts ==
  ASSUME TypeOK, TodoInv, ~alone, todo # <<>>
  PROVE  /\ Len(todo) \in 1 .. 3
         /\ Len(Tail(todo)) = Len(todo) - 1
         /\ Len(todo) = 3 => Head(todo).node = "url"
         /\ Len(todo) = 2 => Head(todo).node = "username"
         /\ Len(todo) = 1 => Head(todo).node = "passwd"
         /\ \A i \in 1 .. Len(Tail(todo)) :
              Tail(todo)[i].node = Config[i + 3 - Len(Tail(todo))]
<1>1. todo \in Seq(Request)
  BY DEF TypeOK
<1>2. Len(todo) \in 1 .. 3
  <2>1. Len(todo) \in Nat \ {0}
    BY <1>1
  <2>2. Len(todo) <= 3
    BY DEF TodoInv
  <2> DEFINE k == Len(todo)
  <2>3. k \in Nat \ {0} /\ k <= 3
    BY <2>1, <2>2
  <2> HIDE DEF k
  <2>4. k \in 1 .. 3
    BY <2>3
  <2>5. QED
    BY <2>4 DEF k
<1>3. Len(Tail(todo)) = Len(todo) - 1 /\ Head(todo) = todo[1]
  BY <1>1, <1>2
<1>4. /\ Len(todo) = 3 => Head(todo).node = "url"
      /\ Len(todo) = 2 => Head(todo).node = "username"
      /\ Len(todo) = 1 => Head(todo).node = "passwd"
  <2>1. 1 \in 1 .. Len(todo)
    BY <1>2
  <2>2. Head(todo).node = Config[1 + 3 - Len(todo)]
    BY <1>3, <2>1 DEF TodoInv
  <2>3. Config[1] = "url" /\ Config[2] = "username" /\ Config[3] = "passwd"
    BY DEF Config
  <2>4. CASE Len(todo) = 3
    BY <2>2, <2>3, <2>4
  <2>5. CASE Len(todo) = 2
    BY <2>2, <2>3, <2>5
  <2>6. CASE Len(todo) = 1
    BY <2>2, <2>3, <2>6
  <2>7. QED
    BY <2>4, <2>5, <2>6
<1>5. ASSUME NEW i \in 1 .. Len(Tail(todo))
      PROVE  Tail(todo)[i].node = Config[i + 3 - Len(Tail(todo))]
  <2>1. Tail(todo)[i] = todo[i + 1] /\ i + 1 \in 1 .. Len(todo)
    BY <1>1, <1>2, <1>3
  <2>2. todo[i + 1].node = Config[i + 1 + 3 - Len(todo)]
    BY <2>1 DEF TodoInv
  <2>3. i + 1 + 3 - Len(todo) = i + 3 - Len(Tail(todo))
    BY <1>2, <1>3
  <2>4. QED
    BY <2>1, <2>2, <2>3
<1>6. QED
  BY <1>2, <1>3, <1>4, <1>5

LEMMA UpToThree ==
  ASSUME NEW k \in 1 .. 3
  PROVE  /\ ~(k < 3) => k = 3
         /\ k = 3 => k - 1 = 2
         /\ k = 2 => k - 1 = 1
  OBVIOUS

LEMMA ChangeFollows ==
  ASSUME FollowInv, Change
  PROVE  VersionInv' /\ TodoInv' /\ UrlInv'
<1> USE DEF FollowInv
<1> DEFINE n == Head(todo).node
<1>1. /\ todo # <<>> /\ n \in Nodes /\ TypeOK
      /\ UNCHANGED <<live, field, pc, at, got, lapses>>
  BY RequestType DEF Change, IInv
<1>2. pc["main"] = "show"
  BY <1>1 DEF IInv, StartInv
<1>3. /\ nodes' \subseteq nodes
      /\ \A m \in nodes' : version'[m] # 0
      /\ \A m \in Nodes : m # n => version'[m] = version[m] /\ (m \in nodes => m \in nodes')
  <2>1. version \in [Nodes -> Nat] /\ nodes \subseteq Nodes
    BY DEF IInv, TypeOK
  <2>2. \A m \in Nodes : m # n => version'[m] = version[m] /\ (m \in nodes => m \in nodes')
    BY <1>1, <2>1 DEF Change, serverVars
  <2>3. nodes' \subseteq nodes
    BY DEF Change, serverVars
  <2>4. n \in nodes' => version'[n] # 0
    BY <1>1, <2>1 DEF Change, serverVars, VersionInv
  <2>5. QED
    BY <2>1, <2>2, <2>3, <2>4 DEF VersionInv
<1>4. VersionInv'
  BY <1>1, <1>3 DEF VersionInv
<1>5. /\ watches' = watches \ {n}
      /\ n \in watches => events' # <<>>
      /\ events # <<>> => events' # <<>>
  <2>1. events \in Seq({"NodeDataChanged", "NodeDeleted"})
    BY DEF IInv, TypeOK
  <2>2. \A e : Append(events, e) # <<>>
    BY <2>1
  <2>3. CASE n \in nodes
    BY <2>2, <2>3 DEF Change, Trigger
  <2>4. CASE n \notin nodes
    BY <2>4 DEF Change, IInv, TypeOK
  <2>5. QED
    BY <2>3, <2>4
<1>6. /\ n \in nodes => todo' = Tail(todo)
      /\ n \notin nodes => /\ todo' = <<>>
                          /\ UNCHANGED <<nodes, version, watches, events>>
      /\ ~alone' => ~alone
      /\ n \notin nodes /\ ~alone' => ~(Len(todo) < 3)
  <2>1. n \in nodes => todo' = Tail(todo) /\ alone' = alone
    BY DEF Change
  <2>2. n \notin nodes =>
          /\ todo' = <<>>
          /\ UNCHANGED <<nodes, version, watches, events>>
    BY DEF Change, serverVars
  <2>3. n \notin nodes => alone' = (alone \/ Len(todo) < 3)
    BY LenConfig, Zenon DEF Change
  <2>4. ~alone' => ~alone /\ (n \notin nodes => ~(Len(todo) < 3))
    BY <2>1, <2>3, Zenon
  <2>5. QED
    BY <2>1, <2>2, <2>4, Zenon
<1>7. TodoInv'
  <2> SUFFICES ASSUME ~alone'
               PROVE  /\ Len(todo') <= 3
                      /\ \A i \in 1 .. Len(todo') :
                           todo'[i].node = Config[i + 3 - Len(todo')]
    BY DEF TodoInv
  <2>1. CASE todo' = <<>>
    BY <2>1
  <2>2. CASE todo' = Tail(todo)
    <3>1. /\ Len(todo) \in 1 .. 3 /\ Len(todo') = Len(todo) - 1
          /\ \A i \in 1 .. Len(todo') :
               todo'[i].node = Config[i + 3 - Len(todo')]
      BY <1>1, <1>6, <2>2, TodoFacts, Zenon
    <3>2. Len(todo') <= 3
      BY <3>1
    <3>3. QED
      BY <3>1, <3>2
  <2>3. QED
    BY <1>6, <2>1, <2>2
<1>8. UrlInv'
  <2> SUFFICES ASSUME live, ~alone', lapses = 0, ~UrlFresh', ~WillTell'
               PROVE  FALSE
    BY <1>1, <1>2 DEF UrlInv
  <2>1. ~alone /\ events = <<>> /\ n \notin watches
    BY <1>5, <1>6 DEF WillTell
  <2>2. UrlFresh \/ WillTell
    BY <1>2, <2>1 DEF UrlInv
  <2>3. /\ Len(todo) \in 1 .. 3 /\ Len(Tail(todo)) = Len(todo) - 1
        /\ Len(todo) = 3 => n = "url"
        /\ Len(todo) = 2 => n = "username"
        /\ Len(todo) = 1 => n = "passwd"
    BY <1>1, <2>1, TodoFacts
  <2>4. /\ n \notin nodes => Len(todo) = 3
        /\ n \in nodes /\ Len(todo) = 3 => Len(todo') = 2
        /\ n \in nodes /\ Len(todo) = 2 => Len(todo') = 1
    BY <1>6, <2>3, UpToThree, Zenon
  <2>5. CASE n \notin nodes
    <3>1. UNCHANGED <<nodes, version, watches, events>> /\ Len(todo) = 3
      BY <1>6, <2>5, <2>4
    <3>2. UrlFresh
      BY <2>1, <2>2, <3>1 DEF WillTell
    <3>3. QED
      BY <1>1, <3>1, <3>2 DEF UrlFresh, ReadsUrl, Shown
  <2>6. CASE n \in nodes /\ Len(todo) = 3
    <3>1. Len(todo') = 2 /\ n = "url"
      BY <2>3, <2>6, <2>4
    <3>2. watches' = {}
      BY <3>1 DEF WillTell
    <3>3. watches = {}
      BY <1>5, <2>1, <3>2
    <3>4. Missing = 2
      BY <3>3 DEF Missing, Off
    <3>5. Missing <= lapses + Len(events) + Handling
      BY <1>2 DEF IInv, MissingIsPaid, VersionInv
    <3>6. Handling \in {0, 1} /\ Len(events) = 0 /\ lapses = 0
      BY <2>1 DEF Handling
    <3>7. QED
      BY <3>4, <3>5, <3>6
  <2>7. CASE n \in nodes /\ Len(todo) # 3
    <3>1. n # "url"
      BY <2>3, <2>7
    <3>2. UrlFresh => UrlFresh'
      BY <1>1, <1>3, <3>1 DEF UrlFresh, ReadsUrl, Shown, Nodes
    <3>3. WillTell
      BY <2>2, <3>2
    <3>4. CASE Len(todo) = 2
      <4>1. n = "username" /\ watches # {}
        BY <2>1, <2>3, <3>3, <3>4 DEF WillTell
      <4>2. "passwd" \in watches'
        BY <1>5, <2>1, <4>1 DEF IInv, TypeOK, Credentials
      <4>3. Len(todo') = 1
        BY <2>7, <2>4, <3>4
      <4>4. QED
        BY <4>2, <4>3 DEF WillTell
    <3>5. CASE Len(todo) = 1
      BY <2>1, <2>3, <3>3, <3>5 DEF WillTell
    <3>6. QED
      BY <2>3, <2>7, <3>4, <3>5
  <2>8. QED
    BY <2>5, <2>6, <2>7
<1>9. QED
  BY <1>4, <1>7, <1>8

LEMMA NextFollows ==
  ASSUME QuietStart
  PROVE  FollowInv /\ [Next]_vars => FollowInv'
<1> SUFFICES ASSUME FollowInv, [Next]_vars PROVE FollowInv'
  OBVIOUS
<1>1. IInv'
  BY NextIInv DEF FollowInv
<1>2. VersionInv' /\ TodoInv' /\ UrlInv'
  <2>1. ASSUME NEW t \in Threads, InitValue(t)
        PROVE  VersionInv' /\ TodoInv' /\ UrlInv'
    BY <2>1, ReadFollows, ReadFailsFollows, AssignFollows DEF InitValue
  <2>2. CASE Process \/ SessionEnds \/ SetConfig \/ Plan \/ Change
    BY <2>2, ProcessFollows, SessionEndsFollows, SetConfigFollows, PlanFollows,
       ChangeFollows
  <2>3. CASE UNCHANGED vars
    <3>1. /\ UNCHANGED <<nodes, version, todo, alone, watches, events, live>>
          /\ UNCHANGED <<field, pc, at, got, lapses>>
      BY <2>3 DEF vars, serverVars, clientVars, operatorVars
    <3>2. QED
      BY <3>1 DEF FollowInv, VersionInv, TodoInv, UrlInv, UrlFresh, ReadsUrl,
         WillTell, Shown
  <2>4. QED
    BY <2>1, <2>2, <2>3 DEF Next
<1>3. QED
  BY <1>1, <1>2 DEF FollowInv

(* The url, though nobody watches it: after a quiet start, a client that   *)
(* missed nothing shows the whole configuration whenever the operator has  *)
(* finished a plan, if plans are carried out to the last node.             *)
THEOREM ConfigIsFollowed ==
  ASSUME QuietStart
  PROVE  Spec => []FollowsConfig
<1>1. FollowInv => FollowsConfig
  <2> SUFFICES ASSUME FollowInv, Settled, ~alone, lapses = 0, ~missed, todo = <<>>
               PROVE  \A n \in Nodes : Shown(n)
    BY DEF FollowsConfig
  <2>1. ~WillTell
    BY DEF WillTell, Settled
  <2>2. Shown("url")
    BY <2>1 DEF FollowInv, UrlInv, UrlFresh, ReadsUrl, Settled
  <2>3. FollowsCredentials
    BY SettledCredentials DEF FollowInv
  <2>4. QED
    BY <2>2, <2>3 DEF FollowsCredentials, Credentials, Nodes
<1>2. QED
  BY <1>1, InitFollow, NextFollows, PTL DEF Spec
=============================================================================
