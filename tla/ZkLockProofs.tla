---------------------------- MODULE ZkLockProofs ----------------------------
(***************************************************************************)
(* Proofs about ZkLock for any number of processes, hosts and sessions,    *)
(* when getLock is called as Main calls it, with an argument that is not   *)
(* the address of any host.                                                *)
(***************************************************************************)
EXTENDS ZkLock, TLAPS

(* InetAddress.toString never is InetAddress.getHostAddress. *)
ArgIsNoAddress == \A p, q \in Procs : IpArg[p] # Ip[q]

(* A process that holds a Lock, and whose session is alive, owns the znode. *)
HolderOwns ==
  \A p \in Procs :
    Holding(p) /\ Alive(p) => node # NoNode /\ node.owner = session[p]

(* An ephemeral znode does not outlive its session. *)
OwnerLives == node # NoNode => node.owner \in live

IInv == TypeOK /\ HolderOwns /\ OwnerLives /\ DataNamesOwner

LEMMA ZnodeIsNode ==
  ASSUME sessions \in Seq(Procs)
  PROVE  NoNode \notin Znodes
<1>1. Znodes \subseteq [ip : {Ip[p] : p \in Procs}, word : Words,
                       version : Nat, owner : Nat]
  BY DEF Znodes
<1>2. QED
  BY <1>1, NodeAssumption

LEMMA InitIInv == Init => IInv
  BY BoundAssumption
  DEF Init, IInv, TypeOK, HolderOwns, OwnerLives, DataNamesOwner, Holding,
      Locations, Words

LEMMA ConnectIInv ==
  ASSUME IInv, NEW p \in Procs, Connect(p)
  PROVE  IInv'
<1> DEFINE s == Len(sessions) + 1
<1>1. /\ s <= MaxSessions
      /\ sessions' = Append(sessions, p)
      /\ live' = live \cup {s}
      /\ session' = [session EXCEPT ![p] = s]
      /\ pc' = [pc EXCEPT ![p] = "getLock"]
      /\ UNCHANGED <<node, stat, word>>
  BY DEF Connect, Goto, procVars
<1>2. /\ s \in Nat \ {0} /\ s \notin live
      /\ sessions' \in Seq(Procs) /\ Len(sessions') = s /\ sessions'[s] = p
      /\ \A i \in 1 .. Len(sessions) :
           i \in 1 .. s /\ i # s /\ sessions'[i] = sessions[i]
  BY <1>1 DEF IInv, TypeOK
<1>3. \A q \in Procs : session'[q] = IF q = p THEN s ELSE session[q]
  BY <1>1 DEF IInv, TypeOK
<1>4. \A q \in Procs : session[q] \in 0 .. Len(sessions) /\ session[q] # s
  BY DEF IInv, TypeOK
<1> HIDE DEF s
<1>5. TypeOK'
  <2>1. node' = NoNode \/ node' \in Znodes'
    BY <1>1, <1>2 DEF IInv, TypeOK, Znodes
  <2>2. ASSUME NEW q \in Procs, session'[q] # 0
        PROVE  sessions'[session'[q]] = q
    <3>1. CASE q = p
      BY <1>2, <1>3, <3>1
    <3>2. CASE q # p
      <4>1. session'[q] = session[q] /\ session[q] \in 1 .. Len(sessions)
        BY <1>3, <1>4, <2>2, <3>2
      <4>2. sessions[session[q]] = q
        BY <2>2, <4>1 DEF IInv, TypeOK
      <4>3. QED
        BY <1>2, <4>1, <4>2
    <3>3. QED
      BY <3>1, <3>2
  <2>3. session' \in [Procs -> 0 .. Len(sessions')]
    <3>1. \A q \in Procs : session'[q] \in 0 .. s
      BY <1>2, <1>3, <1>4 DEF s
    <3>2. QED
      BY <1>1, <1>2, <3>1 DEF IInv, TypeOK
  <2>4. live' \subseteq 1 .. Len(sessions')
    BY <1>1, <1>2 DEF IInv, TypeOK
  <2>5. QED
    BY <1>1, <1>2, <2>1, <2>2, <2>3, <2>4 DEF IInv, TypeOK, Locations
<1>6. HolderOwns'
  BY <1>1, <1>3, <1>4 DEF IInv, TypeOK, HolderOwns, Holding, Alive
<1>7. OwnerLives' /\ DataNamesOwner'
  BY <1>1, <1>2 DEF IInv, TypeOK, Znodes, OwnerLives, DataNamesOwner
<1>8. QED
  BY <1>5, <1>6, <1>7 DEF IInv

(* Steps that change neither the znode nor the sessions, and make nobody a *)
(* holder.                                                                 *)
LEMMA NobodyGains ==
  ASSUME IInv, UNCHANGED <<node, sessVars>>,
         pc' \in [Procs -> Locations], stat' \in [Procs -> Nat],
         word' \in [Procs -> Words],
         \A p \in Procs : Holding(p)' => Holding(p)
  PROVE  IInv'
<1>1. TypeOK'
  BY DEF IInv, TypeOK, sessVars, Znodes
<1>2. HolderOwns' /\ OwnerLives' /\ DataNamesOwner'
  BY DEF IInv, HolderOwns, OwnerLives, DataNamesOwner, Alive, sessVars
<1>3. QED
  BY <1>1, <1>2 DEF IInv

LEMMA GetDataIInv ==
  ASSUME ArgIsNoAddress, IInv, NEW p \in Procs, GetData(p)
  PROVE  IInv'
<1>1. node # NoNode => ~IsYours(p)
  BY DEF ArgIsNoAddress, IInv, TypeOK, Znodes, IsYours
<1>2. Goto(p, "refused") \/ Goto(p, "down")
  BY <1>1 DEF GetData
<1>3. QED
  BY <1>2, NobodyGains
  DEF IInv, TypeOK, Locations, GetData, Goto, Holding, procVars

LEMMA CreateZnodeIInv ==
  ASSUME IInv, NEW p \in Procs, CreateZnode(p)
  PROVE  IInv'
<1>1. CASE Goto(p, "down") /\ UNCHANGED node
  BY <1>1, NobodyGains
  DEF IInv, TypeOK, Locations, CreateZnode, Goto, Holding, procVars
<1>2. CASE /\ Alive(p) /\ node = NoNode /\ node' = CreatedBy(p)
           /\ Goto(p, "holding") \/ Goto(p, "down")
  <2>1. /\ UNCHANGED <<live, sessions, session, stat, word>>
        /\ session[p] \in live
    BY <1>2 DEF CreateZnode, sessVars, procVars, Alive
  <2>2. /\ session[p] \in 1 .. Len(sessions)
        /\ sessions[session[p]] = p
    BY <2>1 DEF IInv, TypeOK
  <2>3. /\ node' \in Znodes' /\ node'.owner = session[p] /\ node'.ip = Ip[p]
    BY <1>2, <2>1, <2>2 DEF CreatedBy, Znodes, Words
  <2>4. TypeOK'
    BY <1>2, <2>1, <2>3 DEF IInv, TypeOK, Locations, Goto
  <2>5. \A q \in Procs : q # p => ~(Holding(q)' /\ Alive(q)')
    BY <1>2, <2>1 DEF IInv, TypeOK, HolderOwns, Holding, Alive, Goto
  <2>6. CASE node' # NoNode
    <3>1. HolderOwns'
      BY <2>1, <2>3, <2>5, <2>6 DEF HolderOwns
    <3>2. OwnerLives' /\ DataNamesOwner'
      BY <2>1, <2>2, <2>3 DEF OwnerLives, DataNamesOwner
    <3>3. QED
      BY <2>4, <3>1, <3>2 DEF IInv
  <2>7. CASE node' = NoNode
    BY <2>1, <2>3, <2>7, ZnodeIsNode DEF IInv, TypeOK, Znodes
  <2>8. QED
    BY <2>6, <2>7
<1>3. QED
  BY <1>1, <1>2 DEF CreateZnode, MayCreate

LEMMA SetDataIInv ==
  ASSUME IInv, NEW p \in Procs, SetData(p)
  PROVE  IInv'
<1>1. /\ UNCHANGED <<live, sessions, session>>
      /\ pc[p] = "setData" /\ pc' = [pc EXCEPT ![p] = "holding"]
      /\ stat' = [stat EXCEPT ![p] = 0]
      /\ word' = [word EXCEPT ![p] = "unlock"]
  BY DEF SetData, ForgetLocals, Goto, sessVars
<1>2. CASE UNCHANGED node
  <2>1. /\ pc' \in [Procs -> Locations] /\ stat' \in [Procs -> Nat]
        /\ word' \in [Procs -> Words]
    BY <1>1 DEF IInv, TypeOK, Locations, Words
  <2>2. \A q \in Procs : Holding(q)' => Holding(q)
    BY <1>1 DEF IInv, TypeOK, Holding
  <2>3. QED
    BY <1>1, <1>2, <2>1, <2>2, NobodyGains DEF sessVars
<1>3. CASE /\ Alive(p) /\ node # NoNode
           /\ node' = [node EXCEPT !.ip = Ip[p], !.word = word[p],
                                   !.version = @ + 1]
  <2>1. node \in Znodes /\ node.owner = session[p] /\ session[p] \in live
    BY <1>1, <1>3 DEF IInv, TypeOK, HolderOwns, Holding, Alive
  <2>2. /\ node' \in Znodes' /\ node'.owner = node.owner
        /\ node'.ip = Ip[p]
    <3>1. Ip[p] \in {Ip[q] : q \in Procs} /\ word[p] \in Words
      BY DEF IInv, TypeOK
    <3>2. node.version + 1 \in Nat
      BY <2>1 DEF Znodes
    <3>3. QED
      BY <1>1, <1>3, <2>1, <3>1, <3>2 DEF Znodes
  <2>3. sessions[session[p]] = p
    BY <2>1 DEF IInv, TypeOK
  <2>4. TypeOK'
    BY <1>1, <2>2 DEF IInv, TypeOK, Locations, Words
  <2>5. \A q \in Procs : Holding(q)' => Holding(q)
    BY <1>1 DEF IInv, TypeOK, Holding
  <2>6. HolderOwns'
    <3> SUFFICES ASSUME NEW q \in Procs, Holding(q)', Alive(q)'
                 PROVE  node' # NoNode /\ node'.owner = session[q]
      BY <1>1 DEF HolderOwns
    <3>1. node.owner = session[q]
      BY <1>1, <2>5 DEF IInv, HolderOwns, Alive
    <3>2. q = p
      BY <2>1, <2>3, <3>1 DEF IInv, TypeOK
    <3>3. node' # NoNode
      BY <1>1, <2>2, ZnodeIsNode DEF IInv, TypeOK, Znodes
    <3>4. QED
      BY <2>2, <3>1, <3>3
  <2>7. OwnerLives' /\ DataNamesOwner'
    BY <1>1, <2>1, <2>2, <2>3 DEF OwnerLives, DataNamesOwner
  <2>8. QED
    BY <2>4, <2>6, <2>7 DEF IInv
<1>4. QED
  BY <1>2, <1>3 DEF SetData
LEMMA ExpireIInv ==
  ASSUME IInv, NEW s \in 1 .. MaxSessions, Expire(s)
  PROVE  IInv'
<1>1. /\ live' = live \ {s}
      /\ UNCHANGED <<sessions, session, pc, stat, word>>
      /\ node' = IF node # NoNode /\ node.owner = s THEN NoNode ELSE node
  BY DEF Expire, procVars
<1>2. TypeOK'
  BY <1>1 DEF IInv, TypeOK, Znodes
<1>3. HolderOwns' /\ OwnerLives' /\ DataNamesOwner'
  BY <1>1 DEF IInv, HolderOwns, OwnerLives, DataNamesOwner, Holding, Alive
<1>4. QED
  BY <1>2, <1>3 DEF IInv

LEMMA NextIInv ==
  ASSUME ArgIsNoAddress, IInv, [Next]_vars
  PROVE  IInv'
<1>1. ASSUME NEW p \in Procs, Exists(p) PROVE IInv'
  BY <1>1, NobodyGains
  DEF IInv, TypeOK, Locations, Exists, Goto, Holding, procVars
<1>2. ASSUME NEW p \in Procs, NEW w \in Words, StartSet(p, w) PROVE IInv'
  <2>1. node \in Znodes
    BY <1>2 DEF StartSet, IInv, TypeOK
  <2>2. node.version \in Nat
    BY <2>1 DEF Znodes
  <2>3. /\ pc' \in [Procs -> Locations] /\ stat' \in [Procs -> Nat]
        /\ word' \in [Procs -> Words]
        /\ \A q \in Procs : Holding(q)' => Holding(q)
    BY <1>2, <2>2 DEF StartSet, IInv, TypeOK, Locations, Goto, Holding
  <2>4. QED
    BY <1>2, <2>3, NobodyGains DEF StartSet
<1>3. ASSUME NEW p \in Procs, Crash(p) PROVE IInv'
  BY <1>3, NobodyGains
  DEF IInv, TypeOK, Locations, Words, Crash, ForgetLocals, Goto, Holding
<1>4. CASE UNCHANGED vars
  BY <1>4, NobodyGains DEF IInv, TypeOK, vars, sessVars, procVars, Holding
<1>5. QED
  BY <1>1, <1>2, <1>3, <1>4, ConnectIInv, GetDataIInv, CreateZnodeIInv,
     SetDataIInv, ExpireIInv
  DEF Next, GetLock, Lock

LEMMA Invariance ==
  ASSUME ArgIsNoAddress
  PROVE  Spec => []IInv
  BY InitIInv, NextIInv, PTL DEF Spec

(* All variables stay in their types, and no session is shared. *)
THEOREM LockTypes ==
  ASSUME ArgIsNoAddress
  PROVE  Spec => []TypeOK
<1>1. IInv => TypeOK
  BY DEF IInv
<1>2. QED
  BY <1>1, Invariance, PTL

(* Called as Main calls it, getLock never gives a Lock to two processes    *)
(* whose sessions are alive.                                               *)
THEOREM OneHolderAlive ==
  ASSUME ArgIsNoAddress
  PROVE  Spec => []OneLiveHolder
<1>1. IInv => OneLiveHolder
  <2> SUFFICES ASSUME IInv, NEW p \in Procs, NEW q \in Procs,
                      Holding(p), Alive(p), Holding(q), Alive(q)
               PROVE  p = q
    BY DEF OneLiveHolder
  <2>1. session[p] = node.owner /\ session[q] = node.owner
    BY DEF IInv, HolderOwns
  <2>2. session[p] # 0 /\ session[q] # 0
    BY DEF IInv, TypeOK, Alive
  <2>3. QED
    BY <2>1, <2>2 DEF IInv, TypeOK
<1>2. QED
  BY <1>1, Invariance, PTL

(* Nor does anybody write into a znode that is not its own. *)
THEOREM NodeNamesItsOwner ==
  ASSUME ArgIsNoAddress
  PROVE  Spec => []DataNamesOwner
<1>1. IInv => DataNamesOwner
  BY DEF IInv
<1>2. QED
  BY <1>1, Invariance, PTL

(* The znode changes hands only when its owner's session has expired: no   *)
(* request of another process removes or replaces it.                      *)
THEOREM NobodyTakesTheLock ==
  ASSUME ArgIsNoAddress
  PROVE  Spec => OnlyExpiryReleases
<1>1. IInv /\ [Next]_vars =>
        [node # NoNode /\ node.owner \in live' =>
           node' # NoNode /\ node'.owner = node.owner]_vars
  <2> SUFFICES ASSUME IInv, Next, node # NoNode, node.owner \in live'
               PROVE  node' # NoNode /\ node'.owner = node.owner
    OBVIOUS
  <2>1. node \in Znodes
    BY DEF IInv, TypeOK
  <2>2. ASSUME NEW p \in Procs, SetData(p)
        PROVE  node' # NoNode /\ node'.owner = node.owner
    <3>1. CASE node' = [node EXCEPT !.ip = Ip[p], !.word = word[p],
                                    !.version = @ + 1]
      <4>1. node'.owner = node.owner
        BY <3>1, <2>1 DEF Znodes
      <4>2. /\ node.version + 1 \in Nat /\ Ip[p] \in {Ip[q] : q \in Procs}
            /\ word[p] \in Words /\ node.owner \in Nat
        BY <2>1 DEF Znodes, IInv, TypeOK
      <4>3. node' = [ip |-> Ip[p], word |-> word[p], version |-> node.version + 1,
                     owner |-> node.owner]
        BY <3>1, <2>1 DEF Znodes
      <4>4. node' # NoNode
        BY <4>2, <4>3, NodeAssumption
      <4>5. QED
        BY <4>1, <4>4
    <3>2. QED
      BY <2>2, <3>1 DEF SetData
  <2>3. ASSUME NEW s \in 1 .. MaxSessions, Expire(s)
        PROVE  node' = node
    BY <2>3 DEF Expire
  <2>4. ASSUME NEW p \in Procs, Connect(p) \/ GetLock(p) \/ Crash(p)
        PROVE  node' = node
    BY <2>4 DEF Connect, GetLock, Exists, GetData, CreateZnode, MayCreate, Crash
  <2>5. ASSUME NEW p \in Procs, NEW w \in Words, StartSet(p, w)
        PROVE  node' = node
    BY <2>5 DEF StartSet
  <2>6. QED
    BY <2>2, <2>3, <2>4, <2>5 DEF Next, Lock
<1>2. QED
  BY <1>1, Invariance, PTL DEF Spec, OnlyExpiryReleases

=============================================================================
