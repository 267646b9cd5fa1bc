-------------------------------- MODULE ZkLock --------------------------------
(***************************************************************************)
(* Zookeeper-Projects, package lock: LockFactory hands out a Lock on a     *)
(* path whose ephemeral znode holds "ip:lock" or "ip:unlock"; Lock.lock    *)
(* and Lock.unLock rewrite the znode.  Every process has its own JVM and   *)
(* so its own session, LockFactory.DEFAULT_ZOOKEEPER.  A process that dies *)
(* may be started again on the same host, with a new session.              *)
(*                                                                         *)
(* The ZooKeeper server is external: it serves one request at a time,      *)
(* deletes an ephemeral znode when the session that created it expires,    *)
(* and a request may fail with a lost connection before or after it took   *)
(* effect.                                                                 *)
(***************************************************************************)
EXTENDS Integers, Sequences

CONSTANTS Procs,        \* the processes contending for the resource
          Ip,           \* the host address of each process
          IpArg,        \* the argument ip each process passes to getLock
          NoNode,       \* the znode does not exist
          MaxSessions,  \* bound: sessions opened altogether
          MaxVersion    \* bound: rewrites of one znode

ASSUME BoundAssumption == MaxSessions \in Nat /\ MaxVersion \in Nat

Words == {"lock", "unlock"}

ASSUME NodeAssumption ==
  NoNode \notin [ip : {Ip[p] : p \in Procs}, word : Words,
                 version : Nat, owner : Nat]

VARIABLES node,      \* the znode at the path, or NoNode
          live,      \* sessions the server considers alive
          sessions,  \* history: the process each session belongs to
          session,   \* the session of each process; 0 before the first
          pc,        \* where each process is
          stat,      \* the version exists returned, inside lock and unLock
          word       \* the word lock or unLock is about to write

vars == <<node, live, sessions, session, pc, stat, word>>
procVars == <<stat, word>>
sessVars == <<live, sessions, session>>

Locations ==
  {"down", "getLock", "getData", "create", "refused", "holding", "setData"}

Init ==
  /\ node = NoNode
  /\ live = {} /\ sessions = <<>>
  /\ session = [p \in Procs |-> 0]
  /\ pc = [p \in Procs |-> "down"]
  /\ stat = [p \in Procs |-> 0]
  /\ word = [p \in Procs |-> "unlock"]

Alive(p) == session[p] \in live
Goto(p, loc) == pc' = [pc EXCEPT ![p] = loc]

(* Class initialization: getDefaultZookeeper connects and waits until the  *)
(* session is there.                                                       *)
Connect(p) ==
  LET s == Len(sessions) + 1 IN
  /\ pc[p] = "down" /\ s <= MaxSessions
  /\ sessions' = Append(sessions, p)
  /\ live' = live \cup {s}
  /\ session' = [session EXCEPT ![p] = s]
  /\ Goto(p, "getLock")
  /\ UNCHANGED <<node, procVars>>

(* getLock: exists.  Any exception is swallowed and taken for "no znode".  *)
Exists(p) ==
  /\ pc[p] = "getLock"
  /\ \/ Alive(p) /\ node # NoNode /\ Goto(p, "getData")
     \/ node = NoNode /\ Goto(p, "create")
     \/ Goto(p, "create")              \* connection lost, session expired
  /\ UNCHANGED <<node, sessVars, procVars>>

(* getLock: the znode is there; whose is it?                               *)
Ignored(p)  == TRUE                    \* mutant: everybody gets the lock
IsYours(p) == IpArg[p] = node.ip

GetData(p) ==
  /\ pc[p] = "getData"
  /\ \/ /\ Alive(p) /\ node # NoNode
        /\ Goto(p, IF IsYours(p) THEN "holding" ELSE "refused")
     \/ Goto(p, "down")                \* no znode any more, no connection
  /\ UNCHANGED <<node, sessVars, procVars>>

(* getLock: createZnode, which fails if the znode exists.                  *)
Swapped(p) ==                          \* mutant: writes its argument
  [ip |-> IpArg[p], word |-> "unlock", version |-> 0, owner |-> session[p]]
CreatedBy(p) ==
  [ip |-> Ip[p], word |-> "unlock", version |-> 0, owner |-> session[p]]

Recreate == TRUE                       \* mutant: deletes an old znode first
MayCreate == node = NoNode

CreateZnode(p) ==
  /\ pc[p] = "create"
  /\ \/ /\ Alive(p) /\ MayCreate
        /\ node' = CreatedBy(p)
        /\ Goto(p, "holding") \/ Goto(p, "down")  \* the answer may be lost
     \/ Goto(p, "down") /\ UNCHANGED node         \* NodeExists, lost request
  /\ UNCHANGED <<sessVars, procVars>>

(* lock and unLock: exists, then setData of the version it returned.  An   *)
(* exception leaves the caller with the Lock it had.                       *)
StartSet(p, w) ==
  /\ pc[p] = "holding"
  /\ Alive(p) /\ node # NoNode
  /\ node.version < MaxVersion
  /\ stat' = [stat EXCEPT ![p] = node.version]
  /\ word' = [word EXCEPT ![p] = w]
  /\ Goto(p, "setData")
  /\ UNCHANGED <<node, sessVars>>

ForgetLocals(p) ==
  /\ stat' = [stat EXCEPT ![p] = 0]
  /\ word' = [word EXCEPT ![p] = "unlock"]

SetData(p) ==
  /\ pc[p] = "setData"
  /\ \/ /\ Alive(p) /\ node # NoNode /\ node.version = stat[p]
        /\ node' = [node EXCEPT !.ip = Ip[p], !.word = word[p],
                                !.version = @ + 1]
     \/ UNCHANGED node                 \* BadVersion, NoNode, no connection
  /\ ForgetLocals(p)
  /\ Goto(p, "holding")
  /\ UNCHANGED sessVars

(* The process dies; the server does not notice at once. *)
Crash(p) ==
  /\ pc[p] # "down"
  /\ ForgetLocals(p)
  /\ Goto(p, "down")
  /\ UNCHANGED <<node, sessVars>>

(* The server has not heard from a session for too long, because its       *)
(* process died or because the network is slow.                            *)
Expire(s) ==
  /\ s \in live
  /\ live' = live \ {s}
  /\ node' = IF node # NoNode /\ node.owner = s THEN NoNode ELSE node
  /\ UNCHANGED <<sessions, session, pc, procVars>>

Lock(p) == SetData(p) \/ \E w \in Words : StartSet(p, w)
GetLock(p) == Exists(p) \/ GetData(p) \/ CreateZnode(p)

Next ==
  \/ \E p \in Procs : Connect(p) \/ GetLock(p) \/ Lock(p) \/ Crash(p)
  \/ \E s \in 1 .. MaxSessions : Expire(s)

Spec == Init /\ [][Next]_vars
-----------------------------------------------------------------------------
Znodes == [ip : {Ip[p] : p \in Procs}, word : Words,
           version : Nat, owner : 1 .. Len(sessions)]

(* Type invariant; in particular no two processes share a session.         *)
TypeOK ==
  /\ sessions \in Seq(Procs) /\ Len(sessions) <= MaxSessions
  /\ node = NoNode \/ node \in Znodes
  /\ live \subseteq 1 .. Len(sessions)
  /\ session \in [Procs -> 0 .. Len(sessions)]
  /\ \A p \in Procs : session[p] # 0 => sessions[session[p]] = p
  /\ pc \in [Procs -> Locations]
  /\ stat \in [Procs -> Nat]
  /\ word \in [Procs -> Words]

Holding(p) == pc[p] \in {"holding", "setData"}

(* "No lock created yet, you can get it": of the processes that hold a     *)
(* Lock and whose session is alive there is only one, through the race     *)
(* between exists and create, crashes, restarts and lost connections.      *)
OneLiveHolder ==
  \A p, q \in Procs :
    Holding(p) /\ Alive(p) /\ Holding(q) /\ Alive(q) => p = q

(* The address in the znode is that of the process whose session owns the  *)
(* znode: nobody ever writes into somebody else's.                         *)
DataNamesOwner ==
  node # NoNode => node.ip = Ip[sessions[node.owner]]

(* Nobody takes the lock away: from one step to the next the znode changes *)
(* hands only when its owner's session has expired.                        *)
OnlyExpiryReleases ==
  [][node # NoNode /\ node.owner \in live' =>
       node' # NoNode /\ node'.owner = node.owner]_vars
=============================================================================
