------------------------------- MODULE ZkConfig -------------------------------
(***************************************************************************)
(* Zookeeper-Projects, MyClient and SetConfig: a database configuration in *)
(* three znodes.  SetConfig creates the ones that are missing.  MyClient   *)
(* reads all three when it starts, and again on every NodeDataChanged: on  *)
(* its event thread, while the main thread may still be in its first       *)
(* initValue.  Watches are one-shot; url is read without one.              *)
(*                                                                         *)
(* Who changes or removes a configuration is not in the repository: the    *)
(* operator is external.  The contents of a znode are the number of the    *)
(* write that stored them.                                                 *)
(***************************************************************************)
EXTENDS Integers, Sequences, FiniteSets

CONSTANTS QuietStart,      \* nothing is changed during the first initValue
          Kinds,           \* what the operator does: "set", "remove"
          MaxChanges,      \* bound: how often the operator acts
          MaxFailures      \* bound: lost connections

ASSUME ConfigAssumption ==
  /\ QuietStart \in BOOLEAN
  /\ Kinds \subseteq {"set", "remove"}
  /\ MaxChanges \in Nat /\ MaxFailures \in Nat

VARIABLES nodes,      \* the znodes that exist
          version,    \* the last write of each
          watches,    \* the data watches of the client
          events,     \* its event queue
          live,       \* its session
          field,      \* uRLString, username, passwd; 0 is null
          pc,         \* where its two threads are
          at,         \* which of the reads of initValue a thread is at
          got,        \* what its getData returned
          setting,    \* the node SetConfig is at; 0: it is not running
          absent,     \* what its exists returned
          todo,       \* the operator's requests still to come
          changes,    \* how often it has acted
          alone,      \* history: it has changed or removed only a part
          failures,   \* lost connections
          missed,     \* history: the last call or event left things unread
          lapses      \* history: how often that happened

serverVars == <<nodes, version>>
clientVars == <<watches, events, live, field, pc, at, got, missed, lapses>>
publisherVars == <<setting, absent>>
operatorVars == <<todo, changes, alone>>
vars == <<serverVars, clientVars, publisherVars, operatorVars, failures>>

Config == <<"url", "username", "passwd">>
Nodes == {"url", "username", "passwd"}

WatchedOne == {"username"}             \* mutant: passwd without a watch
WatchedAll == {"url", "username", "passwd"}  \* mutant: url with a watch
Watched == {"username", "passwd"}

Threads == {"main", "event"}

Init ==
  /\ nodes \in SUBSET Nodes
  /\ version = [n \in Nodes |-> IF n \in nodes THEN 1 ELSE 0]
  /\ watches = {} /\ events = <<>> /\ live = TRUE
  /\ field = [n \in Nodes |-> 0]
  /\ pc = [t \in Threads |-> IF t = "main" THEN "read" ELSE "wait"]
  /\ at = [t \in Threads |-> 1]
  /\ got = [t \in Threads |-> 0]
  /\ setting = 0 /\ absent = FALSE
  /\ todo = <<>> /\ changes = 0 /\ alone = FALSE /\ failures = 0
  /\ missed = TRUE /\ lapses = 0

Node(t) == Config[at[t]]
Goto(t, loc) == pc' = [pc EXCEPT ![t] = loc]

(* After initValue main shows the fields; the event thread waits. *)
Return(t) == Goto(t, IF t = "main" THEN "show" ELSE "wait")

Lapse == missed' = TRUE /\ lapses' = lapses + 1
-----------------------------------------------------------------------------
(* One getData of initValue. *)
Read(t) ==
  /\ pc[t] = "read" /\ live /\ Node(t) \in nodes
  /\ got' = [got EXCEPT ![t] = version[Node(t)]]
  /\ watches' = watches \cup ({Node(t)} \cap Watched)
  /\ Goto(t, "assign")
  /\ UNCHANGED <<serverVars, publisherVars, operatorVars, events, live,
                 field, at, missed, lapses, failures>>

(* NoNode, a lost connection or an expired session: the exception skips    *)
(* what is left of initValue, and no watch is set.                         *)
ReadFails(t) ==
  /\ pc[t] = "read"
  /\ \/ ~live /\ UNCHANGED failures
     \/ Node(t) \notin nodes /\ UNCHANGED failures
     \/ failures < MaxFailures /\ failures' = failures + 1
  /\ Return(t)
  /\ Lapse
  /\ UNCHANGED <<serverVars, publisherVars, operatorVars, watches, events,
                 live, field, at, got>>

(* uRLString = ..., username = ..., passwd = ... *)
Assign(t) ==
  /\ pc[t] = "assign"
  /\ field' = [field EXCEPT ![Node(t)] = got[t]]
  /\ \/ /\ at[t] < Len(Config)
        /\ at' = [at EXCEPT ![t] = @ + 1]
        /\ Goto(t, "read")
        /\ UNCHANGED missed
     \/ /\ at[t] = Len(Config)
        /\ Return(t)
        /\ missed' = FALSE
        /\ UNCHANGED at
  /\ UNCHANGED <<serverVars, publisherVars, operatorVars, watches, events,
                 live, got, lapses, failures>>

InitValue(t) == Read(t) \/ ReadFails(t) \/ Assign(t)

(* process: the event thread takes the next event.  Only NodeDataChanged    *)
(* can come of the watches, and NodeDeleted, which is printed.             *)
RereadsNever(e) == FALSE               \* mutant: initValue forgotten
Rereads(e) == e = "NodeDataChanged"

Process ==
  LET e == Head(events) IN
  /\ pc["event"] = "wait" /\ events # <<>>
  /\ events' = Tail(events)
  /\ \/ /\ Rereads(e)
        /\ Goto("event", "read")
        /\ at' = [at EXCEPT !["event"] = 1]
     \/ ~Rereads(e) /\ UNCHANGED <<pc, at>>
  /\ \/ e = "NodeDeleted" /\ Lapse
     \/ e # "NodeDeleted" /\ UNCHANGED <<missed, lapses>>
  /\ UNCHANGED <<serverVars, publisherVars, operatorVars, watches, live,
                 field, got, failures>>

(* zk.close() after ten rounds of showing the fields, or an expiry. *)
SessionEnds ==
  /\ live
  /\ live' = FALSE
  /\ watches' = {}
  /\ UNCHANGED <<serverVars, publisherVars, operatorVars, events, field, pc,
                 at, got, missed, lapses, failures>>
-----------------------------------------------------------------------------
(* SetConfig.main, which may be run at any time; /myConf, which it creates *)
(* first, is taken for granted.                                            *)
StartSetConfig ==
  /\ setting = 0
  /\ setting' = 1
  /\ absent' = FALSE
  /\ UNCHANGED <<serverVars, clientVars, operatorVars, failures>>

NextNode == IF setting < Len(Config) THEN setting + 1 ELSE 0

Exists ==
  /\ setting # 0 /\ ~absent
  /\ \/ Config[setting] \notin nodes /\ absent' = TRUE /\ UNCHANGED setting
     \/ Config[setting] \in nodes /\ setting' = NextNode /\ UNCHANGED absent
  /\ UNCHANGED <<serverVars, clientVars, operatorVars, failures>>

Create ==
  /\ setting # 0 /\ absent /\ Config[setting] \notin nodes
  /\ nodes' = nodes \cup {Config[setting]}
  /\ version' = [version EXCEPT ![Config[setting]] = @ + 1]
  /\ setting' = NextNode
  /\ absent' = FALSE
  /\ UNCHANGED <<clientVars, operatorVars, failures>>

(* An exception ends it. *)
SetConfigFails ==
  /\ setting # 0
  /\ setting' = 0 /\ absent' = FALSE
  /\ UNCHANGED <<serverVars, clientVars, operatorVars, failures>>

SetConfig == StartSetConfig \/ Exists \/ Create \/ SetConfigFails
-----------------------------------------------------------------------------
(* The operator changes or removes a single node, or all of them in the    *)
(* order in which SetConfig creates them; a missing node ends the plan.    *)
Request == [kind : Kinds, node : Nodes]
Single == {<<r>> : r \in Request}
Whole ==
  {[i \in 1 .. Len(Config) |-> [kind |-> kind, node |-> Config[i]]] :
     kind \in Kinds}

Plan ==
  /\ todo = <<>> /\ changes < MaxChanges
  /\ QuietStart => pc["main"] = "show"
  /\ \/ todo' \in Single /\ alone' = TRUE
     \/ todo' \in Whole /\ UNCHANGED alone
  /\ changes' = changes + 1
  /\ UNCHANGED <<serverVars, clientVars, publisherVars, failures>>

(* The server hands the event to a client that watches the node. *)
Trigger(n, e) ==
  /\ watches' = watches \ {n}
  /\ events' = IF n \in watches THEN Append(events, e) ELSE events

Change ==
  LET n == Head(todo).node IN
  /\ todo # <<>>
  /\ \/ /\ n \in nodes /\ Head(todo).kind = "set"
        /\ version' = [version EXCEPT ![n] = @ + 1]
        /\ Trigger(n, "NodeDataChanged")
        /\ todo' = Tail(todo)
        /\ UNCHANGED <<nodes, alone>>
     \/ /\ n \in nodes /\ Head(todo).kind = "remove"
        /\ nodes' = nodes \ {n}
        /\ Trigger(n, "NodeDeleted")
        /\ todo' = Tail(todo)
        /\ UNCHANGED <<version, alone>>
     \/ /\ n \notin nodes
        /\ todo' = <<>>
        /\ alone' = (alone \/ Len(todo) < Len(Config))
        /\ UNCHANGED <<serverVars, watches, events>>
  /\ UNCHANGED <<publisherVars, changes, live, field, pc, at, got, missed,
                 lapses, failures>>

Next ==
  \/ \E t \in Threads : InitValue(t)
  \/ Process
  \/ SessionEnds
  \/ SetConfig
  \/ Plan
  \/ Change

Spec == Init /\ [][Next]_vars

(* The client's threads run, and a plan that was begun is carried out.     *)
Fairness ==
  /\ \A t \in Threads : WF_vars(InitValue(t))
  /\ WF_vars(Process)
  /\ WF_vars(Change)

FairSpec == Spec /\ Fairness
-----------------------------------------------------------------------------
Credentials == {"username", "passwd"}

(* Type invariant: no other node is ever watched, a watched node exists.   *)
TypeOK ==
  /\ nodes \subseteq Nodes
  /\ version \in [Nodes -> Nat]
  /\ watches \subseteq Credentials \cap nodes
  /\ events \in Seq({"NodeDataChanged", "NodeDeleted"})
  /\ live \in BOOLEAN
  /\ field \in [Nodes -> Nat]
  /\ pc \in [Threads -> {"read", "assign", "show", "wait"}]
  /\ pc["main"] # "wait" /\ pc["event"] # "show"
  /\ at \in [Threads -> 1 .. 3]
  /\ got \in [Threads -> Nat]
  /\ setting \in 0 .. 3 /\ absent \in BOOLEAN
  /\ todo \in Seq(Request)
  /\ changes \in 0 .. MaxChanges /\ failures \in 0 .. MaxFailures
  /\ alone \in BOOLEAN /\ missed \in BOOLEAN /\ lapses \in Nat

(* The client is connected and has nothing left to do. *)
Settled ==
  live /\ pc["main"] = "show" /\ pc["event"] = "wait" /\ events = <<>>

Shown(n) == field[n] = version[n]

(* "Read the new configuration": a settled client shows the current user   *)
(* name and password, unless the last initValue failed or the last event   *)
(* was a NodeDeleted, however changes, failures and creations interleave.  *)
FollowsCredentials ==
  Settled /\ ~missed => \A n \in Credentials : Shown(n)

(* And the url, which is read without a watch, as long as configurations   *)
(* are only changed as a whole, to the last node, and no initValue failed: *)
(* the client shows all of it once the operator has finished.              *)
FollowsConfig ==
  Settled /\ ~alone /\ lapses = 0 /\ ~missed /\ todo = <<>> =>
    \A n \in Nodes : Shown(n)

(* Each failed initValue, and each deletion, costs a client that once read *)
(* everything at most one of its two watches.                              *)
LapseCostsOneWatch ==
  Settled /\ field["passwd"] # 0 => Cardinality(Credentials \ watches) <= lapses

(* Once changes stop, the client settles on the current configuration,     *)
(* unless something was missed, a url changed alone or the session ended.  *)
CatchesUp ==
  <>[](live /\ ~missed =>
         /\ \A n \in Credentials : Shown(n)
         /\ ~alone /\ lapses = 0 => Shown("url"))
=============================================================================
