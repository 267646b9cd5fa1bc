---------------------------- MODULE LoginUserList ----------------------------
(***************************************************************************)
(* Java_Performance_tuning, package SignletonLogin: LoginAction binds a    *)
(* User to the session; the User enters its name into the one UserList     *)
(* when it is bound and takes it out when it is unbound; every request     *)
(* then prints the list and its length.  The list is a Vector: each call   *)
(* is atomic, a sequence of calls is not.                                  *)
(*                                                                         *)
(* The servlet container is external.  setAttribute tells the new value    *)
(* that it is bound, stores it, and tells the old one that it is unbound;  *)
(* a session that is not in use may expire.                                *)
(***************************************************************************)
EXTENDS Integers, Sequences, FiniteSets

CONSTANTS Requests,  \* the requests that are made, each of them once
          Sessions,  \* the browsers' sessions
          Names,     \* values of the parameter "name"
          Null,      \* null: no such parameter
          NoUser     \* no attribute "user"

ASSUME NullAssumption == Null \notin Names /\ NoUser \notin Names \cup {Null}
ASSUME PeopleAssumption == IsFiniteSet(Requests) /\ IsFiniteSet(Sessions)

VARIABLES
  v,          \* UserList.v
  attribute,  \* the name of each session's user
  expiring,   \* the name of the user of the session that is being removed
  pc,         \* where each request is in doGet
  session,    \* its session
  name,       \* its parameter
  oldUser,    \* the name of the user its setAttribute has replaced
  printed,    \* the names it has printed, one for each step of enums
  userCount,  \* the number it has printed
  listed,     \* history: the list when its enumeration began
  leavers     \* history: names removed while it enumerated

requestVars == <<session, name, oldUser, printed, userCount, listed>>
vars == <<v, attribute, expiring, pc, requestVars, leavers>>

Init ==
  /\ v = <<>>
  /\ attribute = [s \in Sessions |-> NoUser] /\ expiring = NoUser
  /\ pc = [r \in Requests |-> "new"]
  /\ session \in [Requests -> Sessions]
  /\ name \in [Requests -> Names \cup {Null}]
  /\ oldUser = [r \in Requests |-> NoUser]
  /\ printed = [r \in Requests |-> <<>>] /\ listed = printed
  /\ userCount = [r \in Requests |-> 0] /\ leavers = userCount

Goto(r, l) == pc' = [pc EXCEPT ![r] = l]

Listing(r) == pc[r] \in {"enumerate", "print", "count"}

(* name != null *)
EveryName(n) == TRUE                   \* mutant: null is entered as well
IsName(n) == n # Null

(* UserList.addUser *)
AddedFirst(n) == <<n>> \o v            \* mutant: insertElementAt(name, 0)
Added(n) == Append(v, n)

AddUser(n) == v' = IF IsName(n) THEN Added(n) ELSE v

(* UserList.removeUser: the first element that equals the name.            *)
RemovedAll(n) ==                       \* mutant: removeAll
  SelectSeq(v, LAMBDA x : x # n)
Removed(n) ==
  LET i == CHOOSE i \in DOMAIN v : v[i] = n /\ \A j \in 1 .. i - 1 : v[j] # n
  IN  IF \E j \in DOMAIN v : v[j] = n
      THEN SubSeq(v, 1, i - 1) \o SubSeq(v, i + 1, Len(v)) ELSE v

RemoveUser(n) ==
  /\ v' = IF IsName(n) THEN Removed(n) ELSE v
  /\ leavers' = [r \in Requests |->
                   leavers[r] + IF Listing(r) THEN Len(v) - Len(v') ELSE 0]

(* null == user || name.equals(user.getName()) *)
NewUser(u, n) == u = NoUser \/ u = n

GetAttribute(r) ==
  LET user == attribute[session[r]] IN
  /\ pc[r] = "new"
  /\ \/ user # NoUser /\ name[r] = Null /\ Goto(r, "nullPointer")
     \/ NewUser(user, name[r]) /\ (name[r] = Null => user = NoUser)
        /\ Goto(r, "bind")
     \/ ~NewUser(user, name[r]) /\ name[r] # Null /\ Goto(r, "elements")
  /\ UNCHANGED <<v, attribute, expiring, requestVars, leavers>>

ValueBound(r) ==
  /\ pc[r] = "bind"
  /\ AddUser(name[r])
  /\ Goto(r, "store")
  /\ UNCHANGED <<attribute, expiring, requestVars, leavers>>

StoreAttribute(r) ==
  LET old == attribute[session[r]] IN
  /\ pc[r] = "store"
  /\ attribute' = [attribute EXCEPT ![session[r]] = name[r]]
  /\ oldUser' = [oldUser EXCEPT ![r] = old]
  /\ Goto(r, IF old = NoUser THEN "elements" ELSE "unbind")
  /\ UNCHANGED <<v, expiring, session, name, printed, userCount, listed, leavers>>

ValueUnbound(r) ==
  /\ pc[r] = "unbind"
  /\ RemoveUser(oldUser[r])
  /\ oldUser' = [oldUser EXCEPT ![r] = NoUser]
  /\ Goto(r, "elements")
  /\ UNCHANGED <<attribute, expiring, session, name, printed, userCount, listed>>

(* getUserList: the enumeration starts at the first element.               *)
Elements(r) ==
  /\ pc[r] = "elements"
  /\ listed' = [listed EXCEPT ![r] = v]
  /\ Goto(r, "enumerate")
  /\ UNCHANGED <<v, attribute, expiring, session, name, oldUser, printed, userCount, leavers>>

(* The elements of the Vector come by their index.                         *)
HasMoreElements(r) ==
  /\ pc[r] = "enumerate"
  /\ Goto(r, IF Len(printed[r]) < Len(v) THEN "print" ELSE "count")
  /\ UNCHANGED <<v, attribute, expiring, requestVars, leavers>>

NextElement(r) ==
  LET i == Len(printed[r]) + 1 IN
  /\ pc[r] = "print"
  /\ \/ /\ i <= Len(v)
        /\ printed' = [printed EXCEPT ![r] = Append(@, v[i])]
        /\ Goto(r, "enumerate")
     \/ /\ i > Len(v)
        /\ Goto(r, "noSuchElement")
        /\ UNCHANGED printed
  /\ UNCHANGED <<v, attribute, expiring, session, name, oldUser, userCount, listed, leavers>>

GetUserCount(r) ==
  /\ pc[r] = "count"
  /\ userCount' = [userCount EXCEPT ![r] = Len(v)]
  /\ Goto(r, "done")
  /\ UNCHANGED <<v, attribute, expiring, session, name, oldUser, printed, listed, leavers>>

DoGet(r) ==
  \/ GetAttribute(r) \/ ValueBound(r) \/ StoreAttribute(r) \/ ValueUnbound(r)
  \/ Elements(r) \/ HasMoreElements(r) \/ NextElement(r) \/ GetUserCount(r)

InUse(s) ==
  \E r \in Requests :
    session[r] = s /\ pc[r] \notin {"new", "done", "nullPointer", "noSuchElement"}

(* The container removes the attributes of an idle session, one session    *)
(* after the other, and tells the user.                                    *)
Expire(s) ==
  /\ attribute[s] # NoUser /\ ~InUse(s) /\ expiring = NoUser
  /\ expiring' = attribute[s]
  /\ attribute' = [attribute EXCEPT ![s] = NoUser]
  /\ UNCHANGED <<v, pc, requestVars, leavers>>

Expired ==
  /\ expiring # NoUser
  /\ RemoveUser(expiring)
  /\ expiring' = NoUser
  /\ UNCHANGED <<attribute, pc, requestVars>>

Next ==
  \/ \E r \in Requests : DoGet(r)
  \/ \E s \in Sessions : Expire(s)
  \/ Expired

Spec == Init /\ [][Next]_vars
-----------------------------------------------------------------------------
(* Type invariant: among others, null never gets into the list.            *)
TypeOK ==
  /\ v \in Seq(Names)
  /\ attribute \in [Sessions -> Names \cup {Null, NoUser}]
  /\ expiring \in Names \cup {Null, NoUser}
  /\ pc \in [Requests -> {"new", "bind", "store", "unbind", "elements",
                          "enumerate", "print", "count", "done",
                          "nullPointer", "noSuchElement"}]
  /\ session \in [Requests -> Sessions]
  /\ name \in [Requests -> Names \cup {Null}]
  /\ oldUser \in [Requests -> Names \cup {Null, NoUser}]
  /\ printed \in [Requests -> Seq(Names)] /\ listed \in [Requests -> Seq(Names)]
  /\ userCount \in [Requests -> Nat] /\ leavers \in [Requests -> Nat]

(* The list holds each name as often as sessions have a user of that name, *)
(* counting users that are told already but not stored yet, and those that *)
(* are replaced or expired but not told yet: neither two logins of one     *)
(* session, nor of one name, nor an expiry in between make a user vanish   *)
(* or stay for ever.                                                       *)
ListMatchesSessions ==
  \A n \in Names :
    Cardinality({i \in DOMAIN v : v[i] = n}) =
      Cardinality({s \in Sessions : attribute[s] = n})
      + Cardinality({r \in Requests : pc[r] = "store" /\ name[r] = n})
      + Cardinality({r \in Requests : pc[r] = "unbind" /\ oldUser[r] = n})
      + (IF expiring = n THEN 1 ELSE 0)

(* What "users online now" is worth while others come and go: a listing    *)
(* fails, prints fewer names than were online when it began, or counts     *)
(* fewer than it has printed, only by as many as have left meanwhile; if   *)
(* nobody has left, it begins with exactly those who were online.          *)
ListingComplete ==
  \A r \in Requests :
    /\ pc[r] = "noSuchElement" => leavers[r] > 0
    /\ pc[r] \in {"count", "done"} =>
         /\ Len(printed[r]) + leavers[r] >= Len(listed[r])
         /\ leavers[r] = 0 =>
              SubSeq(printed[r], 1, Len(listed[r])) = listed[r]
    /\ pc[r] = "done" => userCount[r] + leavers[r] >= Len(printed[r])
=============================================================================
