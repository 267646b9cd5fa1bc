------------------------- MODULE LoginUserListProofs -------------------------
(***************************************************************************)
(* Proofs about LoginUserList for any finite sets of requests and sessions *)
(* and any names: the list is what the sessions say, in every order of     *)
(* logins, replacements and expiries, and whoever a listing misses has     *)
(* left while it was printed.                                              *)
(***************************************************************************)
EXTENDS LoginUserList, FiniteSetTheorems, SequenceTheorems,
        WellFoundedInduction, TLAPS

(* Every nonempty set of numbers has a smallest element. *)
LEMMA SmallestElement ==
  ASSUME NEW T, T \subseteq Nat, T # {}
  PROVE  \E m \in T : \A k \in T : m <= k
<1>1. IsWellFoundedOn(OpToRel(<, Nat), Nat)
  BY NatLessThanWellFounded
<1>2. PICK m \in T : \A k \in T : <<k, m>> \notin OpToRel(<, Nat)
  BY <1>1, WFMin, Zenon
<1>3. \A k \in T : ~(k < m)
  BY <1>2 DEF OpToRel
<1>4. QED
  BY <1>3

(* The terms of ListMatchesSessions. *)
Places(s, n) == {i \in DOMAIN s : s[i] = n}
Own(n) == {s \in Sessions : attribute[s] = n}
Storing(n) == {r \in Requests : pc[r] = "store" /\ name[r] = n}
Unbinding(n) == {r \in Requests : pc[r] = "unbind" /\ oldUser[r] = n}
Leaving(n) == IF expiring = n THEN 1 ELSE 0

(* An element more, an element less. *)
LEMMA OneMore ==
  ASSUME NEW S, IsFiniteSet(S), NEW x, x \notin S
  PROVE  IsFiniteSet(S \cup {x}) /\ Cardinality(S \cup {x}) = Cardinality(S) + 1
BY FS_AddElement

LEMMA OneLess ==
  ASSUME NEW S, IsFiniteSet(S), NEW x \in S
  PROVE  /\ IsFiniteSet(S \ {x}) /\ Cardinality(S \ {x}) = Cardinality(S) - 1
         /\ Cardinality(S) \in Nat /\ Cardinality(S) > 0
<1>1. Cardinality(S \ {x}) = Cardinality(S) - 1 /\ IsFiniteSet(S \ {x})
  BY FS_RemoveElement
<1>2. Cardinality(S) \in Nat /\ Cardinality(S \ {x}) \in Nat
  BY <1>1, FS_CardinalityType
<1>3. QED
  BY <1>1, <1>2

LEMMA PlacesFinite ==
  ASSUME NEW s \in Seq(Names), NEW n
  PROVE  IsFiniteSet(Places(s, n)) /\ Cardinality(Places(s, n)) \in Nat
<1>1. Len(s) \in Nat /\ Places(s, n) \in SUBSET (1 .. Len(s))
  BY DEF Places
<1>2. IsFiniteSet(1 .. Len(s))
  BY <1>1, FS_Interval
<1>3. QED
  BY <1>1, <1>2, FS_Subset, FS_CardinalityType

LEMMA PlacesAppended ==
  ASSUME NEW s \in Seq(Names), NEW m \in Names, NEW n
  PROVE  Cardinality(Places(Append(s, m), n)) =
           Cardinality(Places(s, n)) + (IF m = n THEN 1 ELSE 0)
<1> DEFINE k == Len(s) + 1
           a == Append(s, m)
<1>1. /\ Len(s) \in Nat /\ DOMAIN s = 1 .. Len(s) /\ DOMAIN a = 1 .. k
      /\ a[k] = m /\ \A i \in 1 .. Len(s) : a[i] = s[i]
  OBVIOUS
<1>2. k \notin Places(s, n) /\ \A i \in 1 .. k : i \in 1 .. Len(s) \/ i = k
  BY <1>1 DEF Places
<1> HIDE DEF a, k
<1>3. CASE m = n
  <2>1. Places(a, n) = Places(s, n) \cup {k}
    BY <1>1, <1>2, <1>3 DEF Places, k
  <2>2. QED
    BY <1>2, <1>3, <2>1, PlacesFinite, OneMore DEF a
<1>4. CASE m # n
  <2>1. Places(a, n) = Places(s, n)
    BY <1>1, <1>2, <1>4 DEF Places, k
  <2>2. QED
    BY <1>4, <2>1, PlacesFinite DEF a
<1>5. QED
  BY <1>3, <1>4

(* The list r is the list s without its i-th element. *)
Without(s, i, r) ==
  /\ i \in 1 .. Len(s) /\ r \in Seq(Names) /\ Len(r) = Len(s) - 1
  /\ \A j \in 1 .. i - 1 : r[j] = s[j]
  /\ \A j \in i .. Len(r) : r[j] = s[j + 1]

LEMMA PlacesWithout ==
  ASSUME NEW s \in Seq(Names), NEW i, NEW r, Without(s, i, r), NEW n
  PROVE  Cardinality(Places(r, n)) =
           Cardinality(Places(s, n)) - (IF s[i] = n THEN 1 ELSE 0)
<1>1. /\ Len(s) \in Nat /\ DOMAIN s = 1 .. Len(s) /\ i \in 1 .. Len(s)
      /\ r \in Seq(Names) /\ DOMAIN r = 1 .. Len(s) - 1
      /\ \A j \in 1 .. i - 1 : r[j] = s[j]
      /\ \A j \in i .. Len(s) - 1 : r[j] = s[j + 1]
  BY DEF Without
<1> DEFINE P == Places(s, n) \ {i}
           Q == Places(r, n)
           g == [j \in Q |-> IF j < i THEN j ELSE j + 1]
<1>2. \A j \in Q : j \in 1 .. Len(s) - 1 /\ r[j] = n
  BY <1>1 DEF Places
<1>3. g \in [Q -> P]
  <2> SUFFICES ASSUME NEW j \in Q PROVE (IF j < i THEN j ELSE j + 1) \in P
    OBVIOUS
  <2>1. CASE j < i
    BY <1>1, <1>2, <2>1 DEF Places
  <2>2. CASE ~(j < i)
    BY <1>1, <1>2, <2>2 DEF Places
  <2>3. QED
    BY <2>1, <2>2
<1>4. \A j, k \in Q : g[j] = g[k] => j = k
  BY <1>1, <1>2
<1>5. \A p \in P : \E j \in Q : g[j] = p
  <2> TAKE p \in P
  <2>1. p \in 1 .. Len(s) /\ s[p] = n /\ p # i
    BY <1>1 DEF Places
  <2>2. CASE p < i
    <3>1. p \in 1 .. Len(s) - 1 /\ r[p] = s[p]
      BY <1>1, <2>1, <2>2
    <3>2. p \in Q
      BY <1>1, <2>1, <3>1 DEF Places
    <3>3. g[p] = p
      BY <2>2, <3>2
    <3>4. QED
      BY <3>2, <3>3
  <2>3. CASE p > i
    <3>1. p - 1 \in i .. Len(s) - 1 /\ r[p - 1] = s[(p - 1) + 1] /\ (p - 1) + 1 = p
      BY <1>1, <2>1, <2>3
    <3>2. p - 1 \in Q
      BY <1>1, <2>1, <3>1 DEF Places
    <3>3. g[p - 1] = p
      BY <1>1, <2>1, <2>3, <3>2
    <3>4. QED
      BY <3>2, <3>3
  <2>4. QED
    BY <1>1, <2>1, <2>2, <2>3
<1> HIDE DEF g
<1>6. g \in Bijection(Q, P)
  BY <1>3, <1>4, <1>5 DEF Bijection, Injection, Surjection, IsInjective
<1>7. ExistsBijection(Q, P)
  BY <1>6 DEF ExistsBijection
<1>8. IsFiniteSet(Q)
  BY <1>1, PlacesFinite
<1>9. Cardinality(P) = Cardinality(Q)
  BY <1>7, <1>8, FS_Bijection
<1>10. IsFiniteSet(Places(s, n)) /\ Cardinality(Places(s, n)) \in Nat
  BY PlacesFinite
<1>11. CASE s[i] = n
  <2>1. i \in Places(s, n)
    BY <1>1, <1>11 DEF Places
  <2>2. Cardinality(P) = Cardinality(Places(s, n)) - 1
    BY <1>10, <2>1, OneLess
  <2>3. QED
    BY <1>9, <1>10, <1>11, <2>2
<1>12. CASE s[i] # n
  <2>1. P = Places(s, n)
    BY <1>12 DEF Places
  <2>2. Cardinality(P) = Cardinality(Places(s, n))
    BY <2>1, Zenon
  <2>3. QED
    BY <1>9, <1>10, <1>12, <2>2
<1>13. QED
  BY <1>11, <1>12

(* UserList.removeUser takes out one element that equals the name, if      *)
(* there is any.                                                           *)
LEMMA RemovedIsWithout ==
  ASSUME v \in Seq(Names), NEW n
  PROVE  \/ Places(v, n) = {} /\ Removed(n) = v
         \/ \E i \in Places(v, n) : Without(v, i, Removed(n))
<1>1. Len(v) \in Nat /\ DOMAIN v = 1 .. Len(v)
  OBVIOUS
<1>2. CASE Places(v, n) = {}
  BY <1>2 DEF Places, Removed
<1>3. CASE Places(v, n) # {}
  <2> DEFINE IsFirst(i) ==
        i \in DOMAIN v /\ v[i] = n /\ \A j \in 1 .. i - 1 : v[j] # n
             k == CHOOSE i \in DOMAIN v : v[i] = n /\ \A j \in 1 .. i - 1 : v[j] # n
  <2>1. PICK m \in Places(v, n) : \A j \in Places(v, n) : m <= j
    <3>1. Places(v, n) \subseteq Nat
      BY <1>1 DEF Places
    <3>2. QED
      BY <1>3, <3>1, SmallestElement
  <2>2. m \in DOMAIN v /\ v[m] = n /\ \A j \in 1 .. m - 1 : v[j] # n
    BY <1>1, <2>1 DEF Places
  <2>3. k \in DOMAIN v /\ v[k] = n
    BY <2>2
  <2> HIDE DEF k
  <2>4. k \in 1 .. Len(v) /\ k \in Places(v, n)
    BY <1>1, <2>3 DEF Places
  <2>5. Removed(n) = SubSeq(v, 1, k - 1) \o SubSeq(v, k + 1, Len(v))
    BY <2>3 DEF Removed, k
  <2> DEFINE a == SubSeq(v, 1, k - 1)
             b == SubSeq(v, k + 1, Len(v))
  <2>6. /\ a \in Seq(Names) /\ Len(a) = k - 1
        /\ \A j \in 1 .. k - 1 : a[j] = v[j]
    BY <1>1, <2>4
  <2>7. /\ b \in Seq(Names) /\ Len(b) = Len(v) - k
        /\ \A j \in 1 .. Len(v) - k : b[j] = v[k + j]
    <3>1. k + 1 \in Int /\ Len(v) \in Int /\ \A j \in k + 1 .. Len(v) : v[j] \in Names
      BY <1>1, <2>4
    <3>2. /\ b \in Seq(Names)
          /\ Len(b) = IF k + 1 <= Len(v) THEN Len(v) - (k + 1) + 1 ELSE 0
          /\ \A j \in 1 .. Len(v) - (k + 1) + 1 : b[j] = v[(k + 1) + j - 1]
      BY <3>1, SubSeqProperties
    <3> HIDE DEF b
    <3>3. Len(b) = Len(v) - k
      <4>1. Len(b) = IF k + 1 <= Len(v) THEN Len(v) - (k + 1) + 1 ELSE 0
        BY <3>2
      <4>2. Len(v) \in Nat /\ k \in Nat /\ k <= Len(v)
        BY <1>1, <2>4
      <4>3. QED
        BY <4>1, <4>2
    <3>4. ASSUME NEW j \in 1 .. Len(v) - k
          PROVE  b[j] = v[k + j]
      <4>1. j \in 1 .. Len(v) - (k + 1) + 1 /\ (k + 1) + j - 1 = k + j
        BY <1>1, <2>4
      <4>2. QED
        BY <3>2, <4>1
    <3>5. QED
      BY <3>2, <3>3, <3>4
  <2> HIDE DEF a, b
  <2>8. /\ a \o b \in Seq(Names) /\ Len(a \o b) = Len(v) - 1
        /\ \A j \in 1 .. k - 1 : (a \o b)[j] = v[j]
        /\ \A j \in k .. Len(v) - 1 : (a \o b)[j] = b[j - (k - 1)]
    <3>1. /\ a \o b \in Seq(Names) /\ Len(a \o b) = Len(a) + Len(b)
          /\ \A j \in 1 .. Len(a) + Len(b) :
               (a \o b)[j] = IF j <= Len(a) THEN a[j] ELSE b[j - Len(a)]
      BY <2>6, <2>7, ConcatProperties
    <3>2. Len(a) + Len(b) = Len(v) - 1
      BY <1>1, <2>4, <2>6, <2>7
    <3>3. \A j \in 1 .. k - 1 : (a \o b)[j] = a[j]
      BY <1>1, <2>4, <2>6, <3>1, <3>2
    <3>4. \A j \in k .. Len(v) - 1 : (a \o b)[j] = b[j - (k - 1)]
      BY <1>1, <2>4, <2>6, <3>1, <3>2
    <3>5. QED
      BY <2>6, <3>1, <3>2, <3>3, <3>4
  <2>9. \A j \in k .. Len(v) - 1 : b[j - (k - 1)] = v[j + 1]
    <3> TAKE j \in k .. Len(v) - 1
    <3>1. j - (k - 1) \in 1 .. Len(v) - k /\ k + (j - (k - 1)) = j + 1
      BY <1>1, <2>4
    <3>2. QED
      BY <2>7, <3>1
  <2>10. Without(v, k, a \o b)
    BY <2>4, <2>8, <2>9 DEF Without
  <2>11. QED
    BY <2>4, <2>5, <2>10 DEF a, b
<1>4. QED
  BY <1>2, <1>3
-----------------------------------------------------------------------------
(* TypeOK and ListMatchesSessions.                                         *)
LEMMA InitList == Init => TypeOK /\ ListMatchesSessions
<1> SUFFICES ASSUME Init PROVE TypeOK /\ ListMatchesSessions
  OBVIOUS
<1>1. TypeOK
  BY DEF Init, TypeOK
<1>2. ASSUME NEW n \in Names
      PROVE  /\ {i \in DOMAIN v : v[i] = n} = {}
             /\ {s \in Sessions : attribute[s] = n} = {}
             /\ {r \in Requests : pc[r] = "store" /\ name[r] = n} = {}
             /\ {r \in Requests : pc[r] = "unbind" /\ oldUser[r] = n} = {}
             /\ expiring # n
  BY NullAssumption DEF Init
<1>3. ListMatchesSessions
  BY <1>2, FS_EmptySet DEF ListMatchesSessions
<1>4. QED
  BY <1>1, <1>3

Balanced(n) ==
  Cardinality(Places(v, n)) =
    Cardinality(Own(n)) + Cardinality(Storing(n)) + Cardinality(Unbinding(n)) + Leaving(n)

LEMMA BalancedAll ==
  /\ ListMatchesSessions <=> \A n \in Names : Balanced(n)
  /\ (\A n \in Names : Balanced(n)') => ListMatchesSessions'
BY DEF ListMatchesSessions, Balanced, Places, Own, Storing, Unbinding, Leaving

LEMMA PeopleFinite ==
  ASSUME TypeOK, NEW n
  PROVE  /\ IsFiniteSet(Own(n)) /\ IsFiniteSet(Storing(n)) /\ IsFiniteSet(Unbinding(n))
         /\ Cardinality(Own(n)) \in Nat /\ Cardinality(Storing(n)) \in Nat
         /\ Cardinality(Unbinding(n)) \in Nat /\ Leaving(n) \in {0, 1}
         /\ Cardinality(Places(v, n)) \in Nat
<1>1. /\ Own(n) \in SUBSET Sessions /\ Storing(n) \in SUBSET Requests
      /\ Unbinding(n) \in SUBSET Requests
  BY DEF Own, Storing, Unbinding
<1>2. v \in Seq(Names)
  BY DEF TypeOK
<1>3. QED
  BY <1>1, <1>2, FS_Subset, FS_CardinalityType, PlacesFinite,
     PeopleAssumption DEF Leaving

(* Steps in which nobody comes or goes. *)
LEMMA NobodyMoves ==
  ASSUME ListMatchesSessions, UNCHANGED <<v, attribute, expiring, name, oldUser>>,
         \A r \in Requests : /\ pc'[r] = "store" <=> pc[r] = "store"
                             /\ pc'[r] = "unbind" <=> pc[r] = "unbind"
  PROVE  ListMatchesSessions'
BY DEF ListMatchesSessions

LEMMA ListingSteps ==
  ASSUME TypeOK, ListMatchesSessions, NEW r \in Requests,
         GetAttribute(r) \/ Elements(r) \/ HasMoreElements(r) \/ NextElement(r)
           \/ GetUserCount(r)
  PROVE  TypeOK' /\ ListMatchesSessions'
<1>1. /\ UNCHANGED <<v, attribute, expiring, session, name, oldUser, leavers>>
      /\ pc[r] \in {"new", "elements", "enumerate", "print", "count"}
      /\ \E l \in {"nullPointer", "bind", "elements", "enumerate", "print", "count",
                   "noSuchElement", "done"} : pc' = [pc EXCEPT ![r] = l]
  BY DEF GetAttribute, Elements, HasMoreElements, NextElement, GetUserCount,
         Goto, requestVars
<1>2. \A q \in Requests : /\ pc'[q] = "store" <=> pc[q] = "store"
                          /\ pc'[q] = "unbind" <=> pc[q] = "unbind"
  BY <1>1 DEF TypeOK
<1>3. ListMatchesSessions'
  BY <1>1, <1>2, NobodyMoves
<1>4. TypeOK'
  <2>1. /\ printed' \in [Requests -> Seq(Names)] /\ listed' \in [Requests -> Seq(Names)]
        /\ userCount' \in [Requests -> Nat]
    <3>1. CASE GetAttribute(r) \/ HasMoreElements(r)
      BY <3>1 DEF GetAttribute, HasMoreElements, requestVars, TypeOK
    <3>2. CASE Elements(r)
      BY <3>2 DEF Elements, TypeOK
    <3>3. CASE NextElement(r)
      <4>1. CASE UNCHANGED printed
        BY <3>3, <4>1 DEF NextElement, TypeOK
      <4>2. CASE Len(printed[r]) + 1 <= Len(v)
                 /\ printed' = [printed EXCEPT ![r] = Append(@, v[Len(printed[r]) + 1])]
        <5>1. printed[r] \in Seq(Names) /\ v[Len(printed[r]) + 1] \in Names
          BY <4>2 DEF TypeOK
        <5>2. Append(printed[r], v[Len(printed[r]) + 1]) \in Seq(Names)
          BY <5>1
        <5>3. QED
          BY <3>3, <4>2, <5>2 DEF NextElement, TypeOK
      <4>3. QED
        BY <3>3, <4>1, <4>2 DEF NextElement
    <3>4. CASE GetUserCount(r)
      <4>1. Len(v) \in Nat
        BY DEF TypeOK
      <4>2. QED
        BY <3>4, <4>1 DEF GetUserCount, TypeOK
    <3>5. QED
      BY <3>1, <3>2, <3>3, <3>4
  <2>2. QED
    BY <1>1, <2>1 DEF TypeOK
<1>5. QED
  BY <1>3, <1>4

(* The name is in the list before the session has the user. *)
LEMMA BoundStep ==
  ASSUME TypeOK, ListMatchesSessions, NEW r \in Requests, ValueBound(r)
  PROVE  TypeOK' /\ ListMatchesSessions'
<1>1. /\ UNCHANGED <<attribute, expiring, session, name, oldUser, printed,
                     userCount, listed, leavers>>
      /\ pc[r] = "bind" /\ pc' = [pc EXCEPT ![r] = "store"]
      /\ v' = IF name[r] # Null THEN Append(v, name[r]) ELSE v
  BY DEF ValueBound, AddUser, IsName, Added, Goto, requestVars
<1>2. v' \in Seq(Names)
  BY <1>1 DEF TypeOK
<1>3. TypeOK'
  BY <1>1, <1>2 DEF TypeOK
<1>4. ASSUME NEW n \in Names
      PROVE  Balanced(n)'
  <2>1. Own(n)' = Own(n) /\ Unbinding(n)' = Unbinding(n) /\ Leaving(n)' = Leaving(n)
    BY <1>1 DEF Own, Unbinding, Leaving, TypeOK
  <2>2. Balanced(n)
    BY BalancedAll
  <2>3. CASE name[r] = n
    <3>1. Storing(n)' = Storing(n) \cup {r} /\ r \notin Storing(n)
      BY <1>1, <2>3 DEF Storing, TypeOK
    <3>2. Cardinality(Storing(n)') = Cardinality(Storing(n)) + 1
      BY <3>1, PeopleFinite, OneMore
    <3>3. v' = Append(v, n) /\ v \in Seq(Names)
      BY <1>1, <2>3, NullAssumption DEF TypeOK
    <3>4. Cardinality(Places(v', n)) = Cardinality(Places(v, n)) + 1
      BY <3>3, PlacesAppended
    <3>5. QED
      BY <2>1, <2>2, <3>2, <3>4, PeopleFinite DEF Balanced
  <2>4. CASE name[r] # n
    <3>1. Storing(n)' = Storing(n)
      BY <1>1, <2>4 DEF Storing, TypeOK
    <3>2. Cardinality(Places(v', n)) = Cardinality(Places(v, n))
      <4>1. v \in Seq(Names) /\ (name[r] # Null => name[r] \in Names)
        BY DEF TypeOK
      <4>2. CASE name[r] # Null
        <5>1. Cardinality(Places(Append(v, name[r]), n)) = Cardinality(Places(v, n)) + 0
          BY <2>4, <4>1, <4>2, PlacesAppended
        <5>2. QED
          BY <1>1, <4>2, <5>1, PeopleFinite
      <4>3. CASE name[r] = Null
        BY <1>1, <4>3
      <4>4. QED
        BY <4>2, <4>3
    <3>3. QED
      BY <2>1, <2>2, <3>1, <3>2 DEF Balanced
  <2>5. QED
    BY <2>3, <2>4
<1>5. QED
  BY <1>3, <1>4, BalancedAll

(* The session's old user is exchanged for the new one. *)
LEMMA StoreStep ==
  ASSUME TypeOK, ListMatchesSessions, NEW r \in Requests, StoreAttribute(r)
  PROVE  TypeOK' /\ ListMatchesSessions'
<1> DEFINE s == session[r]
           old == attribute[s]
<1>1. /\ UNCHANGED <<v, expiring, session, name, printed, userCount, listed, leavers>>
      /\ pc[r] = "store"
      /\ pc' = [pc EXCEPT ![r] = IF old = NoUser THEN "elements" ELSE "unbind"]
      /\ attribute' = [attribute EXCEPT ![s] = name[r]]
      /\ oldUser' = [oldUser EXCEPT ![r] = old]
  BY DEF StoreAttribute, Goto
<1>2. s \in Sessions /\ old \in Names \cup {Null, NoUser} /\ name[r] \in Names \cup {Null}
  BY DEF TypeOK
<1> HIDE DEF s, old
<1>3. TypeOK'
  BY <1>1, <1>2 DEF TypeOK
<1>4. ASSUME NEW n \in Names
      PROVE  Balanced(n)'
  <2>1. v' = v /\ Leaving(n)' = Leaving(n) /\ n # NoUser
    BY <1>1, NullAssumption DEF Leaving
  <2>2. Balanced(n)
    BY BalancedAll
  <2>3. old = n <=> s \in Own(n)
    BY <1>2 DEF Own, old
  <2>4. Own(n)' = (Own(n) \ {s}) \cup (IF name[r] = n THEN {s} ELSE {})
    BY <1>1, <1>2 DEF Own, TypeOK
  <2>5. Cardinality(Own(n)') = Cardinality(Own(n)) - (IF old = n THEN 1 ELSE 0)
                                 + (IF name[r] = n THEN 1 ELSE 0)
    <3>1. /\ IsFiniteSet(Own(n) \ {s})
          /\ Cardinality(Own(n) \ {s}) = Cardinality(Own(n)) - (IF old = n THEN 1 ELSE 0)
          /\ Cardinality(Own(n) \ {s}) \in Nat
      <4>1. CASE old = n
        BY <2>3, <4>1, PeopleFinite, OneLess, FS_CardinalityType
      <4>2. CASE old # n
        <5>1. Own(n) \ {s} = Own(n)
          BY <2>3, <4>2
        <5>2. QED
          BY <4>2, <5>1, PeopleFinite
      <4>3. QED
        BY <4>1, <4>2
    <3>2. CASE name[r] = n
      <4>1. Own(n)' = (Own(n) \ {s}) \cup {s}
        BY <2>4, <3>2
      <4>2. Cardinality((Own(n) \ {s}) \cup {s}) = Cardinality(Own(n) \ {s}) + 1
        BY <3>1, OneMore
      <4>3. QED
        BY <3>1, <3>2, <4>1, <4>2
    <3>3. CASE name[r] # n
      <4>1. Own(n)' = Own(n) \ {s}
        BY <2>4, <3>3
      <4>2. QED
        BY <3>1, <3>3, <4>1
    <3>4. QED
      BY <3>2, <3>3
  <2>6. Cardinality(Storing(n)') = Cardinality(Storing(n)) - (IF name[r] = n THEN 1 ELSE 0)
    <3>1. Storing(n)' = Storing(n) \ {r}
      BY <1>1 DEF Storing, TypeOK
    <3>2. CASE name[r] = n
      <4>1. r \in Storing(n)
        BY <1>1, <3>2 DEF Storing
      <4>2. QED
        BY <3>1, <3>2, <4>1, PeopleFinite, OneLess
    <3>3. CASE name[r] # n
      <4>1. Storing(n)' = Storing(n)
        BY <3>1, <3>3 DEF Storing
      <4>2. QED
        BY <3>3, <4>1, PeopleFinite
    <3>4. QED
      BY <3>2, <3>3
  <2>7. Cardinality(Unbinding(n)') = Cardinality(Unbinding(n)) + (IF old = n THEN 1 ELSE 0)
    <3>1. r \notin Unbinding(n)
      BY <1>1 DEF Unbinding
    <3>2. CASE old = n
      <4>1. Unbinding(n)' = Unbinding(n) \cup {r}
        BY <1>1, <2>1, <3>2 DEF Unbinding, TypeOK
      <4>2. QED
        BY <3>1, <3>2, <4>1, PeopleFinite, OneMore
    <3>3. CASE old # n
      <4>1. Unbinding(n)' = Unbinding(n)
        BY <1>1, <3>1, <3>3 DEF Unbinding, TypeOK
      <4>2. QED
        BY <3>3, <4>1, PeopleFinite
    <3>4. QED
      BY <3>2, <3>3
  <2>8. QED
    BY <2>1, <2>2, <2>5, <2>6, <2>7, PeopleFinite DEF Balanced
<1>5. QED
  BY <1>3, <1>4, BalancedAll

(* What removing a name does to the list and to the listings: it takes out *)
(* one element, or the name is not in the list.                            *)
TakenOut(i) ==
  /\ Without(v, i, v')
  /\ leavers' = [r \in Requests |-> leavers[r] + IF Listing(r) THEN 1 ELSE 0]

LEMMA RemovedOrNot ==
  ASSUME TypeOK, NEW n \in Names \cup {Null, NoUser}, RemoveUser(n)
  PROVE  \/ UNCHANGED <<v, leavers>> /\ (n \in Names => Places(v, n) = {})
         \/ n \in Names /\ \E i \in Places(v, n) : TakenOut(i)
<1>1. /\ v \in Seq(Names) /\ leavers \in [Requests -> Nat]
      /\ v' = IF n # Null THEN Removed(n) ELSE v
      /\ leavers' = [r \in Requests |->
                       leavers[r] + IF Listing(r) THEN Len(v) - Len(v') ELSE 0]
  BY DEF TypeOK, RemoveUser, IsName
<1>2. CASE v' = v /\ (n \in Names => Places(v, n) = {})
  <2>1. Len(v) - Len(v') = 0
    BY <1>1, <1>2
  <2>2. leavers' = leavers
    BY <1>1, <2>1
  <2>3. QED
    BY <1>2, <2>2
<1>3. ASSUME n # Null, NEW i \in Places(v, n), Without(v, i, Removed(n))
      PROVE  n \in Names /\ TakenOut(i)
  <2>1. Without(v, i, v')
    BY <1>1, <1>3
  <2>2. Len(v) \in Nat /\ Len(v') = Len(v) - 1
    BY <1>1, <2>1 DEF Without
  <2>3. Len(v) - Len(v') = 1
    BY <2>2
  <2>4. leavers' = [r \in Requests |-> leavers[r] + IF Listing(r) THEN 1 ELSE 0]
    BY <1>1, <2>3
  <2>5. n \in Names
    BY <1>1 DEF Places
  <2>6. QED
    BY <2>1, <2>4, <2>5 DEF TakenOut
<1>4. QED
  BY <1>1, <1>2, <1>3, RemovedIsWithout, NullAssumption

LEMMA RemovedTypes ==
  ASSUME TypeOK, NEW n \in Names \cup {Null, NoUser}, RemoveUser(n)
  PROVE  v' \in Seq(Names) /\ leavers' \in [Requests -> Nat]
<1>1. CASE UNCHANGED <<v, leavers>>
  BY <1>1 DEF TypeOK
<1>2. ASSUME NEW i, TakenOut(i)
      PROVE  v' \in Seq(Names) /\ leavers' \in [Requests -> Nat]
  BY <1>2 DEF TakenOut, Without, TypeOK
<1>3. QED
  BY <1>1, <1>2, RemovedOrNot

(* Its name is one of those in the list: no other is taken out.            *)
LEMMA RemovedPlaces ==
  ASSUME TypeOK, NEW n \in Names \cup {Null, NoUser}, RemoveUser(n),
         NEW m \in Names, n = m => Cardinality(Places(v, m)) > 0
  PROVE  Cardinality(Places(v', m)) =
           Cardinality(Places(v, m)) - (IF n = m THEN 1 ELSE 0)
<1>1. v \in Seq(Names) /\ Cardinality(Places(v, m)) \in Nat
  BY PlacesFinite DEF TypeOK
<1>2. CASE UNCHANGED <<v, leavers>> /\ (n \in Names => Places(v, n) = {})
  <2>1. n # m
    BY <1>2, FS_EmptySet
  <2>2. QED
    BY <1>1, <1>2, <2>1
<1>3. ASSUME NEW i \in Places(v, n), TakenOut(i)
      PROVE  Cardinality(Places(v', m)) =
               Cardinality(Places(v, m)) - (IF n = m THEN 1 ELSE 0)
  <2>1. v[i] = n
    BY DEF Places
  <2>2. Without(v, i, v')
    BY <1>3 DEF TakenOut
  <2>3. QED
    BY <1>1, <2>1, <2>2, PlacesWithout
<1>4. QED
  BY <1>2, <1>3, RemovedOrNot

(* The old user's name leaves the list after the session has lost it.      *)
LEMMA UnboundStep ==
  ASSUME TypeOK, ListMatchesSessions, NEW r \in Requests, ValueUnbound(r)
  PROVE  TypeOK' /\ ListMatchesSessions'
<1> DEFINE old == oldUser[r]
<1>1. /\ UNCHANGED <<attribute, expiring, session, name, printed, userCount, listed>>
      /\ pc[r] = "unbind" /\ pc' = [pc EXCEPT ![r] = "elements"]
      /\ oldUser' = [oldUser EXCEPT ![r] = NoUser]
      /\ RemoveUser(old)
  BY DEF ValueUnbound, Goto
<1>2. old \in Names \cup {Null, NoUser}
  BY DEF TypeOK
<1> HIDE DEF old
<1>3. TypeOK'
  BY <1>1, <1>2, RemovedTypes DEF TypeOK
<1>4. ASSUME NEW n \in Names
      PROVE  Balanced(n)'
  <2>1. Own(n)' = Own(n) /\ Storing(n)' = Storing(n) /\ Leaving(n)' = Leaving(n)
    BY <1>1 DEF Own, Storing, Leaving, TypeOK
  <2>2. Balanced(n)
    BY BalancedAll
  <2>3. Unbinding(n)' = Unbinding(n) \ {r}
    BY <1>1 DEF Unbinding, TypeOK
  <2>4. r \in Unbinding(n) <=> old = n
    BY <1>1 DEF Unbinding, old
  <2>5. old = n => Cardinality(Places(v, n)) > 0
    <3>1. CASE old = n
      <4>1. Cardinality(Unbinding(n)) > 0
        BY <2>4, <3>1, PeopleFinite, OneLess
      <4>2. QED
        BY <2>2, <4>1, PeopleFinite DEF Balanced
    <3>2. QED
      BY <3>1
  <2>6. Cardinality(Unbinding(n)') = Cardinality(Unbinding(n)) - (IF old = n THEN 1 ELSE 0)
    <3>1. CASE old = n
      BY <2>3, <2>4, <3>1, PeopleFinite, OneLess
    <3>2. CASE old # n
      <4>1. Unbinding(n)' = Unbinding(n)
        BY <2>3, <2>4, <3>2
      <4>2. QED
        BY <3>2, <4>1, PeopleFinite
    <3>3. QED
      BY <3>1, <3>2
  <2>7. Cardinality(Places(v', n)) = Cardinality(Places(v, n)) - (IF old = n THEN 1 ELSE 0)
    BY <1>1, <1>2, <2>5, RemovedPlaces
  <2>8. QED
    BY <2>1, <2>2, <2>6, <2>7, PeopleFinite DEF Balanced
<1>5. QED
  BY <1>3, <1>4, BalancedAll

(* A session expires: first it loses its user, then the list its name.     *)
LEMMA ExpireStep ==
  ASSUME TypeOK, ListMatchesSessions, NEW s \in Sessions, Expire(s)
  PROVE  TypeOK' /\ ListMatchesSessions'
<1> DEFINE a == attribute[s]
<1>1. /\ UNCHANGED <<v, pc, session, name, oldUser, printed, userCount, listed, leavers>>
      /\ expiring = NoUser /\ expiring' = a
      /\ attribute' = [attribute EXCEPT ![s] = NoUser]
  BY DEF Expire, requestVars
<1>2. a \in Names \cup {Null, NoUser}
  BY DEF TypeOK
<1> HIDE DEF a
<1>3. TypeOK'
  <2>1. a \in Names \cup {Null, NoUser} /\ NoUser \in Names \cup {Null, NoUser}
    BY <1>2
  <2>2. attribute' \in [Sessions -> Names \cup {Null, NoUser}]
    BY <1>1, <2>1 DEF TypeOK
  <2>3. QED
    BY <1>1, <2>1, <2>2 DEF TypeOK
<1>4. ASSUME NEW n \in Names
      PROVE  Balanced(n)'
  <2>1. /\ v' = v /\ Storing(n)' = Storing(n) /\ Unbinding(n)' = Unbinding(n)
        /\ n # NoUser
    BY <1>1, NullAssumption DEF Storing, Unbinding
  <2>2. Balanced(n)
    BY BalancedAll
  <2>3. Own(n)' = Own(n) \ {s} /\ (s \in Own(n) <=> a = n)
    BY <1>1, <2>1 DEF Own, TypeOK, a
  <2>4. Cardinality(Own(n)') = Cardinality(Own(n)) - (IF a = n THEN 1 ELSE 0)
    <3>1. CASE a = n
      BY <2>3, <3>1, PeopleFinite, OneLess
    <3>2. CASE a # n
      <4>1. Own(n)' = Own(n)
        BY <2>3, <3>2
      <4>2. QED
        BY <3>2, <4>1, PeopleFinite
    <3>3. QED
      BY <3>1, <3>2
  <2>5. Leaving(n) = 0 /\ Leaving(n)' = (IF a = n THEN 1 ELSE 0)
    BY <1>1, <2>1 DEF Leaving
  <2>6. QED
    BY <2>1, <2>2, <2>4, <2>5, PeopleFinite DEF Balanced
<1>5. QED
  BY <1>3, <1>4, BalancedAll

LEMMA ExpiredStep ==
  ASSUME TypeOK, ListMatchesSessions, Expired
  PROVE  TypeOK' /\ ListMatchesSessions'
<1>1. /\ UNCHANGED <<attribute, pc, session, name, oldUser, printed, userCount, listed>>
      /\ expiring # NoUser /\ expiring' = NoUser
      /\ RemoveUser(expiring) /\ expiring \in Names \cup {Null, NoUser}
  BY DEF Expired, requestVars, TypeOK
<1>2. TypeOK'
  BY <1>1, RemovedTypes DEF TypeOK
<1>3. ASSUME NEW n \in Names
      PROVE  Balanced(n)'
  <2>1. /\ Own(n)' = Own(n) /\ Storing(n)' = Storing(n) /\ Unbinding(n)' = Unbinding(n)
        /\ Leaving(n)' = 0
    BY <1>1, NullAssumption DEF Own, Storing, Unbinding, Leaving
  <2>2. Balanced(n)
    BY BalancedAll
  <2>3. expiring = n => Cardinality(Places(v, n)) > 0
    BY <2>2, PeopleFinite DEF Balanced, Leaving
  <2>4. Cardinality(Places(v', n)) = Cardinality(Places(v, n)) - (IF expiring = n THEN 1 ELSE 0)
    BY <1>1, <2>3, RemovedPlaces
  <2>5. QED
    BY <2>1, <2>2, <2>4, PeopleFinite DEF Balanced, Leaving
<1>4. QED
  BY <1>2, <1>3, BalancedAll

LEMMA ListInv == Spec => [](TypeOK /\ ListMatchesSessions)
<1>1. Init => TypeOK /\ ListMatchesSessions
  BY InitList
<1>2. TypeOK /\ ListMatchesSessions /\ [Next]_vars => TypeOK' /\ ListMatchesSessions'
  <2> SUFFICES ASSUME TypeOK, ListMatchesSessions, [Next]_vars
               PROVE  TypeOK' /\ ListMatchesSessions'
    OBVIOUS
  <2>1. CASE \E r \in Requests : DoGet(r)
    BY <2>1, ListingSteps, BoundStep, StoreStep, UnboundStep DEF DoGet
  <2>2. CASE \E s \in Sessions : Expire(s)
    BY <2>2, ExpireStep
  <2>3. CASE Expired
    BY <2>3, ExpiredStep
  <2>4. CASE UNCHANGED vars
    <3>1. UNCHANGED <<v, attribute, expiring, pc, session, name, oldUser, printed,
                      userCount, listed, leavers>>
      BY <2>4 DEF vars, requestVars
    <3>2. TypeOK'
      BY <3>1 DEF TypeOK
    <3>3. QED
      BY <3>1, <3>2, NobodyMoves
  <2>5. QED
    BY <2>1, <2>2, <2>3, <2>4 DEF Next
<1>3. QED
  BY <1>1, <1>2, PTL DEF Spec

(* Whatever requests, expiries and logins interleave, the variables keep   *)
(* their types; null never is in the list.                                 *)
THEOREM ListTypes == Spec => []TypeOK
BY ListInv, PTL

(* Each name is in the list as often as sessions have a user of that name, *)
(* users on their way in or out counted: for any number of requests,       *)
(* sessions and names.                                                     *)
THEOREM NobodyVanishes == Spec => []ListMatchesSessions
BY ListInv, PTL
-----------------------------------------------------------------------------
(* The inductive invariant behind ListingComplete, for one request.  While *)
(* it enumerates, whoever is missing from the list, or from what it has    *)
(* printed, has left; and as long as nobody has left, both the list it     *)
(* began with and what it has printed are the head of the list there is.   *)
ListingOf(r) ==
  /\ pc[r] \in {"new", "bind", "store", "unbind", "elements", "nullPointer"} =>
       printed[r] = <<>> /\ leavers[r] = 0
  /\ Listing(r) =>
       /\ Len(v) + leavers[r] >= Len(listed[r])
       /\ Len(v) + leavers[r] >= Len(printed[r])
       /\ leavers[r] = 0 =>
            /\ \A i \in 1 .. Len(listed[r]) : v[i] = listed[r][i]
            /\ \A i \in 1 .. Len(printed[r]) : printed[r][i] = v[i]
  /\ pc[r] = "print" => Len(v) + leavers[r] > Len(printed[r])
  /\ pc[r] = "noSuchElement" => leavers[r] > 0
  /\ pc[r] \in {"count", "done"} =>
       /\ Len(printed[r]) + leavers[r] >= Len(listed[r])
       /\ leavers[r] = 0 =>
            \A i \in 1 .. Len(listed[r]) : printed[r][i] = listed[r][i]
  /\ pc[r] = "done" => userCount[r] + leavers[r] >= Len(printed[r])

ListingInv == \A r \in Requests : ListingOf(r)

LEMMA InitListing == Init => ListingInv
BY DEF Init, ListingInv, ListingOf, Listing

(* What may happen to the list under an enumeration: names come at its end *)
(* or one of them leaves.                                                  *)
Grows ==
  /\ UNCHANGED leavers
  /\ Len(v') >= Len(v) /\ \A i \in 1 .. Len(v) : v'[i] = v[i]

Shrinks ==
  /\ Len(v') = Len(v) - 1
  /\ leavers' = [r \in Requests |-> leavers[r] + IF Listing(r) THEN 1 ELSE 0]

LEMMA Lengths ==
  ASSUME TypeOK, NEW r \in Requests
  PROVE  /\ Len(v) \in Nat /\ Len(printed[r]) \in Nat /\ Len(listed[r]) \in Nat
         /\ leavers[r] \in Nat /\ userCount[r] \in Nat
<1>1. v \in Seq(Names) /\ printed[r] \in Seq(Names) /\ listed[r] \in Seq(Names)
  BY DEF TypeOK
<1>2. QED
  BY <1>1 DEF TypeOK

(* A request is not disturbed by what others do to the list.               *)
LEMMA Undisturbed ==
  ASSUME TypeOK, TypeOK', NEW r \in Requests, ListingOf(r), Grows \/ Shrinks,
         pc'[r] = pc[r], printed'[r] = printed[r], listed'[r] = listed[r],
         userCount'[r] = userCount[r]
  PROVE  ListingOf(r)'
<1>1. /\ Len(v) \in Nat /\ Len(v') \in Nat /\ Len(printed[r]) \in Nat
      /\ Len(listed[r]) \in Nat /\ leavers[r] \in Nat /\ userCount[r] \in Nat
  <2>1. v' \in Seq(Names)
    BY DEF TypeOK
  <2>2. QED
    BY <2>1, Lengths
<1>2. CASE Listing(r)
  <2>1. CASE Grows
    BY <1>1, <1>2, <2>1 DEF Grows, ListingOf, Listing
  <2>2. CASE Shrinks
    <3>1. leavers'[r] = leavers[r] + 1 /\ Len(v') = Len(v) - 1
      BY <1>2, <2>2 DEF Shrinks
    <3>2. leavers[r] + 1 > 0 /\ (Len(v) - 1) + (leavers[r] + 1) = Len(v) + leavers[r]
      <4>1. leavers[r] \in Nat /\ Len(v) \in Nat
        BY <1>1
      <4>2. QED
        BY <4>1
    <3>3. /\ Len(v) + leavers[r] >= Len(listed[r])
          /\ Len(v) + leavers[r] >= Len(printed[r])
          /\ pc[r] = "print" => Len(v) + leavers[r] > Len(printed[r])
          /\ pc[r] = "count" => Len(printed[r]) + leavers[r] >= Len(listed[r])
          /\ pc[r] \in {"enumerate", "print", "count"}
      BY <1>2 DEF ListingOf, Listing
    <3>4. pc[r] = "count" => Len(printed[r]) + (leavers[r] + 1) >= Len(listed[r])
      <4>1. /\ Len(printed[r]) \in Nat /\ leavers[r] \in Nat /\ Len(listed[r]) \in Nat
        BY <1>1
      <4>2. QED
        BY <3>3, <4>1
    <3>5. leavers'[r] > 0 /\ leavers'[r] # 0 /\ Len(v') + leavers'[r] = Len(v) + leavers[r]
      BY <1>1, <3>1, <3>2
    <3>6. QED
      BY <3>1, <3>3, <3>4, <3>5 DEF ListingOf, Listing
  <2>3. QED
    BY <2>1, <2>2
<1>3. CASE ~Listing(r)
  <2>1. leavers'[r] = leavers[r]
    BY <1>1, <1>3 DEF Grows, Shrinks
  <2>2. QED
    BY <1>3, <2>1 DEF ListingOf, Listing
<1>4. QED
  BY <1>2, <1>3

LEMMA AddedGrows ==
  ASSUME TypeOK, NEW n \in Names \cup {Null}, AddUser(n), UNCHANGED leavers
  PROVE  Grows
<1>1. v \in Seq(Names) /\ v' = IF n # Null THEN Append(v, n) ELSE v
  BY DEF TypeOK, AddUser, IsName, Added
<1>2. CASE n = Null
  BY <1>1, <1>2 DEF Grows
<1>3. CASE n # Null
  <2>1. n \in Names /\ v' = Append(v, n)
    BY <1>1, <1>3
  <2>2. Len(v') = Len(v) + 1 /\ \A i \in 1 .. Len(v) : v'[i] = v[i]
    BY <1>1, <2>1
  <2>3. QED
    BY <1>1, <2>2 DEF Grows
<1>4. QED
  BY <1>2, <1>3

LEMMA RemovedShrinks ==
  ASSUME TypeOK, NEW n \in Names \cup {Null, NoUser}, RemoveUser(n)
  PROVE  Grows \/ Shrinks
<1>1. CASE UNCHANGED <<v, leavers>>
  <2>1. Len(v) \in Nat
    BY DEF TypeOK
  <2>2. QED
    BY <1>1, <2>1 DEF Grows
<1>2. ASSUME NEW i, TakenOut(i) PROVE Shrinks
  BY <1>2 DEF TakenOut, Without, Shrinks
<1>3. QED
  BY <1>1, <1>2, RemovedOrNot

(* Logging in and out, a request goes on with nothing printed.             *)
LEMMA ArrivalListing ==
  ASSUME TypeOK, TypeOK', ListingInv, NEW r \in Requests,
         GetAttribute(r) \/ ValueBound(r) \/ StoreAttribute(r) \/ ValueUnbound(r)
  PROVE  ListingInv'
<1>1. /\ UNCHANGED <<printed, listed, userCount>>
      /\ pc[r] \in {"new", "bind", "store", "unbind"}
      /\ \E l \in {"nullPointer", "bind", "store", "unbind", "elements"} :
           pc' = [pc EXCEPT ![r] = l]
  BY DEF GetAttribute, ValueBound, StoreAttribute, ValueUnbound, Goto, requestVars
<1>2. Grows \/ Shrinks
  <2>1. CASE GetAttribute(r) \/ StoreAttribute(r)
    <3>1. UNCHANGED <<v, leavers>> /\ Len(v) \in Nat
      BY <2>1 DEF GetAttribute, StoreAttribute, TypeOK
    <3>2. QED
      BY <3>1 DEF Grows
  <2>2. CASE ValueBound(r)
    BY <2>2, AddedGrows DEF ValueBound, TypeOK
  <2>3. CASE ValueUnbound(r)
    BY <2>3, RemovedShrinks DEF ValueUnbound, TypeOK
  <2>4. QED
    BY <2>1, <2>2, <2>3
<1>3. ASSUME NEW q \in Requests, q # r PROVE ListingOf(q)'
  <2>1. pc'[q] = pc[q] /\ ListingOf(q)
    BY <1>1, <1>3 DEF TypeOK, ListingInv
  <2>2. QED
    BY <1>1, <1>2, <2>1, Undisturbed
<1>4. ListingOf(r)'
  <2>1. printed[r] = <<>> /\ leavers[r] = 0 /\ ListingOf(r)
    BY <1>1 DEF ListingInv, ListingOf
  <2>2. leavers'[r] = leavers[r]
    BY <1>1, <1>2, <2>1 DEF Grows, Shrinks, Listing
  <2>3. pc'[r] \in {"nullPointer", "bind", "store", "unbind", "elements"}
    BY <1>1 DEF TypeOK
  <2>4. QED
    BY <1>1, <2>1, <2>2, <2>3 DEF ListingOf, Listing
<1>5. QED
  BY <1>3, <1>4 DEF ListingInv

LEMMA ElementsListing ==
  ASSUME TypeOK, TypeOK', ListingInv, NEW r \in Requests, Elements(r)
  PROVE  ListingOf(r)'
<1>1. /\ UNCHANGED <<v, leavers, printed>> /\ pc'[r] = "enumerate" /\ listed'[r] = v
      /\ pc[r] = "elements"
  BY DEF Elements, Goto, TypeOK
<1>2. printed[r] = <<>> /\ leavers[r] = 0
  BY <1>1 DEF ListingInv, ListingOf
<1>3. Len(v) \in Nat
  BY Lengths
<1>4. QED
  BY <1>1, <1>2, <1>3 DEF ListingOf, Listing

(* hasMoreElements was right if nobody has left since.                     *)
LEMMA HasMoreListing ==
  ASSUME TypeOK, TypeOK', ListingInv, NEW r \in Requests, HasMoreElements(r)
  PROVE  ListingOf(r)'
<1>1. /\ UNCHANGED <<v, leavers, printed, listed, userCount>> /\ pc[r] = "enumerate"
      /\ pc'[r] = IF Len(printed[r]) < Len(v) THEN "print" ELSE "count"
  BY DEF HasMoreElements, Goto, TypeOK, requestVars
<1>2. /\ Len(v) \in Nat /\ Len(printed[r]) \in Nat /\ Len(listed[r]) \in Nat
      /\ leavers[r] \in Nat
  BY Lengths
<1>3. /\ Len(v) + leavers[r] >= Len(listed[r])
      /\ Len(v) + leavers[r] >= Len(printed[r])
      /\ leavers[r] = 0 =>
            /\ \A i \in 1 .. Len(listed[r]) : v[i] = listed[r][i]
            /\ \A i \in 1 .. Len(printed[r]) : printed[r][i] = v[i]
  BY <1>1 DEF ListingInv, ListingOf, Listing
<1>4. CASE Len(printed[r]) < Len(v)
  BY <1>1, <1>2, <1>3, <1>4 DEF ListingOf, Listing
<1>5. CASE ~(Len(printed[r]) < Len(v))
  <2>1. Len(printed[r]) + leavers[r] >= Len(listed[r])
    BY <1>2, <1>3, <1>5
  <2>2. ASSUME leavers[r] = 0, NEW i \in 1 .. Len(listed[r])
        PROVE  printed[r][i] = listed[r][i]
    <3>1. i \in 1 .. Len(printed[r])
      BY <1>2, <2>1, <2>2
    <3>2. QED
      BY <1>3, <2>2, <3>1
  <2>3. pc'[r] = "count"
    BY <1>1, <1>5
  <2>4. QED
    BY <1>1, <1>3, <2>1, <2>2, <2>3 DEF ListingOf, Listing
<1>6. QED
  BY <1>4, <1>5

(* nextElement finds nothing only if somebody has left.                    *)
LEMMA NextElementListing ==
  ASSUME TypeOK, TypeOK', ListingInv, NEW r \in Requests, NextElement(r)
  PROVE  ListingOf(r)'
<1> DEFINE i == Len(printed[r]) + 1
<1>1. UNCHANGED <<v, leavers, listed, userCount>> /\ pc[r] = "print"
  BY DEF NextElement
<1>2. /\ Len(v) \in Nat /\ Len(printed[r]) \in Nat /\ Len(listed[r]) \in Nat
      /\ leavers[r] \in Nat /\ printed[r] \in Seq(Names)
  BY Lengths DEF TypeOK
<1>3. /\ Len(v) + leavers[r] >= Len(listed[r])
      /\ Len(v) + leavers[r] > Len(printed[r])
      /\ leavers[r] = 0 =>
            /\ \A j \in 1 .. Len(listed[r]) : v[j] = listed[r][j]
            /\ \A j \in 1 .. Len(printed[r]) : printed[r][j] = v[j]
  BY <1>1 DEF ListingInv, ListingOf, Listing
<1>4. CASE i <= Len(v) /\ Goto(r, "enumerate")
           /\ printed' = [printed EXCEPT ![r] = Append(@, v[i])]
  <2>1. pc'[r] = "enumerate" /\ printed'[r] = Append(printed[r], v[i])
    BY <1>4 DEF Goto, TypeOK
  <2>2. v[i] \in Names
    BY <1>2, <1>4 DEF TypeOK
  <2>3. /\ Len(printed'[r]) = i /\ printed'[r][i] = v[i]
        /\ \A j \in 1 .. Len(printed[r]) : printed'[r][j] = printed[r][j]
    BY <1>2, <2>1, <2>2
  <2>4. Len(v) + leavers[r] >= Len(printed'[r])
    BY <1>2, <1>4, <2>3
  <2>5. ASSUME leavers[r] = 0, NEW j \in 1 .. Len(printed'[r])
        PROVE  printed'[r][j] = v[j]
    <3>1. j \in 1 .. Len(printed[r]) \/ j = i
      BY <1>2, <2>3, <2>5
    <3>2. QED
      BY <1>3, <2>3, <2>5, <3>1
  <2>6. QED
    BY <1>1, <1>3, <2>1, <2>4, <2>5 DEF ListingOf, Listing
<1>5. CASE i > Len(v) /\ Goto(r, "noSuchElement") /\ UNCHANGED printed
  <2>1. leavers[r] > 0
    BY <1>2, <1>3, <1>5
  <2>2. pc'[r] = "noSuchElement"
    BY <1>5 DEF Goto, TypeOK
  <2>3. QED
    BY <1>1, <2>1, <2>2 DEF ListingOf, Listing
<1>6. QED
  BY <1>4, <1>5 DEF NextElement

LEMMA GetUserCountListing ==
  ASSUME TypeOK, TypeOK', ListingInv, NEW r \in Requests, GetUserCount(r)
  PROVE  ListingOf(r)'
<1>1. /\ UNCHANGED <<v, leavers, printed, listed>> /\ pc[r] = "count"
      /\ pc'[r] = "done" /\ userCount'[r] = Len(v)
  BY DEF GetUserCount, Goto, TypeOK
<1>2. ListingOf(r)
  BY DEF ListingInv
<1>3. QED
  BY <1>1, <1>2 DEF ListingOf, Listing

LEMMA NextListing ==
  ASSUME TypeOK, TypeOK', ListingInv, [Next]_vars
  PROVE  ListingInv'
<1>1. ASSUME NEW r \in Requests,
             Elements(r) \/ HasMoreElements(r) \/ NextElement(r) \/ GetUserCount(r)
      PROVE  ListingInv'
  <2>1. ListingOf(r)'
    BY <1>1, ElementsListing, HasMoreListing, NextElementListing, GetUserCountListing
  <2>2. /\ UNCHANGED <<v, leavers>> /\ Len(v) \in Nat
        /\ \A q \in Requests \ {r} :
             /\ pc'[q] = pc[q] /\ printed'[q] = printed[q]
             /\ listed'[q] = listed[q] /\ userCount'[q] = userCount[q]
    BY <1>1
    DEF Elements, HasMoreElements, NextElement, GetUserCount, Goto, requestVars, TypeOK
  <2>3. Grows
    BY <2>2 DEF Grows
  <2>4. ASSUME NEW q \in Requests, q # r PROVE ListingOf(q)'
    <3>1. ListingOf(q)
      BY DEF ListingInv
    <3>2. QED
      BY <2>2, <2>3, <2>4, <3>1, Undisturbed
  <2>5. QED
    BY <2>1, <2>4 DEF ListingInv
<1>2. ASSUME Grows \/ Shrinks, UNCHANGED <<pc, printed, listed, userCount>>
      PROVE  ListingInv'
  BY <1>2, Undisturbed DEF ListingInv
<1>3. Len(v) \in Nat
  BY DEF TypeOK
<1>4. ASSUME NEW s \in Sessions, Expire(s) PROVE ListingInv'
  BY <1>2, <1>3, <1>4 DEF Expire, requestVars, Grows
<1>5. CASE Expired
  <2>1. RemoveUser(expiring) /\ expiring \in Names \cup {Null, NoUser}
    BY <1>5 DEF Expired, TypeOK
  <2>2. QED
    BY <1>2, <1>5, <2>1, RemovedShrinks DEF Expired, requestVars
<1>6. CASE UNCHANGED vars
  BY <1>2, <1>3, <1>6 DEF vars, requestVars, Grows
<1>7. QED
  BY <1>1, <1>4, <1>5, <1>6, ArrivalListing DEF Next, DoGet

LEMMA ListingImplied == TypeOK /\ ListingInv => ListingComplete
<1> SUFFICES ASSUME TypeOK, ListingInv, NEW r \in Requests
             PROVE  /\ pc[r] = "noSuchElement" => leavers[r] > 0
                    /\ pc[r] \in {"count", "done"} =>
                         /\ Len(printed[r]) + leavers[r] >= Len(listed[r])
                         /\ leavers[r] = 0 =>
                              SubSeq(printed[r], 1, Len(listed[r])) = listed[r]
                    /\ pc[r] = "done" => userCount[r] + leavers[r] >= Len(printed[r])
  BY DEF ListingComplete
<1>1. ListingOf(r)
  BY DEF ListingInv
<1>2. ASSUME pc[r] \in {"count", "done"}, leavers[r] = 0
      PROVE  SubSeq(printed[r], 1, Len(listed[r])) = listed[r]
  <2> DEFINE p == printed[r]
             l == listed[r]
  <2>1. p \in Seq(Names) /\ l \in Seq(Names) /\ Len(p) \in Nat /\ Len(l) \in Nat
    BY Lengths DEF TypeOK
  <2>2. Len(p) >= Len(l) /\ \A i \in 1 .. Len(l) : p[i] = l[i]
    BY <1>1, <1>2, <2>1 DEF ListingOf
  <2> HIDE DEF p, l
  <2>3. SubSeq(p, 1, Len(l)) = l
    BY <2>1, <2>2
  <2>4. QED
    BY <2>3 DEF p, l
<1>3. QED
  BY <1>1, <1>2 DEF ListingOf

(* What "users online now" is worth: however many log in and out while it  *)
(* is printed, whoever is missing has left meanwhile.                      *)
THEOREM ListingsAreComplete == Spec => []ListingComplete
<1>1. Init => ListingInv
  BY InitListing
<1>2. TypeOK /\ TypeOK' /\ ListingInv /\ [Next]_vars => ListingInv'
  BY NextListing
<1>3. Spec => []TypeOK
  BY ListTypes
<1>4. QED
  BY <1>1, <1>2, <1>3, ListingImplied, PTL DEF Spec
===============================================================================
