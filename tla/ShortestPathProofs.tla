-------------------------- MODULE ShortestPathProofs --------------------------
(***************************************************************************)
(* Theorems about ShortestPath.  The inductive invariant follows a job     *)
(* through its phases: what holds of the lines holds one step further of   *)
(* the values map writes, and passes from these to the output and to the   *)
(* lines of the next job.                                                  *)
(***************************************************************************)
EXTENDS ShortestPath, WellFoundedInduction, TLAPS

(* Every distance map proposes was made by this job's number, and belongs  *)
(* to a walk.                                                              *)
ValuesReal ==
  \A k \in Keys : \A x \in values[k] : IsDistanceSet(x) =>
    x.dist <= iter /\ (k # Blank => SpellsWalk(x, k))

LinesReal ==
  \A n \in DOMAIN line : IsDistanceSet(line[n]) => SpellsWalk(line[n], n)

OutputReal ==
  \A n \in DOMAIN output : IsDistanceSet(output[n]) =>
    output[n].dist <= iter /\ SpellsWalk(output[n], n)

(* No line is lost between two jobs, unless all are. *)
LinesWhole == DOMAIN line \in {{}, DOMAIN graph}

OutputWhole ==
  /\ pc = "reduce" =>
       /\ DOMAIN output \subseteq DOMAIN line
       /\ \A n \in DOMAIN line : n \in DOMAIN output \/ values[n] # {}
  /\ pc = "check" => DOMAIN output \in {{}, DOMAIN graph}

(* Distances are at most the length of any walk of at most i steps. *)
Covers(f, i) ==
  \A k \in 0 .. i : \A w \in Walks(k) : w[k] \in DOMAIN f => f[w[k]].dist <= k

ValuesCover ==
  pc = "reduce" =>
    \A k \in 0 .. iter : \A w \in Walks(k) :
      w[k] \in DOMAIN line /\ values[w[k]] # {} =>
        \E x \in values[w[k]] : x.dist <= k

PathInv ==
  /\ TypeOK
  /\ ValuesReal /\ LinesReal /\ OutputReal
  /\ LinesWhole /\ OutputWhole
  /\ Covers(line, iter - 1)
  /\ ValuesCover
  /\ pc # "map" => Covers(output, iter)
-----------------------------------------------------------------------------
(* A walk to n followed by an edge from n is a walk: the path an adjacent  *)
(* node is proposed with.                                                  *)
LEMMA ProposalSpells ==
  ASSUME TypeOK, GraphAssumption, NEW n \in DOMAIN line, NEW k \in Names,
         k \in graph[n], SpellsWalk(line[n], n), line[n].dist < iter
  PROVE  SpellsWalk(AdjacentNode(n), k)
<1> DEFINE b == line[n].back
           p == Append(WithoutNull(b), n)
<1>1. /\ n \in Names /\ n # NullText /\ n \in DOMAIN graph
      /\ b \in Seq(Names \cup {NullText}) /\ line[n].dist \in Nat
  BY DEF TypeOK, IsLines, Lines, IsGraph, GraphAssumption, NullText
<1>2. WithoutNull(b) \in Seq(Names \cup {NullText})
  BY <1>1 DEF WithoutNull
<1>3. WithoutNull(Append(b, n)) = p
  BY <1>1 DEF WithoutNull
<1>4. p \in Seq(Names \cup {NullText})
  BY <1>1, <1>2
<1>5. /\ Len(p) = line[n].dist + 1 /\ p[1] = StartNode
      /\ \A i \in 1 .. Len(p) - 1 : p[i] \in DOMAIN graph /\ p[i + 1] \in graph[p[i]]
  BY DEF SpellsWalk
<1>6. p[Len(p)] = n
  BY <1>1, <1>2
<1> DEFINE q == Append(p, k)
<1>7. Len(q) = line[n].dist + 2 /\ q[1] = StartNode
  BY <1>1, <1>4, <1>5
<1>8. \A i \in 1 .. Len(q) - 1 : q[i] \in DOMAIN graph /\ q[i + 1] \in graph[q[i]]
  <2> TAKE i \in 1 .. Len(q) - 1
  <2>1. CASE i = Len(p)
    <3>1. q[Len(p) + 1] = k
      BY <1>4
    <3>2. q[Len(p)] = p[Len(p)]
      <4>1. Len(p) \in 1 .. Len(p)
        BY <1>1, <1>5
      <4> QED BY <4>1, <1>4
    <3> QED BY <2>1, <3>1, <3>2, <1>1, <1>6
  <2>2. CASE i < Len(p)
    <3>1. q[i] = p[i] /\ q[i + 1] = p[i + 1] /\ i \in 1 .. Len(p) - 1
      BY <2>2, <1>4, <1>5, <1>1
    <3> QED BY <3>1, <1>5
  <2> QED BY <2>1, <2>2, <1>4, <1>5, <1>1
<1>9. AdjacentNode(n).dist + 1 = line[n].dist + 2
  BY <1>1 DEF AdjacentNode
<1>10. Append(WithoutNull(AdjacentNode(n).back), k) = q
  BY <1>3 DEF AdjacentNode, ConstructBackpointer
<1> QED BY <1>7, <1>8, <1>9, <1>10 DEF SpellsWalk

(* Writing null for a missing backpointer changes neither the distance nor *)
(* the walk.                                                               *)
LEMMA WrittenKeeps ==
  ASSUME NEW x \in Lines, NEW k \in Names
  PROVE  /\ Written(x, k) \in Lines
         /\ Written(x, k).dist = x.dist
         /\ SpellsWalk(x, k) => SpellsWalk(Written(x, k), k)
<1> DEFINE b == IF x.back = <<>> THEN <<NullText>> ELSE x.back
<1>1. x.back \in Seq(Names \cup {NullText}) /\ x.dist \in Nat
      /\ x = [dist |-> x.dist, back |-> x.back]
  BY DEF Lines
<1>2. Written(x, k) = [dist |-> x.dist, back |-> b]
  BY <1>1 DEF Written
<1>3. b \in Seq(Names \cup {NullText})
  <2>1. <<NullText>> \in Seq(Names \cup {NullText})
    OBVIOUS
  <2> QED BY <1>1, <2>1
<1>4. WithoutNull(b) = WithoutNull(x.back)
  BY <1>1 DEF WithoutNull
<1>5. Written(x, k).dist = x.dist /\ Written(x, k).back = b
  BY <1>2
<1>6. Written(x, k) \in Lines
  BY <1>1, <1>2, <1>3 DEF Lines
<1> HIDE DEF b
<1>7. SpellsWalk(x, k) => SpellsWalk(Written(x, k), k)
  BY <1>4, <1>5 DEF SpellsWalk
<1> QED BY <1>5, <1>6, <1>7

(* The walk without its last step. *)
LEMMA Shortened ==
  ASSUME NEW k \in Nat, k > 0, NEW w \in Walks(k)
  PROVE  \E v \in Walks(k - 1) :
           v[k - 1] = w[k - 1] /\ w[k - 1] \in DOMAIN graph /\ w[k] \in graph[w[k - 1]]
<1> DEFINE v == [i \in 0 .. k - 1 |-> w[i]]
<1>1. /\ w \in [0 .. k -> Names] /\ w[0] = StartNode
      /\ \A i \in 0 .. k - 1 : w[i] \in DOMAIN graph /\ w[i + 1] \in graph[w[i]]
  BY DEF Walks
<1>2. v \in [0 .. k - 1 -> Names] /\ v[0] = StartNode
  BY <1>1
<1>3. \A i \in 0 .. (k - 1) - 1 : v[i] \in DOMAIN graph /\ v[i + 1] \in graph[v[i]]
  <2> TAKE i \in 0 .. (k - 1) - 1
  <2>1. v[i] = w[i] /\ v[i + 1] = w[i + 1]
    OBVIOUS
  <2> QED BY <2>1, <1>1
<1>4. v \in Walks(k - 1)
  BY <1>2, <1>3 DEF Walks
<1>5. k - 1 \in 0 .. k - 1 /\ (k - 1) + 1 = k
  OBVIOUS
<1>6. v[k - 1] = w[k - 1] /\ w[k - 1] \in DOMAIN graph /\ w[k] \in graph[w[k - 1]]
  BY <1>1, <1>5
<1> QED BY <1>4, <1>6
-----------------------------------------------------------------------------
(* The start has distance 0, an empty backpointer and the walk of no steps. *)
LEMMA InitPath == Init => PathInv
<1> SUFFICES ASSUME Init PROVE PathInv
  OBVIOUS
<1> USE GraphAssumption
<1>1. IsGraph(graph) /\ DOMAIN graph \subseteq Names
  BY DEF Init, GraphAssumption, IsGraph
<1>2. /\ DOMAIN line = DOMAIN graph
      /\ \A n \in DOMAIN line :
           line[n] = [dist |-> IF n = StartNode THEN 0 ELSE MaxValue, back |-> <<>>]
  BY DEF Init
<1>3. IsLines(line) /\ IsLines(output)
  BY <1>1, <1>2 DEF Init, IsLines, Lines, NoLines, GraphAssumption
<1>4. values \in [Keys -> SUBSET Lines]
  BY DEF Init, NoValues
<1>5. TypeOK
  BY <1>1, <1>2, <1>3, <1>4 DEF TypeOK, Init, IsDistanceSet, GraphAssumption
<1>6. ValuesReal
  BY DEF ValuesReal, Init, NoValues
<1>7. LinesReal
  <2> SUFFICES ASSUME NEW n \in DOMAIN line, IsDistanceSet(line[n])
               PROVE  SpellsWalk(line[n], n)
    BY DEF LinesReal
  <2>1. n = StartNode /\ line[n].dist = 0 /\ line[n].back = <<>>
    BY <1>2 DEF IsDistanceSet
  <2>2. WithoutNull(line[n].back) = <<>>
    BY <2>1 DEF WithoutNull
  <2>3. Append(<<>>, n) = <<n>>
    OBVIOUS
  <2>4. Len(<<n>>) = 1 /\ <<n>>[1] = n /\ 1 .. Len(<<n>>) - 1 = {}
    OBVIOUS
  <2> QED BY <2>1, <2>2, <2>3, <2>4 DEF SpellsWalk
<1>8. OutputReal /\ LinesWhole /\ OutputWhole /\ ValuesCover
      /\ (pc # "map" => Covers(output, iter))
  BY <1>2 DEF OutputReal, LinesWhole, OutputWhole, ValuesCover, Init, NoLines
<1>9. Covers(line, iter - 1)
  <2> SUFFICES ASSUME NEW k \in 0 .. iter - 1, NEW w \in Walks(k), w[k] \in DOMAIN line
               PROVE  line[w[k]].dist <= k
    BY DEF Covers
  <2>1. k = 0 /\ w[0] = StartNode
    BY DEF Init, Walks
  <2> QED BY <2>1, <1>2
<1> QED BY <1>5, <1>6, <1>7, <1>8, <1>9 DEF PathInv

(* Everything map writes is a line or a walk one step longer than a line's, *)
(* and every edge out of a line with a distance is proposed.               *)
LEMMA MapPath == PathInv /\ Map => PathInv'
<1> SUFFICES ASSUME PathInv, Map PROVE PathInv'
  OBVIOUS
<1> USE GraphAssumption
<1>0. /\ graph' = graph /\ targetNode' = targetNode /\ line' = line
      /\ iter' = iter /\ failure' = failure
      /\ pc' = "reduce" /\ output' = NoLines /\ counter' = 0
  BY DEF Map, args
<1>T. TypeOK /\ LinesReal /\ LinesWhole /\ Covers(line, iter - 1)
  BY DEF PathInv
<1>1. \A n \in DOMAIN line : n \in Names /\ n \in DOMAIN graph /\ line[n] \in Lines
  BY <1>T DEF TypeOK, IsLines, IsGraph
<1>2. \A k \in Keys : \A x \in values'[k] :
        \/ k \in DOMAIN line /\ x = line[k]
        \/ \E n \in Proposers(k) : x = AdjacentNode(n)
  BY DEF Map
<1>3. \A n \in DOMAIN line : IsDistanceSet(line[n]) =>
        /\ AdjacentNode(n) \in Lines
        /\ AdjacentNode(n).dist = line[n].dist + 1 /\ line[n].dist < iter
  <2> TAKE n \in DOMAIN line
  <2> HAVE IsDistanceSet(line[n])
  <2>1. /\ line[n].dist \in Nat /\ line[n].back \in Seq(Names \cup {NullText})
        /\ n \in Names /\ line[n].dist < iter
    BY <1>1, <1>T DEF Lines, TypeOK
  <2> QED BY <2>1 DEF AdjacentNode, ConstructBackpointer, Lines
<1>4. \A k \in Keys : \A n \in Proposers(k) :
        n \in DOMAIN line /\ IsDistanceSet(line[n]) /\ (k # Blank => k \in graph[n])
  BY DEF Proposers, AdjacentNodeNames
<1>5. values' \in [Keys -> SUBSET Lines]
  <2>1. \A k \in Keys : values'[k] \subseteq Lines
    BY <1>1, <1>2, <1>3, <1>4
  <2> QED BY <2>1 DEF Map
<1>6. TypeOK'
  <2>1. IsLines(output)'
    BY <1>0 DEF IsLines, NoLines
  <2> QED BY <1>0, <1>T, <1>5, <2>1 DEF TypeOK, IsLines, IsDistanceSet
<1>7. ValuesReal'
  <2> SUFFICES ASSUME NEW k \in Keys, NEW x \in values'[k], IsDistanceSet(x)
               PROVE  x.dist <= iter /\ (k # Blank => SpellsWalk(x, k))
    BY <1>0 DEF ValuesReal, SpellsWalk, IsDistanceSet
  <2>1. CASE k \in DOMAIN line /\ x = line[k]
    <3>1. x.dist < iter /\ x.dist \in Nat /\ iter \in Nat
      BY <2>1, <1>T, <1>1 DEF TypeOK, Lines
    <3> QED BY <2>1, <3>1, <1>T DEF LinesReal
  <2>2. ASSUME NEW n \in Proposers(k), x = AdjacentNode(n)
        PROVE  x.dist <= iter /\ (k # Blank => SpellsWalk(x, k))
    <3>1. n \in DOMAIN line /\ IsDistanceSet(line[n])
      BY <1>4
    <3>2. x.dist = line[n].dist + 1 /\ line[n].dist < iter /\ SpellsWalk(line[n], n)
      BY <3>1, <1>3, <2>2, <1>T DEF LinesReal
    <3>3. line[n].dist \in Nat /\ iter \in Nat
      BY <3>1, <1>1, <1>T DEF Lines, TypeOK
    <3>4. k # Blank => k \in Names /\ k \in graph[n]
      BY <1>4 DEF Keys
    <3>5. k # Blank => SpellsWalk(AdjacentNode(n), k)
      BY <3>1, <3>2, <3>4, <1>T, ProposalSpells
    <3>6. x.dist <= iter
      BY <3>2, <3>3
    <3> QED BY <2>2, <3>5, <3>6
  <2> QED BY <2>1, <2>2, <1>2
<1>8. LinesReal' /\ OutputReal' /\ LinesWhole'
  BY <1>0, <1>T DEF LinesReal, OutputReal, LinesWhole, NoLines, SpellsWalk, IsDistanceSet
<1>9. \A n \in DOMAIN line : line[n] \in values'[n]
  BY <1>1 DEF Map, Keys
<1>10. OutputWhole'
  BY <1>0, <1>9 DEF OutputWhole, NoLines
<1>11. ValuesCover'
  <2> SUFFICES ASSUME NEW k \in 0 .. iter, NEW w \in Walks(k), w[k] \in DOMAIN line
               PROVE  \E x \in values'[w[k]] : x.dist <= k
    BY <1>0 DEF ValuesCover, Walks
  <2>1. iter \in 1 .. MaxRounds /\ k \in Nat
    BY <1>T DEF TypeOK
  <2>2. CASE k = 0
    <3>1. line[w[k]].dist <= k
      BY <2>2, <2>1, <1>T DEF Covers
    <3> QED BY <3>1, <1>9
  <2>3. CASE k > 0
    <3>1. PICK v \in Walks(k - 1) :
            v[k - 1] = w[k - 1] /\ w[k - 1] \in DOMAIN graph /\ w[k] \in graph[w[k - 1]]
      BY <2>1, <2>3, Shortened
    <3> DEFINE n == w[k - 1]
    <3>2. n \in DOMAIN line
      BY <3>1, <1>T DEF LinesWhole
    <3>3. line[n].dist <= k - 1
      <4>1. k - 1 \in 0 .. iter - 1
        BY <2>1, <2>3
      <4> QED BY <4>1, <3>1, <3>2, <1>T DEF Covers
    <3>4. line[n].dist \in Nat
      BY <3>2, <1>1 DEF Lines
    <3>5. IsDistanceSet(line[n])
      BY <3>3, <3>4, <2>1 DEF IsDistanceSet, GraphAssumption
    <3>6. w[k] \in Keys
      BY <1>1 DEF Keys
    <3>7. n \in Proposers(w[k])
      BY <3>1, <3>2, <3>5 DEF Proposers, AdjacentNodeNames
    <3>8. AdjacentNode(n) \in values'[w[k]]
      BY <3>6, <3>7 DEF Map
    <3>9. AdjacentNode(n).dist <= k
      BY <3>2, <3>3, <3>4, <3>5, <1>3, <2>1
    <3> QED BY <3>8, <3>9
  <2> QED BY <2>1, <2>2, <2>3
<1>12. Covers(line, iter - 1)' /\ (pc # "map" => Covers(output, iter))'
  BY <1>0, <1>T DEF Covers, Walks, NoLines
<1> QED BY <1>6, <1>7, <1>8, <1>10, <1>11, <1>12 DEF PathInv

(* reduce writes, for its key, a value that is as short as any other and   *)
(* spells a walk.                                                          *)
LEMMA ReducePath ==
  ASSUME PathInv, NEW key \in Keys, Reduce(key)
  PROVE  PathInv'
<1> USE GraphAssumption
<1>T. /\ TypeOK /\ ValuesReal /\ LinesReal /\ OutputReal /\ LinesWhole
      /\ OutputWhole /\ Covers(line, iter - 1) /\ ValuesCover
      /\ (pc # "map" => Covers(output, iter))
  BY DEF PathInv
<1>0. /\ graph' = graph /\ targetNode' = targetNode /\ line' = line
      /\ iter' = iter /\ failure' = failure
      /\ pc = "reduce" /\ pc' = pc /\ key \in DOMAIN line
      /\ values' = [values EXCEPT ![key] = {}]
  BY DEF Reduce, NextKey, args
<1>1. PICK x \in Chosen(key) :
        /\ output' = [n \in DOMAIN output \cup {key} |->
                        IF n = key THEN Written(x, key) ELSE output[n]]
        /\ counter' = IF key = targetNode THEN counter + Increment(x) ELSE counter
  BY DEF Reduce
<1>2. /\ key \in Names /\ key # Blank /\ key \in DOMAIN graph
      /\ values[key] \subseteq Lines /\ values \in [Keys -> SUBSET Lines]
      /\ iter \in 1 .. MaxRounds
  BY <1>T, <1>0 DEF TypeOK, IsLines, IsGraph, Blank
<1>3. x \in Lines /\
        ( \/ (\A y \in values[key] : ~IsDistanceSet(y)) /\ x = line[key]
          \/ x \in values[key] /\ IsDistanceSet(x) /\ \A y \in values[key] : x.dist <= y.dist)
  BY <1>0, <1>1, <1>2, <1>T DEF Chosen, Shortest, TypeOK, IsLines
<1>4. IsDistanceSet(x) => x.dist <= iter /\ SpellsWalk(x, key)
  <2>1. CASE x = line[key]
    <3>1. IsDistanceSet(x) => x.dist < iter /\ SpellsWalk(x, key)
      BY <2>1, <1>0, <1>T DEF TypeOK, LinesReal
    <3>2. x.dist \in Nat /\ iter \in Nat
      BY <1>2, <1>3 DEF Lines
    <3> QED BY <3>1, <3>2
  <2>2. CASE x \in values[key]
    BY <2>2, <1>2, <1>T DEF ValuesReal
  <2> QED BY <1>3, <2>1, <2>2
<1>5. /\ Written(x, key) \in Lines /\ Written(x, key).dist = x.dist
      /\ (SpellsWalk(x, key) => SpellsWalk(Written(x, key), key))
  BY <1>2, <1>3, WrittenKeeps
<1>6. /\ DOMAIN output' = DOMAIN output \cup {key}
      /\ output'[key] = Written(x, key)
      /\ \A n \in DOMAIN output : n # key => output'[n] = output[n]
  BY <1>1
<1>7. TypeOK'
  <2>1. IsLines(output)'
    BY <1>T, <1>0, <1>2, <1>5, <1>6 DEF TypeOK, IsLines
  <2>2. values' \in [Keys -> SUBSET Lines]
    BY <1>0, <1>2
  <2>3. x.dist \in Nat
    BY <1>3 DEF Lines
  <2>4. counter' \in Nat
    BY <1>T, <1>1, <2>3 DEF TypeOK, Increment
  <2> QED BY <1>0, <1>T, <2>1, <2>2, <2>4 DEF TypeOK, IsLines, IsDistanceSet
<1>8. ValuesReal'
  <2>1. \A k \in Keys : values'[k] \subseteq values[k]
    BY <1>0, <1>2
  <2> QED BY <2>1, <1>0, <1>T DEF ValuesReal, SpellsWalk, IsDistanceSet
<1>9. LinesReal' /\ LinesWhole'
  BY <1>0, <1>T DEF LinesReal, LinesWhole, SpellsWalk, IsDistanceSet
<1>10. OutputReal'
  <2> SUFFICES ASSUME NEW n \in DOMAIN output', IsDistanceSet(output'[n])
               PROVE  output'[n].dist <= iter /\ SpellsWalk(output'[n], n)
    BY <1>0 DEF OutputReal, SpellsWalk, IsDistanceSet
  <2>1. CASE n = key
    BY <2>1, <1>4, <1>5, <1>6 DEF IsDistanceSet
  <2>2. CASE n # key
    BY <2>2, <1>6, <1>T DEF OutputReal
  <2> QED BY <2>1, <2>2
<1>11. OutputWhole'
  <2>1. \A n \in DOMAIN line : n = key \/ values'[n] = values[n]
    BY <1>0, <1>2, <1>T DEF TypeOK, IsLines, IsGraph, Keys
  <2> QED BY <2>1, <1>0, <1>6, <1>T DEF OutputWhole
<1>12. ValuesCover'
  <2>1. \A k \in Keys : values'[k] # {} => values'[k] = values[k]
    BY <1>0, <1>2
  <2>2. DOMAIN line \subseteq Keys
    BY <1>T DEF TypeOK, IsLines, IsGraph, Keys
  <2> QED BY <2>1, <2>2, <1>0, <1>T DEF ValuesCover, Walks
<1>13. Covers(line, iter - 1)'
  BY <1>0, <1>T DEF Covers, Walks
<1>14. Covers(output, iter)'
  <2> SUFFICES ASSUME NEW k \in 0 .. iter, NEW w \in Walks(k), w[k] \in DOMAIN output'
               PROVE  output'[w[k]].dist <= k
    BY <1>0 DEF Covers, Walks
  <2>1. CASE w[k] # key
    BY <2>1, <1>0, <1>6, <1>T DEF Covers
  <2>2. CASE w[k] = key
    <3>1. values[key] # {}
      BY DEF Reduce, NextKey
    <3>2. PICK y \in values[key] : y.dist <= k
      BY <2>2, <3>1, <1>0, <1>T DEF ValuesCover
    <3>3. y.dist \in Nat /\ x.dist \in Nat
      BY <1>2, <1>3 DEF Lines
    <3>4. IsDistanceSet(y)
      BY <3>2, <3>3, <1>2 DEF IsDistanceSet, GraphAssumption
    <3>5. x.dist <= y.dist
      BY <3>4, <1>3
    <3> QED BY <2>2, <3>2, <3>3, <3>5, <1>5, <1>6
  <2> QED BY <2>1, <2>2
<1> QED BY <1>0, <1>7, <1>8, <1>9, <1>10, <1>11, <1>12, <1>13, <1>14 DEF PathInv

(* When every key has been reduced, every line has been written. *)
LEMMA CommitPath == PathInv /\ Commit => PathInv'
<1> SUFFICES ASSUME PathInv, Commit PROVE PathInv'
  OBVIOUS
<1> USE GraphAssumption DEF PathInv
<1>0. /\ UNCHANGED <<graph, targetNode, line, values, output, counter, iter, failure>>
      /\ pc = "reduce" /\ pc' = "check" /\ values = NoValues
  BY DEF Commit, args
<1>1. TypeOK'
  BY <1>0 DEF TypeOK, IsLines, IsDistanceSet
<1>2. ValuesReal' /\ LinesReal' /\ OutputReal' /\ LinesWhole'
  BY <1>0 DEF ValuesReal, LinesReal, OutputReal, LinesWhole, SpellsWalk, IsDistanceSet
<1>3. OutputWhole'
  <2>1. DOMAIN line \subseteq Keys
    BY DEF TypeOK, IsLines, IsGraph, Keys
  <2>2. \A n \in DOMAIN line : values[n] = {}
    BY <2>1, <1>0 DEF NoValues
  <2>3. DOMAIN output = DOMAIN line
    BY <2>2, <1>0 DEF OutputWhole
  <2> QED BY <2>3, <1>0 DEF OutputWhole, LinesWhole
<1>4. ValuesCover' /\ Covers(line, iter - 1)' /\ Covers(output, iter)'
  BY <1>0 DEF ValuesCover, Covers, Walks
<1> QED BY <1>0, <1>1, <1>2, <1>3, <1>4

(* A failed job leaves no output: there is nothing to be wrong. *)
LEMMA FailPath ==
  ASSUME PathInv, NEW why \in {"threw", "lost"}, JobFails(why)
  PROVE  PathInv'
<1> USE GraphAssumption DEF PathInv
<1>0. /\ UNCHANGED <<graph, targetNode, line, iter>>
      /\ values' = NoValues /\ output' = NoLines /\ counter' = 0 /\ pc' = "check"
      /\ failure' \in {failure, why}
  BY DEF JobFails, args
<1>1. TypeOK'
  BY <1>0 DEF TypeOK, IsLines, IsDistanceSet, NoValues, NoLines
<1>2. ValuesReal' /\ LinesReal' /\ OutputReal' /\ LinesWhole' /\ OutputWhole'
  BY <1>0 DEF ValuesReal, LinesReal, OutputReal, LinesWhole, OutputWhole, SpellsWalk,
              IsDistanceSet, NoValues, NoLines
<1>3. ValuesCover' /\ Covers(line, iter - 1)' /\ Covers(output, iter)'
  BY <1>0 DEF ValuesCover, Covers, Walks, NoLines
<1> QED BY <1>0, <1>1, <1>2, <1>3

LEMMA BreakPath == PathInv /\ Break => PathInv'
<1> SUFFICES ASSUME PathInv, Break PROVE PathInv'
  OBVIOUS
<1> USE DEF PathInv
<1>0. /\ UNCHANGED <<graph, targetNode, line, values, output, counter, iter, failure>>
      /\ pc = "check" /\ pc' = "done"
  BY DEF Break, args
<1>1. TypeOK'
  BY <1>0 DEF TypeOK, IsLines, IsDistanceSet
<1>2. ValuesReal' /\ LinesReal' /\ OutputReal' /\ LinesWhole' /\ OutputWhole'
  BY <1>0 DEF ValuesReal, LinesReal, OutputReal, LinesWhole, OutputWhole, SpellsWalk,
              IsDistanceSet
<1>3. ValuesCover' /\ Covers(line, iter - 1)' /\ Covers(output, iter)'
  BY <1>0 DEF ValuesCover, Covers, Walks
<1> QED BY <1>0, <1>1, <1>2, <1>3

(* The output of this job is the input of the next. *)
LEMMA NextJobPath == PathInv /\ NextJob => PathInv'
<1> SUFFICES ASSUME PathInv, NextJob PROVE PathInv'
  OBVIOUS
<1> USE GraphAssumption DEF PathInv
<1>0. /\ UNCHANGED <<graph, targetNode, values, output, counter, failure>>
      /\ pc = "check" /\ pc' = "map"
      /\ line' = output /\ iter' = iter + 1 /\ iter < MaxRounds
  BY DEF NextJob, args
<1>1. iter \in Nat /\ iter' \in 1 .. MaxRounds /\ iter' - 1 = iter
  BY <1>0 DEF TypeOK, GraphAssumption
<1>2. \A n \in DOMAIN output : output[n].dist \in Nat
  BY DEF TypeOK, IsLines, Lines
<1>3. TypeOK'
  <2>1. \A n \in DOMAIN line' : IsDistanceSet(line'[n]) => line'[n].dist < iter'
    BY <1>0, <1>1, <1>2 DEF OutputReal
  <2> QED BY <1>0, <1>1, <2>1 DEF TypeOK, IsLines, IsDistanceSet
<1>4. LinesReal' /\ LinesWhole' /\ OutputWhole'
  BY <1>0 DEF OutputReal, LinesReal, OutputWhole, LinesWhole, SpellsWalk, IsDistanceSet
<1>5. ValuesReal'
  <2>1. \A k \in Keys : \A x \in values[k] : x.dist \in Nat
    BY DEF TypeOK, Lines
  <2> QED BY <1>0, <1>1, <2>1 DEF ValuesReal, SpellsWalk, IsDistanceSet
<1>6. OutputReal'
  <2> SUFFICES ASSUME NEW n \in DOMAIN output, IsDistanceSet(output[n])
               PROVE  output[n].dist <= iter' /\ SpellsWalk(output[n], n)
    BY <1>0 DEF OutputReal, SpellsWalk, IsDistanceSet
  <2>1. output[n].dist <= iter /\ SpellsWalk(output[n], n)
    BY DEF OutputReal
  <2> QED BY <2>1, <1>0, <1>1, <1>2
<1>7. ValuesCover' /\ Covers(line, iter - 1)'
  BY <1>0, <1>1 DEF ValuesCover, Covers, Walks
<1> QED BY <1>0, <1>3, <1>4, <1>5, <1>6, <1>7
-----------------------------------------------------------------------------
(* The invariant holds throughout, for any input files, names and number   *)
(* of jobs.                                                                *)
LEMMA PathInvariant == Spec => []PathInv
<1>1. PathInv /\ [Next]_vars => PathInv'
  <2> SUFFICES ASSUME PathInv, [Next]_vars PROVE PathInv'
    OBVIOUS
  <2>1. CASE Map
    BY <2>1, MapPath
  <2>2. ASSUME NEW k \in Keys, Reduce(k) PROVE PathInv'
    BY <2>2, ReducePath
  <2>3. ASSUME NEW k \in Keys, ReduceThrows(k) PROVE PathInv'
    BY <2>3, FailPath DEF ReduceThrows
  <2>4. CASE Commit
    BY <2>4, CommitPath
  <2>5. CASE Break
    BY <2>5, BreakPath
  <2>6. CASE NextJob
    BY <2>6, NextJobPath
  <2>7. CASE JobLost
    BY <2>7, FailPath DEF JobLost
  <2>8. CASE UNCHANGED vars
    BY <2>8 DEF vars, args, PathInv, TypeOK, IsLines, ValuesReal, LinesReal, OutputReal,
                LinesWhole, OutputWhole, ValuesCover, Covers, Walks, SpellsWalk, IsDistanceSet
  <2> QED BY <2>1, <2>2, <2>3, <2>4, <2>5, <2>6, <2>7, <2>8 DEF Next, Main
<1> QED BY <1>1, InitPath, PTL DEF Spec

(* Type correctness of Main, of the lines and of what map and reduce write. *)
THEOREM PathTypes == Spec => []TypeOK
BY PathInvariant, PTL DEF PathInv

(* No node's distance is longer than a walk to it that the jobs so far     *)
(* could have followed, in whatever order reduce reads its values.         *)
THEOREM NoShorterWalk == Spec => []DistancesShortest
<1>1. PathInv => DistancesShortest
  BY DEF PathInv, DistancesShortest, Covers
<1> QED BY <1>1, PathInvariant, PTL

(* Every distance is the length of the walk its backpointer spells.        *)
THEOREM BackpointersAreWalks == Spec => []PathsReal
<1>1. PathInv => PathsReal
  BY DEF PathInv, PathsReal, LinesReal, OutputReal
<1> QED BY <1>1, PathInvariant, PTL
-----------------------------------------------------------------------------
(* The counter is the distance written for the target. *)
CounterTrue ==
  /\ pc = "reduce" => \A n \in DOMAIN output : values[n] = {}
  /\ counter > 0 => /\ targetNode \in DOMAIN output
                    /\ IsDistanceSet(output[targetNode])
                    /\ output[targetNode].dist = counter
  /\ pc = "done" => counter > 0

LEMMA ReduceCounter ==
  ASSUME PathInv, CounterTrue, NEW key \in Keys, Reduce(key)
  PROVE  CounterTrue'
<1> USE GraphAssumption DEF CounterTrue
<1>0. /\ targetNode' = targetNode /\ pc = "reduce" /\ pc' = pc /\ key \in DOMAIN line
      /\ values' = [values EXCEPT ![key] = {}] /\ values[key] # {}
      /\ key \notin DOMAIN output
  BY DEF Reduce, NextKey, args
<1>1. PICK x \in Chosen(key) :
        /\ output' = [n \in DOMAIN output \cup {key} |->
                        IF n = key THEN Written(x, key) ELSE output[n]]
        /\ counter' = IF key = targetNode THEN counter + Increment(x) ELSE counter
  BY DEF Reduce
<1>2. /\ counter \in Nat /\ values \in [Keys -> SUBSET Lines] /\ key \in Names
      /\ x \in Lines /\ DOMAIN output \subseteq Keys
  <2>1. TypeOK /\ values[key] \subseteq Lines /\ line[key] \in Lines /\ key \in Names
    BY <1>0 DEF PathInv, TypeOK, IsLines, IsGraph
  <2> QED BY <2>1, <1>1 DEF TypeOK, IsLines, IsGraph, Keys, Chosen, Shortest
<1>3. Written(x, key).dist = x.dist /\ x.dist \in Nat
  BY <1>2, WrittenKeeps DEF Lines
<1>4. \A n \in DOMAIN output' : values'[n] = {}
  BY <1>0, <1>1, <1>2
<1>5. CASE key = targetNode
  <2>1. counter = 0
    BY <1>0, <1>2, <1>5
  <2> QED BY <1>0, <1>1, <1>3, <1>4, <1>5, <2>1 DEF Increment, IsDistanceSet
<1>6. CASE key # targetNode
  BY <1>0, <1>1, <1>4, <1>6 DEF IsDistanceSet
<1> QED BY <1>5, <1>6

LEMMA CounterInvariant == Spec => []CounterTrue
<1>1. Init => CounterTrue
  BY DEF Init, CounterTrue
<1>2. PathInv /\ CounterTrue /\ [Next]_vars => CounterTrue'
  <2> SUFFICES ASSUME PathInv, CounterTrue, [Next]_vars PROVE CounterTrue'
    OBVIOUS
  <2>1. CASE Map
    BY <2>1 DEF Map, CounterTrue, NoLines
  <2>2. ASSUME NEW k \in Keys, Reduce(k) PROVE CounterTrue'
    BY <2>2, ReduceCounter
  <2>3. ASSUME NEW why, JobFails(why) PROVE CounterTrue'
    BY <2>3 DEF JobFails, CounterTrue
  <2>4. CASE Commit
    BY <2>4 DEF Commit, args, CounterTrue, IsDistanceSet
  <2>5. CASE Break
    BY <2>5 DEF Break, args, CounterTrue, IsDistanceSet
  <2>6. CASE NextJob
    BY <2>6 DEF NextJob, args, CounterTrue, IsDistanceSet
  <2>7. CASE UNCHANGED vars
    BY <2>7 DEF vars, args, CounterTrue, IsDistanceSet
  <2> QED
    BY <2>1, <2>2, <2>3, <2>4, <2>5, <2>6, <2>7 DEF Next, Main, ReduceThrows, JobLost
<1> QED BY <1>1, <1>2, PathInvariant, PTL DEF Spec

(* When the loop has ended, the target's line spells a walk of at least    *)
(* one step, and no walk to the target is shorter.                         *)
AnswerShortest ==
  pc = "done" =>
    /\ targetNode \in DOMAIN output /\ output[targetNode].dist > 0
    /\ SpellsWalk(output[targetNode], targetNode)
    /\ \A k \in 0 .. output[targetNode].dist - 1 : \A w \in Walks(k) : w[k] # targetNode

(* What Main returns is a shortest path, for any graph and any order of    *)
(* the values.                                                             *)
THEOREM ShortestPathFound == Spec => []AnswerShortest
<1>1. PathInv /\ CounterTrue => AnswerShortest
  <2> SUFFICES ASSUME PathInv, CounterTrue, pc = "done" PROVE AnswerShortest
    BY DEF AnswerShortest
  <2> DEFINE d == output[targetNode].dist
  <2>1. targetNode \in DOMAIN output /\ IsDistanceSet(output[targetNode]) /\ d > 0
    BY DEF CounterTrue
  <2>2. d <= iter /\ SpellsWalk(output[targetNode], targetNode)
    BY <2>1 DEF PathInv, OutputReal
  <2>3. iter \in Nat /\ d \in Nat
    BY <2>1, GraphAssumption DEF PathInv, TypeOK, IsLines, Lines
  <2>4. ASSUME NEW k \in 0 .. d - 1, NEW w \in Walks(k), w[k] = targetNode PROVE FALSE
    <3>1. k \in 0 .. iter
      BY <2>2, <2>3
    <3>2. d <= k
      BY <3>1, <2>1, <2>4 DEF PathInv, Covers
    <3> QED BY <3>2, <2>3
  <2> QED BY <2>1, <2>2, <2>4 DEF AnswerShortest
<1> QED BY <1>1, PathInvariant, CounterInvariant, PTL
-----------------------------------------------------------------------------
(***************************************************************************)
(* The nodes at k steps.  NodesAt is a recursive function; what it computes *)
(* is proved by looking at the smallest number of steps for which the claim *)
(* would be false.                                                         *)
(***************************************************************************)

(* Every nonempty set of numbers has a smallest element. *)
LEMMA SmallestElement ==
  ASSUME NEW T, T \subseteq Nat, T # {}
  PROVE  \E m \in T : \A k \in T : m <= k
<1>1. IsWellFoundedOn(OpToRel(<, Nat), Nat)
  BY NatLessThanWellFounded
<1>2. PICK m \in T : \A k \in T : <<k, m>> \notin OpToRel(<, Nat)
  BY <1>1, WFMin, Zenon
<1>3. \A k \in T : ~(k < m)
  BY <1>2 DEF OpToRel
<1> QED BY <1>3

NeighboursOf(S) == UNION {graph[n] : n \in S \cap DOMAIN graph}

StepsTo(a, n) ==
  a = [k \in 0 .. n |-> IF k = 0 THEN {StartNode} ELSE NeighboursOf(a[k - 1])]

(* There is a function with the defining equation of NodesAt, for any      *)
(* number of steps, so NodesAt has it too.                                 *)
LEMMA StepsExist == \A n \in Nat : \E a : StepsTo(a, n)
<1> DEFINE T == {n \in Nat : ~ \E a : StepsTo(a, n)}
<1> SUFFICES ASSUME T # {} PROVE FALSE
  OBVIOUS
<1>1. PICK m \in T : \A k \in T : m <= k
  BY SmallestElement
<1>2. CASE m = 0
  <2> DEFINE a == [k \in 0 .. 0 |-> {StartNode}]
  <2>1. a = [k \in 0 .. 0 |-> IF k = 0 THEN {StartNode} ELSE NeighboursOf(a[k - 1])]
    OBVIOUS
  <2>2. StepsTo(a, 0)
    BY <2>1 DEF StepsTo
  <2> QED BY <1>2, <2>2
<1>3. CASE m # 0
  <2>1. m - 1 \in Nat /\ m - 1 \notin T /\ m \in Nat
    BY <1>1, <1>3
  <2>2. PICK a : StepsTo(a, m - 1)
    BY <2>1
  <2> DEFINE b == [k \in 0 .. m |-> IF k = m THEN NeighboursOf(a[m - 1]) ELSE a[k]]
  <2>3. ASSUME NEW k \in 0 .. m
        PROVE  b[k] = IF k = 0 THEN {StartNode} ELSE NeighboursOf(b[k - 1])
    <3>1. CASE k = m
      <4>1. b[m - 1] = a[m - 1] /\ b[m] = NeighboursOf(a[m - 1])
        BY <2>1, <1>3
      <4> HIDE DEF b
      <4> QED BY <1>3, <3>1, <4>1
    <3>2. CASE k # m /\ k # 0
      <4>1. k \in 0 .. m - 1 /\ b[k - 1] = a[k - 1] /\ b[k] = a[k]
        BY <2>1, <3>2
      <4>2. a[k] = NeighboursOf(a[k - 1])
        BY <2>2, <3>2, <4>1 DEF StepsTo
      <4> HIDE DEF b
      <4> QED BY <3>2, <4>1, <4>2
    <3>3. CASE k # m /\ k = 0
      <4>1. b[0] = a[0] /\ 0 \in 0 .. m - 1
        BY <2>1, <3>3
      <4>2. a[0] = {StartNode}
        BY <2>2, <4>1 DEF StepsTo
      <4> HIDE DEF b
      <4> QED BY <3>3, <4>1, <4>2
    <3> QED BY <3>1, <3>2, <3>3
  <2>4. b = [k \in 0 .. m |-> b[k]]
    OBVIOUS
  <2>5. StepsTo(b, m)
    <3> HIDE DEF b
    <3> QED BY <2>3, <2>4 DEF StepsTo
  <2> QED BY <1>1, <2>5
<1> QED BY <1>2, <1>3

LEMMA NodesAtUnfolds ==
  /\ NodesAt[0] = {StartNode}
  /\ \A k \in 1 .. MaxRounds : NodesAt[k] = NeighboursOf(NodesAt[k - 1])
<1>1. MaxRounds \in Nat
  BY GraphAssumption
<1>2. \E a : StepsTo(a, MaxRounds)
  BY <1>1, StepsExist
<1>3. NodesAt = CHOOSE a : StepsTo(a, MaxRounds)
  BY DEF NodesAt, StepsTo, NeighboursOf
<1>4. StepsTo(NodesAt, MaxRounds)
  BY <1>2, <1>3
<1> DEFINE a == NodesAt
<1>5. a = [k \in 0 .. MaxRounds |->
             IF k = 0 THEN {StartNode} ELSE NeighboursOf(a[k - 1])]
  BY <1>4 DEF StepsTo
<1> HIDE DEF a
<1>6. a[0] = {StartNode}
  <2>1. 0 \in 0 .. MaxRounds
    BY <1>1
  <2> QED BY <1>5, <2>1
<1>7. ASSUME NEW k \in 1 .. MaxRounds
      PROVE  a[k] = NeighboursOf(a[k - 1])
  <2>1. k \in 0 .. MaxRounds /\ k # 0
    BY <1>1
  <2> QED BY <1>5, <2>1
<1> QED BY <1>6, <1>7 DEF a

(* The nodes at k steps are the ends of the walks of k steps. *)
LEMMA LongerWalk ==
  ASSUME NEW k \in Nat, k > 0, NEW v \in Walks(k - 1), IsGraph(graph),
         v[k - 1] \in DOMAIN graph, NEW n \in graph[v[k - 1]]
  PROVE  \E w \in Walks(k) : w[k] = n
<1> DEFINE w == [i \in 0 .. k |-> IF i = k THEN n ELSE v[i]]
<1>1. /\ v \in [0 .. k - 1 -> Names] /\ v[0] = StartNode
      /\ \A i \in 0 .. (k - 1) - 1 : v[i] \in DOMAIN graph /\ v[i + 1] \in graph[v[i]]
  BY DEF Walks
<1>2. n \in Names
  BY DEF IsGraph
<1>3. w \in [0 .. k -> Names] /\ w[0] = StartNode /\ w[k] = n
  BY <1>1, <1>2
<1>4. ASSUME NEW i \in 0 .. k - 1
      PROVE  w[i] \in DOMAIN graph /\ w[i + 1] \in graph[w[i]]
  <2>1. CASE i = k - 1
    <3>1. w[i] = v[k - 1] /\ w[i + 1] = n
      BY <2>1
    <3> HIDE DEF w
    <3> QED BY <3>1
  <2>2. CASE i # k - 1
    <3>1. i \in 0 .. (k - 1) - 1 /\ w[i] = v[i] /\ w[i + 1] = v[i + 1]
      BY <2>2
    <3> HIDE DEF w
    <3> QED BY <1>1, <3>1
  <2> QED BY <2>1, <2>2
<1> HIDE DEF w
<1>5. w \in Walks(k)
  BY <1>3, <1>4 DEF Walks
<1> QED BY <1>3, <1>5

LEMMA NodesAtAreEnds ==
  ASSUME IsGraph(graph), NEW k \in 0 .. MaxRounds
  PROVE  NodesAt[k] = {w[k] : w \in Walks(k)}
<1> DEFINE Ends(i) == {w[i] : w \in Walks(i)}
           T == {i \in 0 .. MaxRounds : NodesAt[i] # Ends(i)}
<1> SUFFICES ASSUME T # {} PROVE FALSE
  OBVIOUS
<1>0. MaxRounds \in Nat
  BY GraphAssumption
<1>1. PICK m \in T : \A i \in T : m <= i
  <2>1. T \subseteq Nat
    BY <1>0
  <2> QED BY <2>1, SmallestElement
<1>2. m \in 0 .. MaxRounds /\ NodesAt[m] # Ends(m)
  OBVIOUS
<1>3. CASE m = 0
  <2> DEFINE w == [i \in 0 .. 0 |-> StartNode]
  <2>1. w \in Walks(0) /\ w[0] = StartNode
    BY GraphAssumption DEF Walks
  <2>2. \A u \in Walks(0) : u[0] = StartNode
    BY DEF Walks
  <2>3. Ends(0) = {StartNode}
    BY <2>1, <2>2
  <2> QED BY <1>2, <1>3, <2>3, NodesAtUnfolds
<1>4. CASE m # 0
  <2>1. m \in 1 .. MaxRounds /\ m \in Nat /\ m > 0
        /\ m - 1 \in 0 .. MaxRounds /\ m - 1 \notin T
    BY <1>0, <1>1, <1>2, <1>4
  <2>2. NodesAt[m - 1] = Ends(m - 1)
    BY <2>1
  <2>3. NodesAt[m] = NeighboursOf(NodesAt[m - 1])
    BY <2>1, NodesAtUnfolds
  <2>4. ASSUME NEW n \in NodesAt[m]
        PROVE  n \in Ends(m)
    <3>1. PICK p \in NodesAt[m - 1] \cap DOMAIN graph : n \in graph[p]
      BY <2>3 DEF NeighboursOf
    <3>2. PICK v \in Walks(m - 1) : v[m - 1] = p
      BY <2>2, <3>1
    <3>3. \E w \in Walks(m) : w[m] = n
      BY <2>1, <3>1, <3>2, LongerWalk
    <3> QED BY <3>3
  <2>5. ASSUME NEW w \in Walks(m)
        PROVE  w[m] \in NodesAt[m]
    <3>1. PICK v \in Walks(m - 1) :
            v[m - 1] = w[m - 1] /\ w[m - 1] \in DOMAIN graph /\ w[m] \in graph[w[m - 1]]
      BY <2>1, Shortened
    <3>2. w[m - 1] \in NodesAt[m - 1]
      BY <2>2, <3>1
    <3> QED BY <2>3, <3>1, <3>2 DEF NeighboursOf
  <2> QED BY <1>2, <2>4, <2>5
<1> QED BY <1>3, <1>4

(* A backpointer that spells a walk leads to a node at that many steps. *)
LEMMA SpelledIsAt ==
  ASSUME IsGraph(graph), NEW x \in Lines, NEW n \in Names, SpellsWalk(x, n),
         x.dist <= MaxRounds
  PROVE  /\ n \in NodesAt[x.dist]
         /\ x.dist > 0 => StartNode \in DOMAIN graph
<1> DEFINE b == WithoutNull(x.back)
           p == Append(b, n)
           d == x.dist
<1>1. d \in 0 .. MaxRounds /\ d \in Nat
  BY GraphAssumption DEF Lines
<1>2. b \in Seq(Names \cup {NullText})
  BY DEF Lines, WithoutNull
<1>3. /\ Len(p) = d + 1 /\ p[1] = StartNode
      /\ \A i \in 1 .. Len(p) - 1 : p[i] \in DOMAIN graph /\ p[i + 1] \in graph[p[i]]
  BY DEF SpellsWalk
<1>4. p[d + 1] = n
  BY <1>1, <1>2, <1>3
<1> HIDE DEF p, d
<1> DEFINE w == [i \in 0 .. d |-> p[i + 1]]
<1>5. ASSUME NEW i \in 0 .. d - 1
      PROVE  w[i] \in DOMAIN graph /\ w[i + 1] \in graph[w[i]]
  <2>1. i + 1 \in 1 .. Len(p) - 1 /\ w[i] = p[i + 1] /\ w[i + 1] = p[(i + 1) + 1]
    BY <1>1, <1>3
  <2> HIDE DEF w
  <2> QED BY <1>3, <2>1
<1>6. w[0] = StartNode /\ w[d] = n
  BY <1>1, <1>3, <1>4
<1>7. w \in [0 .. d -> Names]
  <2> SUFFICES ASSUME NEW i \in 0 .. d PROVE p[i + 1] \in Names
    OBVIOUS
  <2>1. CASE i = d
    BY <1>4, <2>1
  <2>2. CASE i # d
    <3>1. i \in 0 .. d - 1 /\ w[i] = p[i + 1]
      BY <1>1, <2>2
    <3> HIDE DEF w
    <3> QED BY <1>5, <3>1 DEF IsGraph
  <2> QED BY <2>1, <2>2
<1> HIDE DEF w
<1>8. w \in Walks(d)
  BY <1>5, <1>6, <1>7 DEF Walks
<1>9. n \in NodesAt[d]
  BY <1>1, <1>6, <1>8, NodesAtAreEnds
<1>10. d > 0 => StartNode \in DOMAIN graph
  BY <1>1, <1>5, <1>6
<1> QED BY <1>9, <1>10 DEF d
-----------------------------------------------------------------------------
(* After a failed job nothing is left that a later job could count. *)
NoneAfterFailure ==
  failure # "none" =>
    /\ pc \in {"map", "reduce"} => DOMAIN line = {}
    /\ pc # "map" => DOMAIN output = {}
    /\ counter = 0 /\ pc # "done"

AllBeforeFailure ==
  failure = "none" =>
    /\ DOMAIN line = DOMAIN graph
    /\ pc \in {"check", "done"} => DOMAIN output = DOMAIN graph

(* No job before this one met the target, except at distance 0, which does *)
(* not count.                                                              *)
TargetUnmet ==
  targetNode \in DOMAIN line /\ IsDistanceSet(line[targetNode]) =>
    line[targetNode].dist = 0

TargetCounted ==
  pc # "map" /\ targetNode \in DOMAIN output /\ IsDistanceSet(output[targetNode]) =>
    output[targetNode].dist = counter

(* Whatever a line with a distance proposes to is waiting for reduce or    *)
(* has been written: a job that succeeds met no name without a line.       *)
AllProposed ==
  pc = "reduce" =>
    \A n \in DOMAIN line : IsDistanceSet(line[n]) =>
      \A k \in AdjacentNodeNames(n) : values[k] # {} \/ k \in DOMAIN output

Reached(i) ==
  /\ \A k \in 0 .. i : NodesAt[k] \subseteq DOMAIN graph
  /\ \A k \in 0 .. i - 1 : \A n \in NodesAt[k] : graph[n] # {}

GraphReached ==
  failure = "none" /\ StartNode \in DOMAIN graph =>
    Reached(IF pc \in {"map", "reduce"} THEN iter - 1 ELSE iter)

SearchInv ==
  /\ NoneAfterFailure /\ AllBeforeFailure
  /\ TargetUnmet /\ TargetCounted
  /\ AllProposed /\ GraphReached

LEMMA InitSearch == Init => SearchInv
<1> SUFFICES ASSUME Init PROVE SearchInv
  OBVIOUS
<1>1. /\ NoneAfterFailure /\ AllBeforeFailure /\ TargetUnmet /\ TargetCounted
      /\ AllProposed
  BY DEF Init, NoneAfterFailure, AllBeforeFailure, TargetUnmet, TargetCounted,
         AllProposed, IsDistanceSet
<1>2. GraphReached
  BY NodesAtUnfolds DEF Init, GraphReached, Reached
<1> QED BY <1>1, <1>2 DEF SearchInv

(* The nodes at k steps do not depend on where the search is. *)
LEMMA NodesAtStay == graph' = graph => NodesAt' = NodesAt
BY DEF NodesAt

LEMMA MapSearch == PathInv /\ SearchInv /\ Map => SearchInv'
<1> SUFFICES ASSUME PathInv, SearchInv, Map PROVE SearchInv'
  OBVIOUS
<1>0. /\ graph' = graph /\ targetNode' = targetNode /\ line' = line
      /\ iter' = iter /\ failure' = failure /\ NodesAt' = NodesAt
      /\ pc = "map" /\ pc' = "reduce" /\ output' = NoLines /\ counter' = 0
  BY NodesAtStay DEF Map, args
<1>1. NoneAfterFailure' /\ AllBeforeFailure' /\ TargetUnmet' /\ TargetCounted'
  BY <1>0 DEF SearchInv, NoneAfterFailure, AllBeforeFailure, TargetUnmet,
              TargetCounted, IsDistanceSet, NoLines
<1>2. AllProposed'
  <2> SUFFICES ASSUME NEW n \in DOMAIN line, IsDistanceSet(line[n]),
                      NEW k \in AdjacentNodeNames(n)
               PROVE  values'[k] # {}
    BY <1>0 DEF AllProposed, AdjacentNodeNames, IsDistanceSet
  <2>1. n \in DOMAIN graph /\ IsGraph(graph)
    BY DEF PathInv, TypeOK, IsLines
  <2>2. k \in Keys
    BY <2>1 DEF AdjacentNodeNames, IsGraph, Keys
  <2>3. AdjacentNode(n) \in values'[k]
    BY <2>2 DEF Map, Proposers
  <2> QED BY <2>3
<1>3. GraphReached'
  BY <1>0 DEF SearchInv, GraphReached, Reached
<1> QED BY <1>1, <1>2, <1>3 DEF SearchInv

LEMMA ReduceSearch ==
  ASSUME PathInv, CounterTrue, SearchInv, NEW key \in Keys, Reduce(key)
  PROVE  SearchInv'
<1>0. /\ graph' = graph /\ targetNode' = targetNode /\ line' = line
      /\ iter' = iter /\ failure' = failure /\ NodesAt' = NodesAt
      /\ pc = "reduce" /\ pc' = pc /\ key \in DOMAIN line /\ values[key] # {}
      /\ values' = [values EXCEPT ![key] = {}]
  BY NodesAtStay DEF Reduce, NextKey, args
<1>1. PICK x \in Chosen(key) :
        /\ output' = [n \in DOMAIN output \cup {key} |->
                        IF n = key THEN Written(x, key) ELSE output[n]]
        /\ counter' = IF key = targetNode THEN counter + Increment(x) ELSE counter
  BY DEF Reduce
<1>2. /\ counter \in Nat /\ values \in [Keys -> SUBSET Lines] /\ key \in Names
      /\ x \in Lines /\ failure = "none" /\ IsGraph(graph) /\ DOMAIN line \subseteq DOMAIN graph
  <2>1. TypeOK /\ values[key] \subseteq Lines /\ line[key] \in Lines /\ key \in Names
    BY <1>0 DEF PathInv, TypeOK, IsLines, IsGraph
  <2>2. failure = "none"
    BY <1>0 DEF SearchInv, NoneAfterFailure
  <2> QED BY <2>1, <2>2, <1>1 DEF TypeOK, IsLines, IsGraph, Keys, Chosen, Shortest
<1>3. Written(x, key).dist = x.dist /\ x.dist \in Nat
  BY <1>2, WrittenKeeps DEF Lines
<1>4. NoneAfterFailure' /\ AllBeforeFailure' /\ TargetUnmet' /\ GraphReached'
  BY <1>0, <1>2 DEF SearchInv, NoneAfterFailure, AllBeforeFailure, TargetUnmet,
              GraphReached, Reached, IsDistanceSet
<1>5. TargetCounted'
  <2>1. CASE key = targetNode
    <3>1. counter = 0
      BY <1>0, <1>2, <2>1 DEF CounterTrue
    <3> QED BY <1>0, <1>1, <1>3, <2>1, <3>1 DEF TargetCounted, Increment, IsDistanceSet
  <2>2. CASE key # targetNode
    BY <1>0, <1>1, <2>2 DEF SearchInv, TargetCounted, IsDistanceSet
  <2> QED BY <2>1, <2>2
<1>6. AllProposed'
  <2> SUFFICES ASSUME NEW n \in DOMAIN line, IsDistanceSet(line[n]),
                      NEW k \in AdjacentNodeNames(n)
               PROVE  values'[k] # {} \/ k \in DOMAIN output'
    BY <1>0 DEF AllProposed, AdjacentNodeNames, IsDistanceSet
  <2>1. k \in Keys
    BY <1>2 DEF AdjacentNodeNames, IsGraph, Keys
  <2>2. values[k] # {} \/ k \in DOMAIN output
    BY <1>0 DEF SearchInv, AllProposed
  <2>3. DOMAIN output' = DOMAIN output \cup {key}
    BY <1>1
  <2> QED BY <1>0, <1>2, <2>1, <2>2, <2>3
<1> QED BY <1>4, <1>5, <1>6 DEF SearchInv

(* When a job has succeeded, the nodes one step further have lines, and    *)
(* their predecessors have neighbours.                                     *)
LEMMA FurtherReached ==
  ASSUME PathInv, SearchInv, pc = "reduce", values = NoValues,
         failure = "none", StartNode \in DOMAIN graph
  PROVE  Reached(iter)
<1>1. /\ Reached(iter - 1) /\ DOMAIN line = DOMAIN graph /\ AllProposed
      /\ IsGraph(graph) /\ iter \in 1 .. MaxRounds /\ Covers(line, iter - 1)
      /\ DOMAIN output \subseteq DOMAIN line
      /\ \A n \in DOMAIN line : line[n].dist \in Nat
  BY DEF SearchInv, GraphReached, AllBeforeFailure, PathInv, TypeOK, IsLines,
         Lines, OutputWhole
<1>2. iter \in Nat /\ MaxRounds \in Nat /\ MaxRounds < MaxValue
  BY <1>1, GraphAssumption
<1>3. ASSUME NEW k \in 0 .. iter - 1, NEW n \in NodesAt[k]
      PROVE  graph[n] # {} /\ graph[n] \subseteq DOMAIN graph
  <2>1. n \in DOMAIN line
    BY <1>1 DEF Reached
  <2>2. k \in 0 .. MaxRounds
    BY <1>1, <1>2
  <2>3. PICK w \in Walks(k) : w[k] = n
    BY <1>1, <2>2, NodesAtAreEnds
  <2>4. line[n].dist <= k
    BY <1>1, <2>1, <2>3 DEF Covers
  <2>5. IsDistanceSet(line[n])
    BY <1>1, <1>2, <2>1, <2>4 DEF IsDistanceSet
  <2>6. \A j \in AdjacentNodeNames(n) : j \in DOMAIN graph
    <3> TAKE j \in AdjacentNodeNames(n)
    <3>1. j \in Keys
      BY <1>1, <2>1 DEF AdjacentNodeNames, IsGraph, Keys
    <3>2. values[j] = {}
      BY <3>1 DEF NoValues
    <3> QED BY <1>1, <2>1, <2>5, <3>2 DEF AllProposed
  <2>7. Blank \notin DOMAIN graph
    BY <1>1, GraphAssumption DEF IsGraph, Blank
  <2> QED BY <2>6, <2>7 DEF AdjacentNodeNames
<1>4. NodesAt[iter] \subseteq DOMAIN graph
  <2>1. NodesAt[iter] = NeighboursOf(NodesAt[iter - 1])
    BY <1>1, NodesAtUnfolds
  <2>2. iter - 1 \in 0 .. iter - 1
    BY <1>1
  <2> QED BY <1>3, <2>1, <2>2 DEF NeighboursOf
<1>5. \A k \in 0 .. iter : NodesAt[k] \subseteq DOMAIN graph
  <2> TAKE k \in 0 .. iter
  <2>1. k \in 0 .. iter - 1 \/ k = iter
    BY <1>2
  <2> QED BY <1>1, <1>4, <2>1 DEF Reached
<1> QED BY <1>3, <1>5 DEF Reached

LEMMA CommitSearch == PathInv /\ SearchInv /\ Commit => SearchInv'
<1> SUFFICES ASSUME PathInv, SearchInv, Commit PROVE SearchInv'
  OBVIOUS
<1>0. /\ UNCHANGED <<graph, targetNode, line, values, output, counter, iter, failure>>
      /\ pc = "reduce" /\ pc' = "check" /\ values = NoValues /\ NodesAt' = NodesAt
  BY NodesAtStay DEF Commit, args
<1>1. failure = "none" => DOMAIN output = DOMAIN graph
  <2>1. DOMAIN line \subseteq Keys
    BY DEF PathInv, TypeOK, IsLines, IsGraph, Keys
  <2>2. \A n \in DOMAIN line : values[n] = {}
    BY <2>1, <1>0 DEF NoValues
  <2> QED BY <2>2, <1>0 DEF PathInv, OutputWhole, SearchInv, AllBeforeFailure
<1>2. /\ NoneAfterFailure' /\ AllBeforeFailure' /\ TargetUnmet' /\ TargetCounted'
      /\ AllProposed'
  BY <1>0, <1>1 DEF SearchInv, NoneAfterFailure, AllBeforeFailure, TargetUnmet,
              TargetCounted, AllProposed, IsDistanceSet
<1>3. GraphReached'
  BY <1>0, FurtherReached DEF GraphReached, Reached
<1> QED BY <1>2, <1>3 DEF SearchInv

LEMMA FailSearch ==
  ASSUME SearchInv, NEW why \in {"threw", "lost"}, JobFails(why)
  PROVE  SearchInv'
BY DEF JobFails, args, NoLines, SearchInv, NoneAfterFailure, AllBeforeFailure,
       TargetUnmet, TargetCounted, AllProposed, GraphReached, IsDistanceSet

LEMMA LoopSearch == PathInv /\ SearchInv /\ (Break \/ NextJob) => SearchInv'
<1> SUFFICES ASSUME PathInv, SearchInv, Break \/ NextJob PROVE SearchInv'
  OBVIOUS
<1>0. /\ graph' = graph /\ targetNode' = targetNode /\ output' = output
      /\ counter' = counter /\ failure' = failure /\ NodesAt' = NodesAt
      /\ iter \in Nat /\ pc = "check"
  BY NodesAtStay DEF Break, NextJob, args, PathInv, TypeOK
<1>1. CASE Break
  <2>1. line' = line /\ iter' = iter /\ pc' = "done" /\ counter # 0
    BY <1>1 DEF Break
  <2> QED
    BY <1>0, <2>1 DEF SearchInv, NoneAfterFailure, AllBeforeFailure, TargetUnmet,
       TargetCounted, AllProposed, GraphReached, Reached, IsDistanceSet
<1>2. CASE NextJob
  <2>1. line' = output /\ iter' = iter + 1 /\ pc' = "map" /\ counter = 0
    BY <1>2 DEF NextJob
  <2>2. iter' - 1 = iter
    BY <1>0, <2>1
  <2>3. GraphReached'
    BY <1>0, <2>1, <2>2 DEF SearchInv, GraphReached, Reached
  <2> QED
    BY <1>0, <2>1, <2>3 DEF SearchInv, NoneAfterFailure, AllBeforeFailure,
       TargetUnmet, TargetCounted, AllProposed, IsDistanceSet
<1> QED BY <1>1, <1>2

LEMMA SearchInvariant == Spec => []SearchInv
<1>1. PathInv /\ CounterTrue /\ SearchInv /\ [Next]_vars => SearchInv'
  <2> SUFFICES ASSUME PathInv, CounterTrue, SearchInv, [Next]_vars PROVE SearchInv'
    OBVIOUS
  <2>1. CASE Map
    BY <2>1, MapSearch
  <2>2. ASSUME NEW k \in Keys, Reduce(k) PROVE SearchInv'
    BY <2>2, ReduceSearch
  <2>3. ASSUME NEW k \in Keys, ReduceThrows(k) PROVE SearchInv'
    BY <2>3, FailSearch DEF ReduceThrows
  <2>4. CASE Commit
    BY <2>4, CommitSearch
  <2>5. CASE Break \/ NextJob
    BY <2>5, LoopSearch
  <2>6. CASE JobLost
    BY <2>6, FailSearch DEF JobLost
  <2>7. CASE UNCHANGED vars
    <3>1. NodesAt' = NodesAt
      BY <2>7, NodesAtStay DEF vars, args
    <3> QED
      BY <2>7, <3>1 DEF vars, args, SearchInv, NoneAfterFailure, AllBeforeFailure,
         TargetUnmet, TargetCounted, AllProposed, AdjacentNodeNames, GraphReached,
         Reached, IsDistanceSet
  <2> QED BY <2>1, <2>2, <2>3, <2>4, <2>5, <2>6, <2>7 DEF Next, Main
<1> QED BY <1>1, InitSearch, PathInvariant, CounterInvariant, PTL DEF Spec

(* A target that a job counts was never at a distance before, so the job   *)
(* that counts it is the one with the number of its distance.              *)
LEMMA CountedInTime ==
  ASSUME PathInv, CounterTrue, SearchInv, pc = "done"
  PROVE  /\ targetNode \in NodesAt[iter] /\ StartNode \in DOMAIN graph
         /\ \A k \in 0 .. iter - 1 : targetNode \notin NodesAt[k]
<1> DEFINE x == output[targetNode]
           d == x.dist
<1>1. /\ targetNode \in DOMAIN output /\ IsDistanceSet(x) /\ d = counter /\ counter > 0
      /\ failure = "none" /\ DOMAIN output = DOMAIN graph /\ DOMAIN line = DOMAIN graph
  BY DEF CounterTrue, SearchInv, NoneAfterFailure, AllBeforeFailure
<1>2. /\ x \in Lines /\ targetNode \in Names /\ IsGraph(graph)
      /\ iter \in 1 .. MaxRounds /\ line[targetNode] \in Lines
  BY <1>1 DEF PathInv, TypeOK, IsLines
<1>3. d <= iter /\ SpellsWalk(x, targetNode)
  BY <1>1 DEF PathInv, OutputReal
<1>4. /\ d \in Nat /\ iter \in Nat /\ MaxRounds \in Nat /\ MaxRounds < MaxValue
      /\ line[targetNode].dist \in Nat /\ d \in 0 .. MaxRounds
  BY <1>2, <1>3, GraphAssumption DEF Lines
<1>5. targetNode \in NodesAt[d] /\ StartNode \in DOMAIN graph
  BY <1>1, <1>2, <1>3, <1>4, SpelledIsAt
<1>6. ASSUME NEW k \in 0 .. iter, targetNode \in NodesAt[k]
      PROVE  d <= k
  <2>1. k \in 0 .. MaxRounds
    BY <1>2, <1>4
  <2>2. PICK w \in Walks(k) : w[k] = targetNode
    BY <1>2, <1>6, <2>1, NodesAtAreEnds
  <2> QED BY <1>1, <2>2 DEF PathInv, Covers
<1>7. d = iter
  <2> SUFFICES ASSUME d # iter PROVE FALSE
    OBVIOUS
  <2>1. d \in 0 .. iter - 1
    BY <1>3, <1>4
  <2>2. PICK w \in Walks(d) : w[d] = targetNode
    BY <1>2, <1>4, <1>5, NodesAtAreEnds
  <2>3. line[targetNode].dist <= d
    BY <1>1, <2>1, <2>2 DEF PathInv, Covers
  <2>4. IsDistanceSet(line[targetNode])
    BY <1>4, <2>3 DEF IsDistanceSet
  <2>5. line[targetNode].dist = 0 /\ SpellsWalk(line[targetNode], targetNode)
    BY <1>1, <2>4 DEF SearchInv, TargetUnmet, PathInv, LinesReal
  <2>6. targetNode \in NodesAt[0]
    BY <1>2, <1>4, <2>5, SpelledIsAt
  <2>7. d <= 0
    BY <1>4, <1>6, <2>6
  <2> QED BY <1>1, <1>4, <2>7
<1> HIDE DEF x, d
<1>8. \A k \in 0 .. iter - 1 : targetNode \notin NodesAt[k]
  BY <1>4, <1>6, <1>7
<1> QED BY <1>5, <1>7, <1>8

(* Main leaves its loop only in the job whose number is the target's       *)
(* distance, and never after a failed job, for any graph.                  *)
THEOREM LoopEndsInTime == Spec => []EndsAtDistance
<1>1. PathInv /\ CounterTrue /\ SearchInv => EndsAtDistance
  <2> SUFFICES ASSUME PathInv, CounterTrue, SearchInv, pc = "done"
               PROVE  SearchableIn(iter) /\ failure = "none"
    BY DEF EndsAtDistance
  <2>1. failure = "none"
    BY DEF SearchInv, NoneAfterFailure
  <2>2. /\ targetNode \in NodesAt[iter] /\ StartNode \in DOMAIN graph
        /\ \A k \in 0 .. iter - 1 : targetNode \notin NodesAt[k]
    BY CountedInTime
  <2>3. Reached(iter)
    BY <2>1, <2>2 DEF SearchInv, GraphReached
  <2> QED BY <2>1, <2>2, <2>3 DEF SearchableIn, Reached
<1> QED BY <1>1, PathInvariant, CounterInvariant, SearchInvariant, PTL
=============================================================================
