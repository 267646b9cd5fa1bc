----------------------------- MODULE ShortestPath -----------------------------
(***************************************************************************)
(* Hadoop-Projects, org.robby.mr.shortestpath: breadth-first search by     *)
(* MapReduce.  Main writes one line per node with its distance, runs a job *)
(* over the lines, and runs the next job over the output of the last, until *)
(* the job's counter says that the target was reached.  Hadoop is external: *)
(* it sorts what map writes by key, hands the values of a key to reduce in *)
(* any order, and leaves an empty output directory behind a failed job.    *)
(*                                                                         *)
(* Names are numbered in the order of their text.  The neighbours of a     *)
(* node without any are the one name "" (Blank), for that is what the      *)
(* trailing separator of its line is split into.  A missing backpointer is *)
(* written as the text "null" (NullText), which does not read back as none. *)
(***************************************************************************)
EXTENDS Integers, Sequences

CONSTANTS Names,      \* the names of nodes
          StartNode,  \* args[0]
          Graphs,     \* the input files: names with a line, and their neighbours
          MaxValue,   \* Integer.MAX_VALUE, a distance not set
          MaxRounds   \* bound: jobs that are run

IsGraph(g) == DOMAIN g \subseteq Names /\ g \in [DOMAIN g -> SUBSET Names]

ASSUME GraphAssumption ==
  /\ Names \subseteq Nat \ {0}
  /\ StartNode \in Names
  /\ \A g \in Graphs : IsGraph(g)
  /\ MaxRounds \in Nat \ {0}
  /\ MaxValue \in Nat /\ MaxRounds < MaxValue

VARIABLES
  graph,       \* the input file
  targetNode,  \* args[1]
  line,        \* the lines of the job's input: distance and backpointer
  values,      \* what map has written, by key
  output,      \* what reduce has written
  counter,     \* TARGET_NODE_FOUND
  iter,        \* number of the job
  pc,          \* where Main and its job are
  failure      \* history: why a job has failed

args == <<graph, targetNode>>
vars == <<args, line, values, output, counter, iter, pc, failure>>

Blank == 0
NullText == -1
Keys == Names \cup {Blank}

NoValues == [k \in Keys |-> {}]
NoLines == [n \in {} |-> {}]

(* createInputFile *)
Init ==
  /\ graph \in Graphs /\ targetNode \in Names
  /\ line = [n \in DOMAIN graph |->
               [dist |-> IF n = StartNode THEN 0 ELSE MaxValue, back |-> <<>>]]
  /\ values = NoValues /\ output = NoLines
  /\ counter = 0 /\ iter = 1
  /\ pc = "map" /\ failure = "none"

IsDistanceSet(x) == x.dist # MaxValue

AdjacentNodeNames(n) == IF graph[n] = {} THEN {Blank} ELSE graph[n]

ConstructBackpointer(n) == Append(line[n].back, n)

AdjacentNode(n) ==
  [dist |-> line[n].dist + 1, back |-> ConstructBackpointer(n)]

(* Map.map over all lines: each is written again under its own name and,   *)
(* once its distance is set, proposed to its neighbours.                   *)
Proposers(k) ==
  {n \in DOMAIN line : IsDistanceSet(line[n]) /\ k \in AdjacentNodeNames(n)}

Map ==
  /\ pc = "map"
  /\ values' = [k \in Keys |-> {line[n] : n \in DOMAIN line \cap {k}}
                                 \cup {AdjacentNode(n) : n \in Proposers(k)}]
  /\ output' = NoLines /\ counter' = 0
  /\ pc' = "reduce"
  /\ UNCHANGED <<args, line, iter, failure>>

NextKey(k) ==
  /\ pc = "reduce"
  /\ values[k] # {}
  /\ \A j \in Keys : j < k => values[j] = {}

(* The values that may be shortestAdjacentNode: the first of the shortest  *)
(* in the order of reduce's values.  If no distance is set, originalNode   *)
(* is written as it is.                                                    *)
AnyProposed(k) ==                      \* mutant: the last value read wins
  {x \in values[k] : IsDistanceSet(x)}
Shortest(k) ==
  {x \in values[k] : IsDistanceSet(x) /\ \A y \in values[k] : x.dist <= y.dist}

Chosen(k) ==
  IF \A y \in values[k] : ~IsDistanceSet(y) THEN {line[k]} ELSE Shortest(k)

KeepsBackpointer(x, k) ==              \* mutant: setBackpointer is missing
  [dist |-> x.dist,
   back |-> IF line[k].back = <<>> THEN <<NullText>> ELSE line[k].back]
Written(x, k) ==
  [x EXCEPT !.back = IF @ = <<>> THEN <<NullText>> ELSE @]

CountsEveryLine(x) == 1                \* mutant: incremented for any line of target
CountsSteps(x) == x.dist - 1           \* mutant: nodes in between
Increment(x) == IF IsDistanceSet(x) THEN x.dist ELSE 0

Reduce(k) ==
  /\ NextKey(k) /\ k \in DOMAIN line
  /\ \E x \in Chosen(k) :
       /\ output' = [n \in DOMAIN output \cup {k} |->
                       IF n = k THEN Written(x, k) ELSE output[n]]
       /\ counter' = IF k = targetNode THEN counter + Increment(x) ELSE counter
  /\ values' = [values EXCEPT ![k] = {}]
  /\ UNCHANGED <<args, line, iter, pc, failure>>

Commit ==
  /\ pc = "reduce" /\ values = NoValues
  /\ pc' = "check"
  /\ UNCHANGED <<args, line, values, output, counter, iter, failure>>

(* A failed job leaves nothing in its output directory, and the counters   *)
(* of its tasks are not added up.                                          *)
JobFails(why) ==
  /\ values' = NoValues /\ output' = NoLines /\ counter' = 0
  /\ pc' = "check"
  /\ failure' = IF failure = "none" THEN why ELSE failure
  /\ UNCHANGED <<args, line, iter>>

(* There is no originalNode for a key that has no line of its own.         *)
ReduceThrows(k) ==
  /\ NextKey(k) /\ k \notin DOMAIN line
  /\ JobFails("threw")

(* The cluster fails the job. *)
JobLost == pc \in {"map", "reduce"} /\ JobFails("lost")

(* findShortestPath returns whether the counter has moved; whether the job *)
(* succeeded is not looked at.                                             *)
Break ==
  /\ pc = "check" /\ counter > 0
  /\ pc' = "done"
  /\ UNCHANGED <<args, line, values, output, counter, iter, failure>>

NextJob ==
  /\ pc = "check" /\ counter = 0
  /\ iter < MaxRounds
  /\ line' = output
  /\ iter' = iter + 1
  /\ pc' = "map"
  /\ UNCHANGED <<args, values, output, counter, failure>>

Main ==
  Map \/ (\E k \in Keys : Reduce(k) \/ ReduceThrows(k)) \/ Commit \/ Break \/ NextJob

Next == Main \/ JobLost

Spec == Init /\ [][Next]_vars

FairSpec == Spec /\ WF_vars(Main)
-----------------------------------------------------------------------------
(* Reference definition: the walks of k steps from the start.              *)
Walks(k) ==
  {w \in [0 .. k -> Names] :
     w[0] = StartNode /\ \A i \in 0 .. k - 1 :
                           w[i] \in DOMAIN graph /\ w[i + 1] \in graph[w[i]]}

Lines ==
  [dist : Nat, back : Seq(Names \cup {NullText})]

IsLines(f) ==
  /\ DOMAIN f \subseteq DOMAIN graph
  /\ \A n \in DOMAIN f : f[n] \in Lines

(* Type invariant: among others, a distance set is less than the number of *)
(* the job that reads it, and the output never names a node without a line. *)
TypeOK ==
  /\ IsGraph(graph) /\ targetNode \in Names
  /\ IsLines(line) /\ IsLines(output)
  /\ \A n \in DOMAIN line : IsDistanceSet(line[n]) => line[n].dist < iter
  /\ values \in [Keys -> SUBSET Lines]
  /\ counter \in Nat /\ iter \in 1 .. MaxRounds
  /\ pc \in {"map", "reduce", "check", "done"}
  /\ failure \in {"none", "threw", "lost"}

(* After i jobs every node that a walk of at most i steps leads to has a   *)
(* distance no longer than that walk, whatever order reduce read the       *)
(* values in and whoever else proposed distances.                          *)
DistancesShortest ==
  pc = "map" =>
    \A k \in 0 .. iter - 1 : \A w \in Walks(k) :
      w[k] \in DOMAIN line => line[w[k]].dist <= k

WithoutNull(b) == IF b # <<>> /\ b[1] = NullText THEN Tail(b) ELSE b

SpellsWalk(x, n) ==
  LET path == Append(WithoutNull(x.back), n) IN
  /\ Len(path) = x.dist + 1
  /\ path[1] = StartNode
  /\ \A i \in 1 .. Len(path) - 1 :
       path[i] \in DOMAIN graph /\ path[i + 1] \in graph[path[i]]

(* In every job's input and output the backpointer spells a walk from the  *)
(* start whose length is the distance beside it, up to the text "null" in  *)
(* front, although ties may replace the backpointer of a node in every job. *)
PathsReal ==
  \A f \in {line, output} : \A n \in DOMAIN f :
    IsDistanceSet(f[n]) => SpellsWalk(f[n], n)

(* Reference definition: the nodes that walks of k steps lead to. *)
NodesAt ==
  LET at[k \in 0 .. MaxRounds] ==
        IF k = 0 THEN {StartNode}
        ELSE UNION {graph[n] : n \in at[k - 1] \cap DOMAIN graph}
  IN  at

(* The target is d steps from the start, and no job up to the d-th meets a *)
(* name without a line or a node without neighbours that proposes.         *)
SearchableIn(d) ==
  /\ targetNode \in NodesAt[d]
  /\ \A k \in 0 .. d : NodesAt[k] \subseteq DOMAIN graph
  /\ \A k \in 0 .. d - 1 :
       targetNode \notin NodesAt[k] /\ \A n \in NodesAt[k] : graph[n] # {}

(* The loop ends only in the job whose number is the target's distance,    *)
(* never after a failed job, and never if start and target are the same.   *)
EndsAtDistance ==
  pc = "done" => SearchableIn(iter) /\ failure = "none"

(* It does end there, unless the cluster fails a job: then no later job    *)
(* has any input, and Main does not look at the result.                    *)
LoopEnds ==
  (\E d \in 1 .. MaxRounds : SearchableIn(d)) ~> (pc = "done" \/ failure = "lost")
=============================================================================
