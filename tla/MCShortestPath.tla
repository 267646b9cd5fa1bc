---------------------------- MODULE MCShortestPath ----------------------------
(***************************************************************************)
(* Input files for ShortestPath: four names, of which the last may be      *)
(* without a line; at most two neighbours each, or none.                   *)
(***************************************************************************)
EXTENDS ShortestPath, FiniteSets

FourNames == 1 .. 4

Others(n) == {a \in SUBSET (FourNames \ {n}) : Cardinality(a) <= 2}

InputFiles ==
  UNION {{g \in [1 .. last -> SUBSET FourNames] :
            \A n \in 1 .. last : g[n] \in Others(n)} : last \in {3, 4}}
=============================================================================
