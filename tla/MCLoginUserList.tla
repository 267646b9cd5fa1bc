--------------------------- MODULE MCLoginUserList ---------------------------
(***************************************************************************)
(* Symmetry for LoginUserList: nothing tells requests, sessions or names   *)
(* apart.                                                                  *)
(***************************************************************************)
EXTENDS LoginUserList, TLC

Symmetry ==
  Permutations(Requests) \cup Permutations(Sessions) \cup Permutations(Names)
=============================================================================
