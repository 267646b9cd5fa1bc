------------------------------ MODULE MCTxCount ------------------------------
(* The symmetry of the finite instances of TxCount.                        *)
EXTENDS TxCount, TLC

(* Attempt ids are drawn at random and never compared. *)
Symmetry == Permutations(Attempts)
=============================================================================
