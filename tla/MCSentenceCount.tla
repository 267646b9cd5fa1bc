--------------------------- MODULE MCSentenceCount ---------------------------
(***************************************************************************)
(* Sentences for SentenceCount: two messages that share a word.            *)
(***************************************************************************)
EXTENDS SentenceCount, TLC

CONSTANTS m1, m2

TwoMessages == {m1, m2}
SharedWord == (m1 :> <<"spark", "storm">>) @@ (m2 :> <<"storm">>)
=============================================================================
