---------------------------- MODULE AdmissionGate ----------------------------
(***************************************************************************)
(* What a concurrency limiter promises its callers, whatever counter it    *)
(* uses: never more than Limit admitted requests at once, and nobody is    *)
(* turned away before Limit requests have been admitted.                   *)
(***************************************************************************)
EXTENDS Integers, FiniteSets

CONSTANTS Threads,  \* the callers; each makes one request
          Limit     \* how many requests may be in progress at once

VARIABLES inside,    \* admitted requests still in progress
          admitted,  \* every request ever admitted
          refused    \* every request ever turned away

gateVars == <<inside, admitted, refused>>

Init ==
  /\ inside = {}
  /\ admitted = {}
  /\ refused = {}

Admit(t) ==
  /\ t \notin admitted \cup refused
  /\ Cardinality(inside) < Limit
  /\ inside' = inside \cup {t}
  /\ admitted' = admitted \cup {t}
  /\ UNCHANGED refused

Refuse(t) ==
  /\ t \notin admitted \cup refused
  /\ Cardinality(admitted) >= Limit
  /\ refused' = refused \cup {t}
  /\ UNCHANGED <<inside, admitted>>

Leave(t) ==
  /\ t \in inside
  /\ inside' = inside \ {t}
  /\ UNCHANGED <<admitted, refused>>

Next == \E t \in Threads : Admit(t) \/ Refuse(t) \/ Leave(t)

Spec == Init /\ [][Next]_gateVars
=============================================================================
