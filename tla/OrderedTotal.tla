---------------------------- MODULE OrderedTotal ----------------------------
(***************************************************************************)
(* What the transactional topology promises: one global total to which     *)
(* batch after batch is added, each exactly once and in order.  The total  *)
(* lives in memory, so losing the process starts it again from zero, and   *)
(* then the batch whose commit had not been recorded may be the first to   *)
(* be added to the new total.                                              *)
(***************************************************************************)
EXTENDS Naturals

CONSTANT BatchSize  \* records in a batch

VARIABLES total,  \* the records counted since the process started
          next    \* the transaction that is to be added next

totalVars == <<total, next>>

Init == total = 0 /\ next = 1

Apply ==
  /\ total' = total + BatchSize
  /\ next' = next + 1

Restart ==
  /\ total' = 0
  /\ next' \in {next, next - 1}

Next == Apply \/ Restart

Spec == Init /\ [][Next]_totalVars
=============================================================================
