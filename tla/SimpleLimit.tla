----------------------------- MODULE SimpleLimit -----------------------------
(***************************************************************************)
(* Test_Limit, ApplicationLimit.Simple.SimpleLimit: a limiter on the       *)
(* number of requests in progress, built from one AtomicInteger.  Every    *)
(* request takes a token first and looks at what is left afterwards, so a  *)
(* rejected request too holds a token until its finally block runs.        *)
(***************************************************************************)
EXTENDS Integers, FiniteSets

CONSTANTS Threads,  \* the threads main starts; each makes one request
          Limit     \* the initial value of requestCount (10 in the code)

ASSUME ThreadsAssumption == IsFiniteSet(Threads)
ASSUME LimitAssumption == Limit \in Nat \ {0}

VARIABLES requestCount,  \* the AtomicInteger
          latch,         \* the CountDownLatch that releases the threads together
          pc,            \* where each thread is
          answer         \* history: what each thread was told

vars == <<requestCount, latch, pc, answer>>

Locations == {"new", "await", "request", "serving", "rejecting", "done"}

Init ==
  /\ requestCount = Limit
  /\ latch = 1
  /\ pc = [t \in Threads |-> "new"]
  /\ answer = [t \in Threads |-> "none"]

(* main starts the threads one after another, then opens the latch. *)
Start(t) ==
  /\ pc[t] = "new"
  /\ pc' = [pc EXCEPT ![t] = "await"]
  /\ UNCHANGED <<requestCount, latch, answer>>

CountDown ==
  /\ \A t \in Threads : pc[t] # "new"
  /\ latch = 1
  /\ latch' = 0
  /\ UNCHANGED <<requestCount, pc, answer>>

Await(t) ==
  /\ pc[t] = "await"
  /\ latch = 0
  /\ pc' = [pc EXCEPT ![t] = "request"]
  /\ UNCHANGED <<requestCount, latch, answer>>

(* if (requestCount.decrementAndGet() < 0): the value left by this         *)
(* thread's own decrement alone decides the branch.                        *)
AdmitsOneTooMany(left) == left >= -1   \* mutant: compares with <= -1
Admits(left) == left >= 0

Decrement(t) ==
  LET left == requestCount - 1 IN
  /\ pc[t] = "request"
  /\ requestCount' = left
  /\ \/ /\ Admits(left)
        /\ pc' = [pc EXCEPT ![t] = "serving"]
        /\ answer' = [answer EXCEPT ![t] = "accepted"]
     \/ /\ ~Admits(left)
        /\ pc' = [pc EXCEPT ![t] = "rejecting"]
        /\ answer' = [answer EXCEPT ![t] = "rejected"]
  /\ UNCHANGED latch

(* finally: both branches give their token back. *)
RestoredIfServed(t) ==                 \* mutant: no finally on rejection
  IF pc[t] = "serving" THEN requestCount + 1 ELSE requestCount
Restored(t) == requestCount + 1

Increment(t) ==
  /\ pc[t] \in {"serving", "rejecting"}
  /\ requestCount' = Restored(t)
  /\ pc' = [pc EXCEPT ![t] = "done"]
  /\ UNCHANGED <<latch, answer>>

DoRequest(t) == Decrement(t) \/ Increment(t)

AllDone == \A t \in Threads : pc[t] = "done"

(* main blocks on System.in.read() once the threads are through. *)
Finished == AllDone /\ latch = 0 /\ UNCHANGED vars

Next ==
  \/ \E t \in Threads : Start(t) \/ Await(t) \/ DoRequest(t)
  \/ CountDown
  \/ Finished

(* The scheduler runs every started thread, and main itself, to the end. *)
Fairness ==
  /\ \A t \in Threads : WF_vars(Start(t) \/ Await(t) \/ DoRequest(t))
  /\ WF_vars(CountDown)

Spec == Init /\ [][Next]_vars
FairSpec == Spec /\ Fairness
-----------------------------------------------------------------------------
Holding  == {t \in Threads : pc[t] \in {"serving", "rejecting"}}
Serving  == {t \in Threads : pc[t] = "serving"}
Accepted == {t \in Threads : answer[t] = "accepted"}
Rejected == {t \in Threads : answer[t] = "rejected"}

(* Type invariant: the counter stays between Limit and Limit minus one     *)
(* token for every thread, whatever decrementAndGet and finally interleave.*)
TypeOK ==
  /\ requestCount \in (Limit - Cardinality(Threads)) .. Limit
  /\ latch \in {0, 1}
  /\ pc \in [Threads -> Locations]
  /\ answer \in [Threads -> {"none", "accepted", "rejected"}]

(* At most Limit accepted requests are ever in progress together, although *)
(* the check comes after the decrement and the count may go far below 0.   *)
ServingBound == Cardinality(Serving) <= Limit

(* Tokens are neither lost nor made: the counter is always Limit minus the *)
(* threads between decrementAndGet and the finally block.                  *)
TokenConservation == requestCount = Limit - Cardinality(Holding)

(* Rejections that hold tokens do not starve the service: no one is        *)
(* rejected before Limit requests have been accepted.                      *)
RejectOnlyAfterLimit == Rejected # {} => Cardinality(Accepted) >= Limit

(* Liveness: every request is answered and its token given back. *)
EveryoneAnswered == <>[](AllDone /\ requestCount = Limit)

(* The limiter implements the abstract admission gate. *)
Gate == INSTANCE AdmissionGate
          WITH inside <- Serving, admitted <- Accepted, refused <- Rejected

ImplementsGate == Gate!Spec
=============================================================================
