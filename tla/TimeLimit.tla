------------------------------ MODULE TimeLimit ------------------------------
(***************************************************************************)
(* Test_Limit, ApplicationLimit.TimeWindow.TimeLimit: a limiter on the     *)
(* requests of a second.  A Guava cache maps the second a request read     *)
(* from the clock to the counter of that second; an entry expires two      *)
(* seconds after it was written.  A request looks its counter up, counts   *)
(* itself, and looks the counter up again to report it; time passes        *)
(* between the steps.                                                      *)
(*                                                                         *)
(* Time is counted in ticks from the moment the latch opens, which main    *)
(* may do anywhere within a second.  LoadingCache is external: it loads a  *)
(* missing or expired entry atomically.                                    *)
(***************************************************************************)
EXTENDS Integers, Sequences

CONSTANTS Threads,         \* the request threads (10 in main)
          Limit,           \* limit: accepted requests in a second (5)
          Second,          \* ticks in a second
          RunTime,         \* when main sets exit (3 seconds)
          MaxDelay,        \* longest time from reading the clock to the report
          MaxTime          \* bound: the clock stops

ASSUME LimitAssumption == Limit \in Nat \ {0}
ASSUME TimeAssumption ==
  /\ Second \in Nat \ {0}
  /\ RunTime \in Nat /\ MaxDelay \in Nat
  /\ MaxTime \in Nat /\ Second <= MaxTime

VARIABLES now,            \* the clock
          exit,           \* the flag that ends the threads
          counter,        \* the cache: its entry for each second
          counts,         \* the AtomicLongs loaded so far
          pc,             \* where each thread is
          since,          \* when it read the clock; when it fell asleep
          currentSecond,  \* local variable of doRequest
          ref,            \* the counter its first lookup returned
          mine,           \* what incrementAndGet returned
          shown,          \* history: the count last reported to it
          accepted,       \* history: accepted requests of each second
          rejected        \* history: seconds with a rejected request

requestVars == <<currentSecond, ref, mine>>
historyVars == <<shown, accepted, rejected>>
vars == <<now, exit, counter, counts, pc, since, requestVars, historyVars>>

Seconds == 0 .. MaxTime
Locations ==
  {"loop", "lookup", "increment", "report", "sleeping", "stopped"}

NoEntry == [ref |-> 0, written |-> 0]

Init ==
  /\ now \in 0 .. Second - 1
  /\ exit = FALSE
  /\ counter = [s \in Seconds |-> NoEntry]
  /\ counts = <<>>
  /\ pc = [t \in Threads |-> "loop"]
  /\ since = [t \in Threads |-> 0]
  /\ currentSecond = [t \in Threads |-> 0]
  /\ ref = [t \in Threads |-> 0]
  /\ mine = [t \in Threads |-> 0]
  /\ shown = [t \in Threads |-> 0]
  /\ accepted = [s \in Seconds |-> 0]
  /\ rejected = {}

Goto(t, loc) == pc' = [pc EXCEPT ![t] = loc]

(* while (!exit): the next request reads the clock. *)
RoundedUp(n) == (n + Second - 1) \div Second  \* mutant: Math.ceil
SecondOf(n) == n \div Second

ReadClock(t) ==
  /\ pc[t] = "loop" /\ ~exit
  /\ currentSecond' = [currentSecond EXCEPT ![t] = SecondOf(now)]
  /\ since' = [since EXCEPT ![t] = now]
  /\ Goto(t, "lookup")
  /\ UNCHANGED <<now, exit, counter, counts, ref, mine, historyVars>>

Stop(t) ==
  /\ pc[t] = "loop" /\ exit
  /\ Goto(t, "stopped")
  /\ UNCHANGED <<now, exit, counter, counts, since, requestVars, historyVars>>

(* counter.get(s): expireAfterWrite(2, TimeUnit.SECONDS). *)
ExpiresAfterOne == Second              \* mutant: expireAfterWrite(1, ...)
ExpiresAfter == 2 * Second

Live(s) ==
  /\ counter[s] # NoEntry
  /\ now - counter[s].written < ExpiresAfter

Get(s) ==
  IF Live(s) THEN UNCHANGED <<counter, counts>>
  ELSE /\ counts' = Append(counts, 0)
       /\ counter' = [counter EXCEPT ![s] = [ref |-> Len(counts) + 1,
                                             written |-> now]]

Lookup(t) ==
  /\ pc[t] = "lookup"
  /\ Get(currentSecond[t])
  /\ ref' = [ref EXCEPT ![t] = counter'[currentSecond[t]].ref]
  /\ Goto(t, "increment")
  /\ UNCHANGED <<now, exit, since, currentSecond, mine, historyVars>>

(* incrementAndGet() > limit *)
TooManyAtLimit(n) == n >= Limit        \* mutant: >= for >
TooManyLate(n) == n > Limit + 1        \* mutant: compares before counting
TooMany(n) == n > Limit

Increment(t) ==
  LET n == counts[ref[t]] + 1 IN
  /\ pc[t] = "increment"
  /\ counts' = [counts EXCEPT ![ref[t]] = n]
  /\ mine' = [mine EXCEPT ![t] = n]
  /\ \/ /\ TooMany(n)
        /\ rejected' = rejected \cup {currentSecond[t]}
        /\ UNCHANGED accepted
     \/ /\ ~TooMany(n)
        /\ accepted' = [accepted EXCEPT ![currentSecond[t]] = @ + 1]
        /\ UNCHANGED rejected
  /\ Goto(t, "report")
  /\ UNCHANGED <<now, exit, counter, since, currentSecond, ref, shown>>

(* Either branch prints counter.get(currentSecond) and sleeps a second.    *)
Report(t) ==
  /\ pc[t] = "report"
  /\ Get(currentSecond[t])
  /\ shown' = [shown EXCEPT ![t] = counts'[counter'[currentSecond[t]].ref]]
  /\ since' = [since EXCEPT ![t] = now]
  /\ Goto(t, "sleeping")
  /\ UNCHANGED <<now, exit, requestVars, accepted, rejected>>

Wake(t) ==
  /\ pc[t] = "sleeping" /\ now - since[t] >= Second
  /\ Goto(t, "loop")
  /\ UNCHANGED <<now, exit, counter, counts, since, requestVars, historyVars>>

(* main *)
Exit ==
  /\ ~exit /\ now >= RunTime
  /\ exit' = TRUE
  /\ UNCHANGED <<now, counter, counts, pc, since, requestVars, historyVars>>

InRequest(t) == pc[t] \in {"lookup", "increment", "report"}

(* No request takes longer than MaxDelay, and main is on time. *)
Tick ==
  /\ now < MaxTime
  /\ \A t \in Threads : InRequest(t) => now - since[t] < MaxDelay
  /\ now >= RunTime => exit
  /\ now' = now + 1
  /\ UNCHANGED <<exit, counter, counts, pc, since, requestVars, historyVars>>

Finished ==
  /\ \A t \in Threads : pc[t] = "stopped"
  /\ now = MaxTime
  /\ UNCHANGED vars

DoRequest(t) == Lookup(t) \/ Increment(t) \/ Report(t)

Next ==
  \/ \E t \in Threads : ReadClock(t) \/ DoRequest(t) \/ Wake(t) \/ Stop(t)
  \/ Exit
  \/ Tick
  \/ Finished

Spec == Init /\ [][Next]_vars
-----------------------------------------------------------------------------
(* Type invariant: in particular no entry is written before its second.    *)
TypeOK ==
  /\ now \in 0 .. MaxTime /\ exit \in BOOLEAN
  /\ counts \in Seq(Nat)
  /\ counter \in [Seconds -> [ref : 0 .. Len(counts), written : 0 .. now]]
  /\ \A s \in Seconds :
       counter[s] # NoEntry => /\ counter[s].ref # 0
                               /\ counter[s].written >= s * Second
  /\ pc \in [Threads -> Locations]
  /\ since \in [Threads -> 0 .. now]
  /\ currentSecond \in [Threads -> Seconds]
  /\ ref \in [Threads -> 0 .. Len(counts)]
  /\ mine \in [Threads -> Nat] /\ shown \in [Threads -> Nat]
  /\ accepted \in [Seconds -> Nat]
  /\ rejected \subseteq Seconds

(* "The expiry of two seconds makes sure that the data of one second is    *)
(* there": no more than Limit requests that belong to one second are       *)
(* accepted, although entries expire and requests are late.                *)
AcceptedPerSecond == \A s \in Seconds : accepted[s] <= Limit

(* Nobody is rejected before Limit requests of his second were accepted.   *)
RejectedWhenFull == \A s \in rejected : accepted[s] >= Limit

(* The count a request reports includes itself and all before it. *)
ReportsItself ==
  \A t \in Threads : pc[t] = "sleeping" => shown[t] >= mine[t]
=============================================================================
