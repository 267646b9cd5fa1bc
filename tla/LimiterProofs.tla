---------------------------- MODULE LimiterProofs ----------------------------
(***************************************************************************)
(* Proofs about the two limiters of Test_Limit.                            *)
(*                                                                         *)
(* TimeLimit, the first part, for any number of threads, any limit and any *)
(* length of a second: if no request takes longer than a second from       *)
(* reading the clock to its report, every second has one counter, and the  *)
(* limit of that second is kept.                                           *)
(*                                                                         *)
(* SimpleLimit, the second part, for every finite set of threads and every *)
(* positive limit: what its counter says, and that the limiter implements  *)
(* the admission gate.                                                     *)
(***************************************************************************)
EXTENDS TimeLimit, FiniteSetTheorems, TLAPS

(* The room that an expiry of two seconds leaves. *)
OnTime == MaxDelay <= Second

(* A request belongs to the second in which it read the clock, and is not  *)
(* late.                                                                   *)
ClockInv ==
  \A t \in Threads :
    InRequest(t) =>
      /\ now - since[t] <= MaxDelay
      /\ currentSecond[t] * Second <= since[t]
      /\ since[t] < currentSecond[t] * Second + Second

(* A request counts itself where the others of its second do.              *)
OwnCounter ==
  \A t \in Threads :
    pc[t] \in {"increment", "report"} =>
      /\ ref[t] # 0
      /\ counter[currentSecond[t]].ref = ref[t]

(* No two seconds share a counter. *)
OneSecondEach ==
  \A s, u \in Seconds :
    s # u /\ counter[s].ref # 0 => counter[s].ref # counter[u].ref

(* The counter of a second knows how many requests were accepted. *)
CountMatches ==
  \A s \in Seconds :
    accepted[s] =
      IF counter[s].ref = 0 THEN 0
      ELSE IF counts[counter[s].ref] <= Limit THEN counts[counter[s].ref]
      ELSE Limit

MineCounted ==
  \A t \in Threads : pc[t] = "report" => counts[ref[t]] >= mine[t]

IInv ==
  /\ TypeOK
  /\ ClockInv
  /\ OwnCounter
  /\ OneSecondEach
  /\ CountMatches
  /\ MineCounted
  /\ RejectedWhenFull
  /\ ReportsItself
-----------------------------------------------------------------------------
(* Division by Second. *)
LEMMA SecondOfClock ==
  ASSUME NEW n \in Nat
  PROVE  /\ SecondOf(n) \in 0 .. n
         /\ SecondOf(n) * Second <= n
         /\ n < SecondOf(n) * Second + Second
  BY TimeAssumption DEF SecondOf

LEMMA InitIInv == Init => IInv
<1> SUFFICES ASSUME Init PROVE IInv
  OBVIOUS
<1>1. TypeOK
  <2>1. now \in 0 .. MaxTime /\ exit \in BOOLEAN /\ counts \in Seq(Nat)
    <3>1. now \in 0 .. MaxTime
      BY TimeAssumption DEF Init
    <3>2. exit \in BOOLEAN
      BY Zenon DEF Init
    <3>3. counts \in Seq(Nat)
      BY DEF Init
    <3>4. QED
      BY <3>1, <3>2, <3>3
  <2>2. /\ Len(counts) = 0
        /\ NoEntry \in [ref : 0 .. 0, written : 0 .. now]
    BY <2>1, TimeAssumption DEF Init, NoEntry
  <2>3. counter \in [Seconds -> [ref : 0 .. Len(counts), written : 0 .. now]]
    BY <2>2 DEF Init
  <2>4. 0 \in Seconds
    BY TimeAssumption DEF Seconds
  <2>5. /\ pc \in [Threads -> Locations]
        /\ since \in [Threads -> 0 .. now]
        /\ currentSecond \in [Threads -> Seconds]
        /\ ref \in [Threads -> 0 .. Len(counts)]
        /\ mine \in [Threads -> Nat] /\ shown \in [Threads -> Nat]
        /\ accepted \in [Seconds -> Nat]
        /\ rejected \subseteq Seconds
    BY <2>1, <2>2, <2>4, TimeAssumption DEF Init, Locations
  <2>6. \A s \in Seconds : counter[s] = NoEntry
    BY DEF Init
  <2>7. QED
    BY <2>1, <2>3, <2>5, <2>6 DEF TypeOK
<1>2. ClockInv /\ OwnCounter /\ MineCounted /\ ReportsItself
  BY DEF Init, ClockInv, OwnCounter, MineCounted, ReportsItself, InRequest
<1>3. OneSecondEach /\ CountMatches /\ RejectedWhenFull
  BY DEF Init, OneSecondEach, CountMatches, RejectedWhenFull, NoEntry
<1>4. QED
  BY <1>1, <1>2, <1>3 DEF IInv

(* The entry of a request's second has not expired: two seconds after it   *)
(* was written the second has been over for longer than a request takes.   *)
LEMMA EntryLives ==
  ASSUME IInv, OnTime, NEW t \in Threads, InRequest(t)
  PROVE  Live(currentSecond[t]) \/ counter[currentSecond[t]].ref = 0
<1> DEFINE s == currentSecond[t]
<1>1. s \in Seconds /\ since[t] \in Nat /\ now \in Nat
  BY TimeAssumption DEF IInv, TypeOK
<1>2. now < s * Second + Second + Second
  <2>1. s * Second \in Nat
    BY <1>1, TimeAssumption DEF Seconds
  <2>2. now - since[t] <= Second /\ since[t] < s * Second + Second
    BY <1>1, TimeAssumption DEF IInv, ClockInv, OnTime
  <2>3. QED
    BY <1>1, <2>1, <2>2, TimeAssumption
<1>3. CASE counter[s] = NoEntry
  BY <1>3 DEF NoEntry
<1>4. CASE counter[s] # NoEntry
  <2>1. counter[s].written \in Nat /\ counter[s].written >= s * Second
    BY <1>1, <1>4, TimeAssumption DEF IInv, TypeOK
  <2>2. s * Second \in Nat
    BY <1>1, TimeAssumption DEF Seconds
  <2>3. now - counter[s].written < 2 * Second
    BY <1>1, <1>2, <2>1, <2>2, TimeAssumption
  <2>4. QED
    BY <1>4, <2>3 DEF Live, ExpiresAfter
<1>5. QED
  BY <1>3, <1>4

(* What a lookup does: it finds the entry of the second, or it starts one  *)
(* that counts nothing, as nothing has been accepted.                      *)
LEMMA GetStep ==
  ASSUME IInv, OnTime, NEW t \in Threads, InRequest(t),
         Get(currentSecond[t]), UNCHANGED <<now, accepted>>
  PROVE  /\ counts' \in Seq(Nat) /\ Len(counts') >= Len(counts)
         /\ \A i \in 1 .. Len(counts) : counts'[i] = counts[i]
         /\ counter' \in [Seconds -> [ref : 0 .. Len(counts'), written : 0 .. now]]
         /\ \A u \in Seconds :
              counter'[u] # NoEntry => /\ counter'[u].ref # 0
                                       /\ counter'[u].written >= u * Second
         /\ \A u \in Seconds : counter[u].ref # 0 => counter'[u] = counter[u]
         /\ counter'[currentSecond[t]].ref # 0
         /\ OneSecondEach'
         /\ CountMatches'
<1> DEFINE s == currentSecond[t]
<1>1. s \in Seconds /\ now \in Nat /\ counts \in Seq(Nat)
  BY TimeAssumption DEF IInv, TypeOK
<1>2. CASE Live(s)
  <2>1. UNCHANGED <<counter, counts>>
    BY <1>2 DEF Get
  <2>2. counter[s].ref # 0
    BY <1>1, <1>2 DEF Live, IInv, TypeOK
  <2>3. QED
    BY <1>1, <2>1, <2>2 DEF IInv, TypeOK, OneSecondEach, CountMatches, Seconds
<1>3. CASE ~Live(s)
  <2>1. counter[s].ref = 0
    BY <1>3, EntryLives
  <2>2. /\ counts' = Append(counts, 0)
        /\ counter' = [counter EXCEPT ![s] = [ref |-> Len(counts) + 1,
                                              written |-> now]]
    BY <1>3 DEF Get
  <2>3. s * Second <= now
    <3>1. s * Second <= since[t] /\ since[t] \in 0 .. now
      BY DEF IInv, ClockInv, TypeOK
    <3>2. s * Second \in Nat
      BY <1>1, TimeAssumption DEF Seconds
    <3>3. QED
      BY <1>1, <3>1, <3>2
  <2>4. /\ counts' \in Seq(Nat) /\ Len(counts') = Len(counts) + 1
        /\ \A i \in 1 .. Len(counts) : counts'[i] = counts[i]
        /\ counts'[Len(counts) + 1] = 0
        /\ Len(counts) \in Nat
    BY <1>1, <2>2
  <2>5. \A u \in Seconds : /\ counter[u].ref \in 0 .. Len(counts)
                           /\ counter[u].written \in 0 .. now
                           /\ counter[u] \in [ref : 0 .. Len(counts), written : 0 .. now]
    BY DEF IInv, TypeOK
  <2>6. /\ \A u \in Seconds \ {s} : counter'[u] = counter[u]
        /\ counter'[s] = [ref |-> Len(counts) + 1, written |-> now]
        /\ DOMAIN counter' = Seconds
    BY <1>1, <2>2 DEF IInv, TypeOK
  <2>7. counter' \in [Seconds -> [ref : 0 .. Len(counts'), written : 0 .. now]]
    <3>1. counter \in [Seconds -> [ref : 0 .. Len(counts'), written : 0 .. now]]
      BY <2>4 DEF IInv, TypeOK
    <3>2. [ref |-> Len(counts) + 1, written |-> now]
            \in [ref : 0 .. Len(counts'), written : 0 .. now]
      BY <1>1, <2>4
    <3>3. QED
      BY <2>2, <3>1, <3>2
  <2>8. \A u \in Seconds :
          counter'[u] # NoEntry => /\ counter'[u].ref # 0
                                   /\ counter'[u].written >= u * Second
    <3> SUFFICES ASSUME NEW u \in Seconds, counter'[u] # NoEntry
                 PROVE  /\ counter'[u].ref # 0
                        /\ counter'[u].written >= u * Second
      OBVIOUS
    <3>1. CASE u = s
      <4>1. counter'[u].ref = Len(counts) + 1 /\ counter'[u].written = now
        BY <2>6, <3>1
      <4>2. u * Second <= now
        BY <2>3, <3>1
      <4>3. QED
        BY <1>1, <2>4, <4>1, <4>2
    <3>2. CASE u # s
      BY <2>6, <3>2 DEF IInv, TypeOK
    <3>3. QED
      BY <3>1, <3>2
  <2>9. OneSecondEach'
    BY <2>4, <2>5, <2>6 DEF IInv, OneSecondEach
  <2>10. CountMatches'
    <3>1. ASSUME NEW u \in Seconds
          PROVE  accepted[u] =
                   IF counter'[u].ref = 0 THEN 0
                   ELSE IF counts'[counter'[u].ref] <= Limit
                        THEN counts'[counter'[u].ref] ELSE Limit
      <4>1. CASE u = s
        BY <2>1, <2>4, <2>6, <4>1, LimitAssumption DEF IInv, CountMatches
      <4>2. CASE u # s
        BY <2>4, <2>5, <2>6, <4>2 DEF IInv, CountMatches
      <4>3. QED
        BY <4>1, <4>2
    <3>2. QED
      BY <3>1 DEF CountMatches
  <2>11. QED
    BY <1>1, <2>1, <2>4, <2>6, <2>7, <2>8, <2>9, <2>10
<1>4. QED
  BY <1>2, <1>3

LEMMA ReadClockIInv ==
  ASSUME IInv, NEW t \in Threads, ReadClock(t)
  PROVE  IInv'
<1>1. now \in Nat /\ now \in 0 .. MaxTime
  BY TimeAssumption DEF IInv, TypeOK
<1>2. /\ SecondOf(now) \in Seconds
      /\ SecondOf(now) * Second <= now
      /\ now < SecondOf(now) * Second + Second
  BY <1>1, SecondOfClock, TimeAssumption DEF Seconds
<1>3. TypeOK'
  BY <1>1, <1>2 DEF IInv, TypeOK, ReadClock, Goto, historyVars, Locations
<1>4. ClockInv'
  BY <1>1, <1>2, TimeAssumption
  DEF IInv, TypeOK, ClockInv, ReadClock, Goto, InRequest, historyVars
<1>5. OwnCounter' /\ MineCounted' /\ ReportsItself'
  BY DEF IInv, TypeOK, OwnCounter, MineCounted, ReportsItself, ReadClock, Goto,
         historyVars
<1>6. OneSecondEach' /\ CountMatches' /\ RejectedWhenFull'
  BY DEF IInv, OneSecondEach, CountMatches, RejectedWhenFull, ReadClock,
         historyVars
<1>7. QED
  BY <1>3, <1>4, <1>5, <1>6 DEF IInv

LEMMA LookupIInv ==
  ASSUME IInv, OnTime, NEW t \in Threads, Lookup(t)
  PROVE  IInv'
<1> DEFINE s == currentSecond[t]
<1>1. pc[t] = "lookup" /\ InRequest(t) /\ Get(s) /\ UNCHANGED <<now, accepted>>
  BY DEF Lookup, InRequest, historyVars
<1>2. s \in Seconds
  BY DEF IInv, TypeOK
<1> HIDE DEF s
<1>g. /\ counts' \in Seq(Nat) /\ Len(counts') >= Len(counts)
      /\ \A i \in 1 .. Len(counts) : counts'[i] = counts[i]
      /\ counter' \in [Seconds -> [ref : 0 .. Len(counts'), written : 0 .. now]]
      /\ \A u \in Seconds :
           counter'[u] # NoEntry => /\ counter'[u].ref # 0
                                    /\ counter'[u].written >= u * Second
      /\ \A u \in Seconds : counter[u].ref # 0 => counter'[u] = counter[u]
      /\ counter'[s].ref # 0
      /\ OneSecondEach' /\ CountMatches'
  BY <1>1, GetStep DEF s
<1>3. TypeOK'
  <2>1. Len(counts) \in Nat /\ Len(counts') \in Nat
    BY <1>g DEF IInv, TypeOK
  <2>2. counter'[s].ref \in 0 .. Len(counts')
    BY <1>2, <1>g
  <2>3. ref' \in [Threads -> 0 .. Len(counts')]
    BY <1>g, <2>1, <2>2 DEF Lookup, IInv, TypeOK, s
  <2>4. QED
    BY <1>g, <2>3 DEF Lookup, IInv, TypeOK, Goto, Locations, historyVars
<1>4. ClockInv'
  BY DEF IInv, TypeOK, ClockInv, Lookup, Goto, InRequest
<1>5. OwnCounter'
  <2> SUFFICES ASSUME NEW u \in Threads, pc'[u] \in {"increment", "report"}
               PROVE  ref'[u] # 0 /\ counter'[currentSecond[u]].ref = ref'[u]
    BY DEF OwnCounter, Lookup
  <2>1. CASE u = t
    BY <1>g, <2>1 DEF Lookup, IInv, TypeOK, s
  <2>2. CASE u # t
    <3>1. pc[u] \in {"increment", "report"} /\ ref'[u] = ref[u]
      BY <2>2 DEF Lookup, Goto, IInv, TypeOK
    <3>2. ref[u] # 0 /\ counter[currentSecond[u]].ref = ref[u]
      BY <3>1 DEF IInv, OwnCounter
    <3>3. currentSecond[u] \in Seconds
      BY DEF IInv, TypeOK
    <3>4. QED
      BY <1>g, <3>1, <3>2, <3>3
  <2>3. QED
    BY <2>1, <2>2
<1>6. MineCounted'
  <2> SUFFICES ASSUME NEW u \in Threads, pc'[u] = "report"
               PROVE  counts'[ref'[u]] >= mine[u]
    BY DEF MineCounted, Lookup
  <2>1. u # t /\ pc[u] = "report" /\ ref'[u] = ref[u]
    BY DEF Lookup, Goto, IInv, TypeOK
  <2>2. counts[ref[u]] >= mine[u] /\ ref[u] \in 1 .. Len(counts)
    BY <2>1 DEF IInv, TypeOK, MineCounted, OwnCounter
  <2>3. QED
    BY <1>g, <2>1, <2>2
<1>7. RejectedWhenFull' /\ ReportsItself'
  BY DEF IInv, TypeOK, RejectedWhenFull, ReportsItself, Lookup, Goto, historyVars
<1>8. QED
  BY <1>g, <1>3, <1>4, <1>5, <1>6, <1>7 DEF IInv

LEMMA IncrementIInv ==
  ASSUME IInv, NEW t \in Threads, Increment(t)
  PROVE  IInv'
<1> DEFINE s == currentSecond[t]
           n == counts[ref[t]] + 1
<1>1. /\ pc[t] = "increment" /\ s \in Seconds
      /\ ref[t] \in 1 .. Len(counts) /\ counts[ref[t]] \in Nat
      /\ counter[s].ref = ref[t]
      /\ Len(counts) \in Nat
  BY DEF Increment, IInv, TypeOK, OwnCounter
<1>2. /\ counts' \in Seq(Nat) /\ Len(counts') = Len(counts)
      /\ counts'[ref[t]] = n
      /\ \A i \in 1 .. Len(counts) : i # ref[t] => counts'[i] = counts[i]
  BY <1>1 DEF Increment, IInv, TypeOK
<1>3. /\ TooMany(n) <=> n > Limit
      /\ accepted[s] = IF counts[ref[t]] <= Limit THEN counts[ref[t]] ELSE Limit
  BY <1>1 DEF TooMany, IInv, CountMatches
<1>4. /\ accepted' \in [Seconds -> Nat]
      /\ \A u \in Seconds : u # s => accepted'[u] = accepted[u]
      /\ accepted'[s] = IF n <= Limit THEN n ELSE Limit
      /\ rejected' = IF n > Limit THEN rejected \cup {s} ELSE rejected
  <2>1. CASE TooMany(n)
    <3>1. accepted' = accepted /\ rejected' = rejected \cup {s}
      BY <2>1 DEF Increment
    <3>2. accepted[s] = Limit
      BY <1>1, <1>3, <2>1, LimitAssumption
    <3>3. n > Limit /\ ~(n <= Limit)
      BY <1>1, <1>3, <2>1, LimitAssumption
    <3>4. QED
      BY <3>1, <3>2, <3>3 DEF IInv, TypeOK
  <2>2. CASE ~TooMany(n)
    <3>1. accepted' = [accepted EXCEPT ![s] = @ + 1] /\ rejected' = rejected
      BY <2>2 DEF Increment
    <3>2. accepted[s] = counts[ref[t]]
      BY <1>1, <1>3, <2>2, LimitAssumption
    <3>3. n <= Limit /\ ~(n > Limit)
      BY <1>1, <1>3, <2>2, LimitAssumption
    <3>4. QED
      BY <1>1, <3>1, <3>2, <3>3 DEF IInv, TypeOK
  <2>3. QED
    BY <2>1, <2>2
<1> HIDE DEF s, n
<1>5. TypeOK'
  <2>1. mine' \in [Threads -> Nat] /\ pc' \in [Threads -> Locations]
    BY <1>1 DEF Increment, IInv, TypeOK, Goto, Locations, n
  <2>2. rejected' \subseteq Seconds
    BY <1>1, <1>4 DEF IInv, TypeOK
  <2>3. QED
    BY <1>2, <1>4, <2>1, <2>2 DEF Increment, IInv, TypeOK
<1>6. ClockInv'
  BY DEF IInv, TypeOK, ClockInv, Increment, Goto, InRequest
<1>7. OwnCounter' /\ OneSecondEach' /\ ReportsItself'
  BY DEF IInv, TypeOK, OwnCounter, OneSecondEach, ReportsItself, Increment, Goto
<1>8. CountMatches'
  <2> SUFFICES ASSUME NEW u \in Seconds
               PROVE  accepted'[u] =
                        IF counter[u].ref = 0 THEN 0
                        ELSE IF counts'[counter[u].ref] <= Limit
                             THEN counts'[counter[u].ref] ELSE Limit
    BY DEF CountMatches, Increment
  <2>1. CASE u = s
    BY <1>1, <1>2, <1>4, <2>1
  <2>2. CASE u # s
    <3>1. counter[u].ref # ref[t] /\ counter[u].ref \in 0 .. Len(counts)
      BY <1>1, <2>2 DEF IInv, TypeOK, OneSecondEach
    <3>2. QED
      BY <1>1, <1>2, <1>4, <2>2, <3>1 DEF IInv, CountMatches
  <2>3. QED
    BY <2>1, <2>2
<1>9. MineCounted'
  <2> SUFFICES ASSUME NEW u \in Threads, pc'[u] = "report"
               PROVE  counts'[ref[u]] >= mine'[u]
    BY DEF MineCounted, Increment
  <2>1. CASE u = t
    <3>1. mine'[u] = n /\ n \in Nat
      BY <1>1, <2>1 DEF Increment, IInv, TypeOK, n
    <3>2. QED
      BY <1>2, <2>1, <3>1
  <2>2. CASE u # t
    <3>1. pc[u] = "report" /\ mine'[u] = mine[u]
      BY <2>2 DEF Increment, Goto, IInv, TypeOK
    <3>2. /\ counts[ref[u]] >= mine[u] /\ ref[u] \in 1 .. Len(counts)
          /\ mine[u] \in Nat
      BY <3>1 DEF IInv, TypeOK, MineCounted, OwnCounter
    <3>3. CASE ref[u] = ref[t]
      BY <1>1, <1>2, <3>1, <3>2, <3>3 DEF n
    <3>4. CASE ref[u] # ref[t]
      BY <1>2, <3>1, <3>2, <3>4
    <3>5. QED
      BY <3>3, <3>4
  <2>3. QED
    BY <2>1, <2>2
<1>10. RejectedWhenFull'
  <2> SUFFICES ASSUME NEW u \in rejected' PROVE accepted'[u] >= Limit
    BY DEF RejectedWhenFull
  <2>1. CASE u = s
    <3>1. accepted[s] >= Limit => n > Limit
      BY <1>1, <1>3, LimitAssumption DEF n
    <3>2. n > Limit
      BY <1>1, <1>4, <2>1, <3>1 DEF IInv, RejectedWhenFull
    <3>3. n \in Nat
      BY <1>1 DEF n
    <3>4. QED
      BY <1>4, <2>1, <3>2, <3>3, LimitAssumption
  <2>2. CASE u # s
    <3>1. u \in rejected /\ u \in Seconds
      BY <1>4, <2>2 DEF IInv, TypeOK
    <3>2. QED
      BY <1>4, <2>2, <3>1 DEF IInv, RejectedWhenFull
  <2>3. QED
    BY <2>1, <2>2
<1>11. QED
  BY <1>5, <1>6, <1>7, <1>8, <1>9, <1>10 DEF IInv

LEMMA ReportIInv ==
  ASSUME IInv, OnTime, NEW t \in Threads, Report(t)
  PROVE  IInv'
<1> DEFINE s == currentSecond[t]
<1>1. /\ pc[t] = "report" /\ InRequest(t) /\ Get(s)
      /\ UNCHANGED <<now, accepted>>
  BY DEF Report, InRequest
<1>2. /\ s \in Seconds /\ ref[t] \in 1 .. Len(counts)
      /\ counter[s].ref = ref[t] /\ mine[t] \in Nat
      /\ counts[ref[t]] >= mine[t] /\ counts[ref[t]] \in Nat
  BY <1>1 DEF IInv, TypeOK, OwnCounter, MineCounted
<1> HIDE DEF s
<1>g. /\ counts' \in Seq(Nat) /\ Len(counts') >= Len(counts)
      /\ \A i \in 1 .. Len(counts) : counts'[i] = counts[i]
      /\ counter' \in [Seconds -> [ref : 0 .. Len(counts'), written : 0 .. now]]
      /\ \A u \in Seconds :
           counter'[u] # NoEntry => /\ counter'[u].ref # 0
                                    /\ counter'[u].written >= u * Second
      /\ \A u \in Seconds : counter[u].ref # 0 => counter'[u] = counter[u]
      /\ OneSecondEach' /\ CountMatches'
  BY <1>1, GetStep DEF s
<1>3. shown' = [shown EXCEPT ![t] = counts[ref[t]]]
  <2>1. counter'[s].ref = ref[t]
    BY <1>2, <1>g
  <2>2. counts'[ref[t]] = counts[ref[t]]
    BY <1>2, <1>g
  <2>3. QED
    BY <2>1, <2>2 DEF Report, s
<1>4. TypeOK'
  <2>1. Len(counts) \in Nat /\ Len(counts') \in Nat
    BY <1>g DEF IInv, TypeOK
  <2>2. ref \in [Threads -> 0 .. Len(counts')]
    BY <1>g, <2>1 DEF IInv, TypeOK
  <2>3. shown' \in [Threads -> Nat] /\ since' \in [Threads -> 0 .. now]
    BY <1>2, <1>3, TimeAssumption DEF IInv, TypeOK, Report
  <2>4. QED
    BY <1>g, <2>2, <2>3
    DEF Report, IInv, TypeOK, Goto, Locations, requestVars
<1>5. ClockInv'
  BY DEF IInv, TypeOK, ClockInv, Report, Goto, InRequest, requestVars
<1>6. OwnCounter'
  <2> SUFFICES ASSUME NEW u \in Threads, pc'[u] \in {"increment", "report"}
               PROVE  ref[u] # 0 /\ counter'[currentSecond[u]].ref = ref[u]
    BY DEF OwnCounter, Report, requestVars
  <2>1. pc[u] \in {"increment", "report"}
    BY DEF Report, Goto, IInv, TypeOK
  <2>2. ref[u] # 0 /\ counter[currentSecond[u]].ref = ref[u]
    BY <2>1 DEF IInv, OwnCounter
  <2>3. currentSecond[u] \in Seconds
    BY DEF IInv, TypeOK
  <2>4. QED
    BY <1>g, <2>2, <2>3
<1>7. MineCounted'
  <2> SUFFICES ASSUME NEW u \in Threads, pc'[u] = "report"
               PROVE  counts'[ref[u]] >= mine[u]
    BY DEF MineCounted, Report, requestVars
  <2>1. pc[u] = "report"
    BY DEF Report, Goto, IInv, TypeOK
  <2>2. counts[ref[u]] >= mine[u] /\ ref[u] \in 1 .. Len(counts)
    BY <2>1 DEF IInv, TypeOK, MineCounted, OwnCounter
  <2>3. QED
    BY <1>g, <2>2
<1>8. RejectedWhenFull'
  BY DEF IInv, RejectedWhenFull, Report
<1>9. ReportsItself'
  <2> SUFFICES ASSUME NEW u \in Threads, pc'[u] = "sleeping"
               PROVE  shown'[u] >= mine[u]
    BY DEF ReportsItself, Report, requestVars
  <2>1. CASE u = t
    BY <1>2, <1>3, <2>1 DEF IInv, TypeOK
  <2>2. CASE u # t
    <3>1. pc[u] = "sleeping" /\ shown'[u] = shown[u]
      BY <1>3, <2>2 DEF Report, Goto, IInv, TypeOK
    <3>2. QED
      BY <3>1 DEF IInv, ReportsItself
  <2>3. QED
    BY <2>1, <2>2
<1>10. QED
  BY <1>g, <1>4, <1>5, <1>6, <1>7, <1>8, <1>9 DEF IInv

(* The steps between two requests: only pc changes. *)
LEMMA LoopIInv ==
  ASSUME IInv, NEW t \in Threads, Stop(t) \/ Wake(t)
  PROVE  IInv'
<1>1. /\ UNCHANGED <<now, exit, counter, counts, since, requestVars, historyVars>>
      /\ \E loc \in {"stopped", "loop"} : Goto(t, loc)
  BY DEF Stop, Wake
<1>2. TypeOK'
  BY <1>1 DEF IInv, TypeOK, Goto, Locations, requestVars, historyVars
<1>3. \A u \in Threads : pc'[u] \in {"stopped", "loop"} \/ pc'[u] = pc[u]
  BY <1>1 DEF IInv, TypeOK, Goto
<1>4. ClockInv' /\ OwnCounter' /\ MineCounted' /\ ReportsItself'
  BY <1>1, <1>3
  DEF IInv, ClockInv, OwnCounter, MineCounted, ReportsItself, InRequest,
      requestVars, historyVars
<1>5. OneSecondEach' /\ CountMatches' /\ RejectedWhenFull'
  BY <1>1
  DEF IInv, OneSecondEach, CountMatches, RejectedWhenFull, historyVars
<1>6. QED
  BY <1>2, <1>4, <1>5 DEF IInv

LEMMA TickIInv ==
  ASSUME IInv, Tick
  PROVE  IInv'
<1>1. now \in 0 .. MaxTime /\ now < MaxTime /\ now' = now + 1
  BY DEF IInv, TypeOK, Tick
<1>2. TypeOK'
  <2>1. now' \in 0 .. MaxTime /\ 0 .. now \subseteq 0 .. now'
    BY <1>1, TimeAssumption
  <2>2. since' \in [Threads -> 0 .. now']
    BY <2>1 DEF IInv, TypeOK, Tick
  <2>3. counter' \in [Seconds -> [ref : 0 .. Len(counts), written : 0 .. now']]
    BY <2>1 DEF IInv, TypeOK, Tick
  <2>4. QED
    BY <2>1, <2>2, <2>3 DEF IInv, TypeOK, Tick, requestVars, historyVars
<1>3. ClockInv'
  <2> SUFFICES ASSUME NEW t \in Threads, InRequest(t)
               PROVE  /\ now' - since[t] <= MaxDelay
                      /\ currentSecond[t] * Second <= since[t]
                      /\ since[t] < currentSecond[t] * Second + Second
    BY DEF ClockInv, InRequest, Tick, requestVars
  <2>1. now - since[t] < MaxDelay /\ since[t] \in Nat
    BY DEF Tick, IInv, TypeOK
  <2>2. QED
    BY <1>1, <2>1, TimeAssumption DEF IInv, ClockInv
<1>4. OwnCounter' /\ MineCounted' /\ ReportsItself'
  BY DEF IInv, OwnCounter, MineCounted, ReportsItself, Tick, requestVars,
         historyVars
<1>5. OneSecondEach' /\ CountMatches' /\ RejectedWhenFull'
  BY DEF IInv, OneSecondEach, CountMatches, RejectedWhenFull, Tick, historyVars
<1>6. QED
  BY <1>2, <1>3, <1>4, <1>5 DEF IInv

LEMMA QuietIInv ==
  ASSUME IInv, Exit \/ UNCHANGED vars
  PROVE  IInv'
<1>1. /\ UNCHANGED <<now, counter, counts, pc, since, requestVars, historyVars>>
      /\ exit' \in BOOLEAN
  BY DEF Exit, vars, IInv, TypeOK
<1>2. TypeOK'
  BY <1>1 DEF IInv, TypeOK, requestVars, historyVars
<1>3. ClockInv' /\ OwnCounter' /\ MineCounted' /\ ReportsItself'
  BY <1>1
  DEF IInv, ClockInv, OwnCounter, MineCounted, ReportsItself, InRequest,
      requestVars, historyVars
<1>4. OneSecondEach' /\ CountMatches' /\ RejectedWhenFull'
  BY <1>1
  DEF IInv, OneSecondEach, CountMatches, RejectedWhenFull, historyVars
<1>5. QED
  BY <1>2, <1>3, <1>4 DEF IInv

LEMMA NextIInv ==
  ASSUME OnTime
  PROVE  IInv /\ [Next]_vars => IInv'
<1> SUFFICES ASSUME IInv, [Next]_vars PROVE IInv'
  OBVIOUS
<1>1. ASSUME NEW t \in Threads, ReadClock(t) PROVE IInv'
  BY <1>1, ReadClockIInv
<1>2. ASSUME NEW t \in Threads, Lookup(t) PROVE IInv'
  BY <1>2, LookupIInv
<1>3. ASSUME NEW t \in Threads, Increment(t) PROVE IInv'
  BY <1>3, IncrementIInv
<1>4. ASSUME NEW t \in Threads, Report(t) PROVE IInv'
  BY <1>4, ReportIInv
<1>5. ASSUME NEW t \in Threads, Stop(t) \/ Wake(t) PROVE IInv'
  BY <1>5, LoopIInv
<1>6. CASE Tick
  BY <1>6, TickIInv
<1>7. CASE Exit \/ Finished \/ UNCHANGED vars
  BY <1>7, QuietIInv DEF Finished
<1>8. QED
  BY <1>1, <1>2, <1>3, <1>4, <1>5, <1>6, <1>7 DEF Next, DoRequest

LEMMA Invariance ==
  ASSUME OnTime
  PROVE  Spec => []IInv
  BY InitIInv, NextIInv, PTL DEF Spec
-----------------------------------------------------------------------------
(* Type correctness, and no entry is older than its second. *)
THEOREM LimiterTypes ==
  ASSUME OnTime
  PROVE  Spec => []TypeOK
<1>1. IInv => TypeOK
  BY DEF IInv
<1>2. QED
  BY <1>1, Invariance, PTL

(* If requests take no longer than a second, the expiry of two seconds     *)
(* keeps the data of one second: no second accepts more than the limit.    *)
THEOREM SecondsAreLimited ==
  ASSUME OnTime
  PROVE  Spec => []AcceptedPerSecond
<1>1. IInv => AcceptedPerSecond
  <2> SUFFICES ASSUME IInv, NEW s \in Seconds PROVE accepted[s] <= Limit
    BY DEF AcceptedPerSecond
  <2>1. CASE counter[s].ref = 0
    BY <2>1, LimitAssumption DEF IInv, CountMatches
  <2>2. CASE counter[s].ref # 0
    <3>1. counter[s].ref \in 1 .. Len(counts)
      BY <2>2 DEF IInv, TypeOK
    <3>2. counts[counter[s].ref] \in Nat
      BY <3>1 DEF IInv, TypeOK
    <3>3. QED
      BY <2>2, <3>2, LimitAssumption DEF IInv, CountMatches
  <2>3. QED
    BY <2>1, <2>2
<1>2. QED
  BY <1>1, Invariance, PTL

(* Under the same assumption nobody is rejected in a second that is not    *)
(* full.                                                                   *)
THEOREM NoRejectionBeforeFull ==
  ASSUME OnTime
  PROVE  Spec => []RejectedWhenFull
<1>1. IInv => RejectedWhenFull
  BY DEF IInv
<1>2. QED
  BY <1>1, Invariance, PTL

(* And every request reports a count that includes itself. *)
THEOREM ReportsAreHonest ==
  ASSUME OnTime
  PROVE  Spec => []ReportsItself
<1>1. IInv => ReportsItself
  BY DEF IInv
<1>2. QED
  BY <1>1, Invariance, PTL

-----------------------------------------------------------------------------
(* The limiter without a clock: the same Threads and Limit, and variables  *)
(* of its own.                                                             *)
VARIABLES requestCount, latch, place, answer

Simple == INSTANCE SimpleLimit WITH pc <- place

(* What SimpleLimit assumes besides LimitAssumption. *)
FiniteThreads == IsFiniteSet(Threads)

(* Types of the variables, without the range of the counter. *)
Types ==
  /\ requestCount \in Int
  /\ latch \in {0, 1}
  /\ place \in [Threads -> Simple!Locations]
  /\ answer \in [Threads -> {"none", "accepted", "rejected"}]

(* What a thread was told agrees with where it is. *)
AnswerMatchesPc ==
  \A t \in Threads :
    /\ place[t] \in {"new", "await", "request"} => answer[t] = "none"
    /\ place[t] = "serving" => answer[t] = "accepted"
    /\ place[t] = "rejecting" => answer[t] = "rejected"
    /\ place[t] = "done" => answer[t] # "none"

(* The inductive invariant: the checked invariants plus the link between   *)
(* place and answer that lets a rejection be traced to accepted requests.  *)
LimiterInv ==
  /\ Types
  /\ AnswerMatchesPc
  /\ Simple!TokenConservation
  /\ Simple!ServingBound
  /\ Simple!RejectOnlyAfterLimit

-----------------------------------------------------------------------------
(* Both count with the Cardinality that the library's theorems are about. *)
LEMMA SameCardinality ==
  /\ \A S : Simple!Cardinality(S) = Cardinality(S)
  /\ \A S : Simple!Gate!Cardinality(S) = Cardinality(S)
<1>1. \A S : Simple!Cardinality(S) = Cardinality(S)
  BY Zenon DEF Simple!Cardinality, Cardinality, Simple!IsFiniteSet, IsFiniteSet
<1>2. \A S : Simple!Gate!Cardinality(S) = Cardinality(S)
  BY Zenon DEF Simple!Gate!Cardinality, Cardinality, Simple!Gate!IsFiniteSet,
               IsFiniteSet
<1>3. QED
  BY <1>1, <1>2

(* All the sets the invariants count are finite subsets of Threads. *)
LEMMA FiniteParts ==
  ASSUME FiniteThreads, NEW S \in SUBSET Threads
  PROVE  /\ IsFiniteSet(S)
         /\ Simple!Cardinality(S) \in Nat
         /\ Simple!Cardinality(S) <= Simple!Cardinality(Threads)
         /\ Simple!Cardinality(Threads) \in Nat
  BY FS_Subset, FS_CardinalityType, SameCardinality DEF FiniteThreads

(* Cardinality is monotone on subsets of Threads. *)
LEMMA Monotone ==
  ASSUME FiniteThreads, NEW S \in SUBSET Threads, NEW T \in SUBSET S
  PROVE  Simple!Cardinality(T) <= Simple!Cardinality(S)
  BY FiniteParts, FS_Subset, SameCardinality

(* A thread about to decrement holds no token. *)
LEMMA HoldingAfterDecrement ==
  ASSUME FiniteThreads, LimiterInv, NEW t \in Threads, Simple!Decrement(t)
  PROVE  /\ Simple!Holding' = Simple!Holding \cup {t}
         /\ t \notin Simple!Holding
         /\ Simple!Cardinality(Simple!Holding') = Simple!Cardinality(Simple!Holding) + 1
         /\ requestCount' = Limit - Simple!Cardinality(Simple!Holding')
<1>1. Simple!Holding' = Simple!Holding \cup {t} /\ t \notin Simple!Holding
  BY DEF LimiterInv, Types, Simple!Decrement, Simple!Holding, Simple!Admits
<1>2. Simple!Holding \in SUBSET Threads
  BY DEF Simple!Holding
<1>3. Simple!Cardinality(Simple!Holding') = Simple!Cardinality(Simple!Holding) + 1
  BY <1>1, <1>2, FiniteParts, FS_AddElement, SameCardinality
<1>4. requestCount' = requestCount - 1
  BY DEF Simple!Decrement
<1>5. requestCount = Limit - Simple!Cardinality(Simple!Holding)
  BY DEF LimiterInv, Simple!TokenConservation
<1>6. QED
  BY <1>1, <1>2, <1>3, <1>4, <1>5, FiniteParts, LimitAssumption

(* The admission test succeeds only below the limit. *)
LEMMA AdmittedBelowLimit ==
  ASSUME FiniteThreads, LimiterInv, NEW t \in Threads, Simple!Decrement(t),
         Simple!Admits(requestCount - 1)
  PROVE  Simple!Cardinality(Simple!Holding) < Limit
<1>1. Simple!Holding \in SUBSET Threads
  BY DEF Simple!Holding
<1>2. requestCount = Limit - Simple!Cardinality(Simple!Holding)
  BY DEF LimiterInv, Simple!TokenConservation
<1>3. QED
  BY <1>1, <1>2, FiniteParts, LimitAssumption DEF Simple!Admits

(* The admission test fails only once Limit requests have been accepted:   *)
(* before the first rejection every token holder is an accepted request.   *)
LEMMA RefusedAboveLimit ==
  ASSUME FiniteThreads, LimiterInv, NEW t \in Threads, Simple!Decrement(t),
         ~Simple!Admits(requestCount - 1)
  PROVE  Simple!Cardinality(Simple!Accepted) >= Limit
<1>1. Simple!Holding \in SUBSET Threads /\ Simple!Accepted \in SUBSET Threads
  BY DEF Simple!Holding, Simple!Accepted
<1>2. requestCount = Limit - Simple!Cardinality(Simple!Holding)
  BY DEF LimiterInv, Simple!TokenConservation
<1>3. Simple!Cardinality(Simple!Holding) >= Limit
  BY <1>1, <1>2, FiniteParts, LimitAssumption DEF Simple!Admits
<1>4. CASE Simple!Rejected # {}
  BY <1>4 DEF LimiterInv, Simple!RejectOnlyAfterLimit
<1>5. CASE Simple!Rejected = {}
  <2>1. Simple!Holding \subseteq Simple!Accepted
    BY <1>5 DEF LimiterInv, AnswerMatchesPc, Simple!Holding, Simple!Accepted,
                Simple!Rejected
  <2>2. Simple!Cardinality(Simple!Holding) <= Simple!Cardinality(Simple!Accepted)
    BY <2>1, <1>1, Monotone
  <2>3. QED
    BY <1>1, <1>3, <2>2, FiniteParts, LimitAssumption
<1>6. QED
  BY <1>4, <1>5
-----------------------------------------------------------------------------
LEMMA InitLimiter == Simple!Init => LimiterInv
<1> SUFFICES ASSUME Simple!Init PROVE LimiterInv
  OBVIOUS
<1>1. Types /\ AnswerMatchesPc
  BY LimitAssumption DEF Simple!Init, Types, AnswerMatchesPc, Simple!Locations
<1>2. Simple!Holding = {} /\ Simple!Serving = {} /\ Simple!Rejected = {}
  BY DEF Simple!Init, Simple!Holding, Simple!Serving, Simple!Rejected
<1>3. Simple!TokenConservation /\ Simple!ServingBound /\ Simple!RejectOnlyAfterLimit
  BY <1>2, FS_EmptySet, SameCardinality, LimitAssumption
  DEF Simple!Init, Simple!TokenConservation, Simple!ServingBound,
      Simple!RejectOnlyAfterLimit
<1>4. QED
  BY <1>1, <1>3 DEF LimiterInv

LEMMA DecrementLimiter ==
  ASSUME FiniteThreads, LimiterInv, NEW t \in Threads, Simple!Decrement(t)
  PROVE  LimiterInv'
<1>1. Types' /\ AnswerMatchesPc'
  BY DEF LimiterInv, Types, AnswerMatchesPc, Simple!Decrement, Simple!Admits,
         Simple!Locations
<1>2. Simple!TokenConservation'
  BY HoldingAfterDecrement DEF Simple!TokenConservation
<1>3. CASE Simple!Admits(requestCount - 1)
  <2>1. Simple!Serving' \subseteq Simple!Holding' /\ Simple!Holding' \in SUBSET Threads
    BY DEF Simple!Serving, Simple!Holding
  <2>2. Simple!Cardinality(Simple!Holding') <= Limit
    <3>1. Simple!Holding \in SUBSET Threads
      BY DEF Simple!Holding
    <3>2. Simple!Cardinality(Simple!Holding) < Limit /\ Simple!Cardinality(Simple!Holding) \in Nat
      BY <1>3, <3>1, AdmittedBelowLimit, FiniteParts
    <3>3. QED
      BY <3>2, HoldingAfterDecrement, LimitAssumption
  <2>3. Simple!ServingBound'
    BY <2>1, <2>2, Monotone, FiniteParts,
       LimitAssumption DEF Simple!ServingBound
  <2>4. Simple!Rejected' = Simple!Rejected /\ Simple!Accepted \subseteq Simple!Accepted'
    BY <1>3 DEF LimiterInv, Types, AnswerMatchesPc, Simple!Decrement,
                Simple!Rejected, Simple!Accepted
  <2>5. Simple!Accepted' \in SUBSET Threads /\ Simple!Accepted \in SUBSET Simple!Accepted'
    BY <2>4 DEF Simple!Accepted
  <2>6. Simple!RejectOnlyAfterLimit'
    BY <2>4, <2>5, Monotone, FiniteParts, LimitAssumption
    DEF LimiterInv, Simple!RejectOnlyAfterLimit
  <2>7. QED
    BY <1>1, <1>2, <2>3, <2>6 DEF LimiterInv
<1>4. CASE ~Simple!Admits(requestCount - 1)
  <2>1. Simple!Serving' = Simple!Serving
    BY <1>4 DEF LimiterInv, Types, Simple!Decrement, Simple!Serving
  <2>2. Simple!Accepted' = Simple!Accepted
    BY <1>4 DEF LimiterInv, Types, AnswerMatchesPc, Simple!Decrement,
                Simple!Accepted
  <2>3. Simple!ServingBound' /\ Simple!RejectOnlyAfterLimit'
    BY <1>4, <2>1, <2>2, RefusedAboveLimit
    DEF LimiterInv, Simple!ServingBound, Simple!RejectOnlyAfterLimit
  <2>4. QED
    BY <1>1, <1>2, <2>3 DEF LimiterInv
<1>5. QED
  BY <1>3, <1>4

LEMMA IncrementLimiter ==
  ASSUME FiniteThreads, LimiterInv, NEW t \in Threads, Simple!Increment(t)
  PROVE  LimiterInv'
<1>1. Types' /\ AnswerMatchesPc'
  BY DEF LimiterInv, Types, AnswerMatchesPc, Simple!Increment,
         Simple!Restored, Simple!Locations
<1>2. Simple!Holding \in SUBSET Threads /\ Simple!Serving \in SUBSET Threads
  BY DEF Simple!Holding, Simple!Serving
<1>3. Simple!Holding' = Simple!Holding \ {t} /\ t \in Simple!Holding
  BY DEF LimiterInv, Types, Simple!Increment, Simple!Holding
<1>4. Simple!Cardinality(Simple!Holding') = Simple!Cardinality(Simple!Holding) - 1
  BY <1>2, <1>3, FiniteParts, FS_RemoveElement, SameCardinality
<1>5. Simple!TokenConservation'
  BY <1>2, <1>4, FiniteParts, LimitAssumption
  DEF LimiterInv, Simple!TokenConservation, Simple!Increment, Simple!Restored
<1>6. Simple!Serving' \in SUBSET Simple!Serving
  BY DEF LimiterInv, Types, Simple!Increment, Simple!Serving
<1>7. Simple!ServingBound'
  BY <1>2, <1>6, Monotone, FiniteParts, LimitAssumption DEF LimiterInv,
     Simple!ServingBound
<1>8. Simple!RejectOnlyAfterLimit'
  BY DEF LimiterInv, Simple!RejectOnlyAfterLimit, Simple!Rejected,
         Simple!Accepted, Simple!Increment
<1>9. QED
  BY <1>1, <1>5, <1>7, <1>8 DEF LimiterInv

LEMMA NextLimiter ==
  ASSUME FiniteThreads
  PROVE  LimiterInv /\ [Simple!Next]_(Simple!vars) => LimiterInv'
<1> SUFFICES ASSUME LimiterInv, [Simple!Next]_(Simple!vars) PROVE LimiterInv'
  OBVIOUS
<1>1. ASSUME NEW t \in Threads, Simple!Start(t) PROVE LimiterInv'
  <2>1. Types' /\ AnswerMatchesPc'
    BY <1>1 DEF LimiterInv, Types, AnswerMatchesPc, Simple!Start,
                Simple!Locations
  <2>2. Simple!Holding' = Simple!Holding /\ Simple!Serving' = Simple!Serving
    BY <1>1 DEF LimiterInv, Types, Simple!Start, Simple!Holding, Simple!Serving
  <2>3. QED
    BY <1>1, <2>1, <2>2 DEF LimiterInv, Simple!TokenConservation,
                            Simple!ServingBound,
       Simple!RejectOnlyAfterLimit, Simple!Rejected, Simple!Accepted,
       Simple!Start
<1>2. ASSUME NEW t \in Threads, Simple!Await(t) PROVE LimiterInv'
  <2>1. Types' /\ AnswerMatchesPc'
    BY <1>2 DEF LimiterInv, Types, AnswerMatchesPc, Simple!Await,
                Simple!Locations
  <2>2. Simple!Holding' = Simple!Holding /\ Simple!Serving' = Simple!Serving
    BY <1>2 DEF LimiterInv, Types, Simple!Await, Simple!Holding, Simple!Serving
  <2>3. QED
    BY <1>2, <2>1, <2>2 DEF LimiterInv, Simple!TokenConservation,
                            Simple!ServingBound,
       Simple!RejectOnlyAfterLimit, Simple!Rejected, Simple!Accepted,
       Simple!Await
<1>3. CASE Simple!CountDown
  BY <1>3 DEF LimiterInv, Types, AnswerMatchesPc, Simple!TokenConservation,
              Simple!ServingBound,
     Simple!RejectOnlyAfterLimit, Simple!Holding, Simple!Serving,
     Simple!Rejected, Simple!Accepted, Simple!CountDown
<1>4. CASE UNCHANGED Simple!vars
  BY <1>4 DEF Simple!vars, LimiterInv, Types, AnswerMatchesPc,
              Simple!TokenConservation,
     Simple!ServingBound, Simple!RejectOnlyAfterLimit, Simple!Holding,
     Simple!Serving, Simple!Rejected, Simple!Accepted
<1>5. QED
  BY <1>1, <1>2, <1>3, <1>4, DecrementLimiter, IncrementLimiter
  DEF Simple!Next, Simple!DoRequest, Simple!Finished

(* The inductive invariant holds of every behaviour. *)
LEMMA LimiterInvariance ==
  ASSUME FiniteThreads
  PROVE  Simple!Spec => []LimiterInv
  BY InitLimiter, NextLimiter, PTL DEF Simple!Spec

LEMMA TypesInRange ==
  ASSUME FiniteThreads
  PROVE  LimiterInv => Simple!TypeOK
<1> SUFFICES ASSUME LimiterInv PROVE Simple!TypeOK
  OBVIOUS
<1>1. Simple!Holding \in SUBSET Threads
  BY DEF Simple!Holding
<1>2. requestCount = Limit - Simple!Cardinality(Simple!Holding)
  BY DEF LimiterInv, Simple!TokenConservation
<1>3. requestCount \in (Limit - Simple!Cardinality(Threads)) .. Limit
  BY <1>1, <1>2, FiniteParts, LimitAssumption
<1>4. QED
  BY <1>3 DEF LimiterInv, Types, Simple!TypeOK

(* The counter stays between Limit - |Threads| and Limit. *)
THEOREM TypeCorrect ==
  ASSUME FiniteThreads
  PROVE  Simple!Spec => []Simple!TypeOK
  BY LimiterInvariance, TypesInRange, PTL

(* At most Limit accepted requests are in progress at any time. *)
THEOREM LimitRespected ==
  ASSUME FiniteThreads
  PROVE  Simple!Spec => []Simple!ServingBound
  BY LimiterInvariance, PTL DEF LimiterInv

(* The counter equals Limit minus the tokens held, at every moment. *)
THEOREM TokensConserved ==
  ASSUME FiniteThreads
  PROVE  Simple!Spec => []Simple!TokenConservation
  BY LimiterInvariance, PTL DEF LimiterInv

(* Nobody is rejected before Limit requests have been accepted. *)
THEOREM NoEarlyRejection ==
  ASSUME FiniteThreads
  PROVE  Simple!Spec => []Simple!RejectOnlyAfterLimit
  BY LimiterInvariance, PTL DEF LimiterInv
-----------------------------------------------------------------------------
LEMMA InitGate == Simple!Init => Simple!Gate!Init
  BY DEF Simple!Init, Simple!Gate!Init, Simple!Serving, Simple!Accepted,
         Simple!Rejected

LEMMA DecrementGate ==
  ASSUME FiniteThreads, LimiterInv, NEW t \in Threads, Simple!Decrement(t)
  PROVE  Simple!Gate!Admit(t) \/ Simple!Gate!Refuse(t)
<1>1. t \notin Simple!Accepted \cup Simple!Rejected
  BY DEF LimiterInv, AnswerMatchesPc, Simple!Decrement, Simple!Accepted,
         Simple!Rejected
<1>2. CASE Simple!Admits(requestCount - 1)
  <2>1. Simple!Serving' = Simple!Serving \cup {t} /\ Simple!Accepted' = Simple!Accepted \cup {t}
    BY <1>2 DEF LimiterInv, Types, AnswerMatchesPc, Simple!Decrement,
                Simple!Serving, Simple!Accepted
  <2>2. Simple!Rejected' = Simple!Rejected
    BY <1>2 DEF LimiterInv, Types, AnswerMatchesPc, Simple!Decrement,
                Simple!Rejected
  <2>3. Simple!Holding \in SUBSET Threads /\ Simple!Serving \in SUBSET Simple!Holding
    BY DEF Simple!Holding, Simple!Serving
  <2>4. Simple!Cardinality(Simple!Serving) < Limit
    BY <1>2, <2>3, AdmittedBelowLimit, Monotone, FiniteParts, LimitAssumption
  <2>5. QED
    BY <1>1, <2>1, <2>2, <2>4, SameCardinality DEF Simple!Gate!Admit
<1>3. CASE ~Simple!Admits(requestCount - 1)
  <2>1. Simple!Serving' = Simple!Serving
    BY <1>3 DEF LimiterInv, Types, Simple!Decrement, Simple!Serving
  <2>2. Simple!Accepted' = Simple!Accepted /\ Simple!Rejected' = Simple!Rejected \cup {t}
    BY <1>3 DEF LimiterInv, Types, AnswerMatchesPc, Simple!Decrement,
                Simple!Accepted, Simple!Rejected
  <2>3. QED
    BY <1>1, <1>3, <2>1, <2>2, RefusedAboveLimit, SameCardinality
    DEF Simple!Gate!Refuse
<1>4. QED
  BY <1>2, <1>3

LEMMA IncrementGate ==
  ASSUME FiniteThreads, LimiterInv, NEW t \in Threads, Simple!Increment(t)
  PROVE  Simple!Gate!Leave(t) \/ UNCHANGED Simple!Gate!gateVars
<1>1. Simple!Accepted' = Simple!Accepted /\ Simple!Rejected' = Simple!Rejected
  BY DEF Simple!Increment, Simple!Accepted, Simple!Rejected
<1>2. CASE place[t] = "serving"
  <2>1. Simple!Serving' = Simple!Serving \ {t} /\ t \in Simple!Serving
    BY <1>2 DEF LimiterInv, Types, Simple!Increment, Simple!Serving
  <2>2. QED
    BY <1>1, <2>1 DEF Simple!Gate!Leave
<1>3. CASE place[t] = "rejecting"
  <2>1. Simple!Serving' = Simple!Serving
    BY <1>3 DEF LimiterInv, Types, Simple!Increment, Simple!Serving
  <2>2. QED
    BY <1>1, <2>1 DEF Simple!Gate!gateVars
<1>4. QED
  BY <1>2, <1>3 DEF Simple!Increment

LEMMA StepGate ==
  ASSUME FiniteThreads
  PROVE  LimiterInv /\ [Simple!Next]_(Simple!vars) => [Simple!Gate!Next]_(Simple!Gate!gateVars)
<1> SUFFICES ASSUME LimiterInv,
[Simple!Next]_(Simple!vars) PROVE [Simple!Gate!Next]_(Simple!Gate!gateVars)
  OBVIOUS
<1>1. ASSUME NEW t \in Threads, Simple!Start(t) \/ Simple!Await(t)
      PROVE  UNCHANGED Simple!Gate!gateVars
  BY <1>1 DEF LimiterInv, Types, Simple!Start, Simple!Await,
              Simple!Gate!gateVars, Simple!Serving, Simple!Accepted,
     Simple!Rejected
<1>2. CASE Simple!CountDown \/ UNCHANGED Simple!vars
  BY <1>2 DEF Simple!CountDown, Simple!vars, Simple!Gate!gateVars,
              Simple!Serving, Simple!Accepted, Simple!Rejected
<1>3. ASSUME NEW t \in Threads, Simple!Decrement(t) PROVE Simple!Gate!Next
  BY <1>3, DecrementGate DEF Simple!Gate!Next
<1>4. ASSUME NEW t \in Threads, Simple!Increment(t)
      PROVE  Simple!Gate!Next \/ UNCHANGED Simple!Gate!gateVars
  BY <1>4, IncrementGate DEF Simple!Gate!Next
<1>5. QED
  BY <1>1, <1>2, <1>3, <1>4 DEF Simple!Next, Simple!DoRequest, Simple!Finished

(* The token counter implements the admission gate: every behaviour of the *)
(* limiter, seen through who is served, accepted and rejected, is one of   *)
(* the gate's.                                                             *)
THEOREM LimiterImplementsGate ==
  ASSUME FiniteThreads
  PROVE  Simple!Spec => Simple!ImplementsGate
  BY InitGate, StepGate, LimiterInvariance, PTL DEF Simple!Spec,
     Simple!ImplementsGate, Simple!Gate!Spec
==============================================================================
