------------------------- MODULE PeriodicTaskProofs -------------------------
(***************************************************************************)
(* Proofs about one real-time thread, for every period, delay and bound on *)
(* the clock, every length of its jobs and every preemption.               *)
(*                                                                         *)
(* The argument: the end of a wait needs a valid time, so the activation   *)
(* time is valid whenever a job starts from it and TimeIncrement adds the  *)
(* period to it exactly (Releases); the clock never goes back, so a job    *)
(* that starts after its activation also ends after it.                    *)
(***************************************************************************)
EXTENDS PeriodicTask, RtTimeProofs

(* The clock, the period and the delay are valid times that stand for      *)
(* their nanoseconds.                                                      *)
LEMMA ClockTimes ==
  ASSUME TypeOK
  PROVE  /\ now \in Nat /\ Now \in Normal /\ Now \in Carried
         /\ Time2ns(Now) = now
         /\ Period \in Normal /\ Time2ns(Period) = PeriodNs
         /\ Delay \in Normal /\ Time2ns(Delay) = DelayNs
<1>1. now \in Nat /\ PeriodNs \in Nat /\ DelayNs \in Nat
  BY PeriodicTaskAssumption DEF TypeOK
<1> QED
  BY <1>1, Ns2timeExact, NormalIsCarried DEF Now, Period, Delay

(* What holds of the activation times at each point of the loop.           *)
Releases ==
  /\ pc \in {"arrive", "callback"} => arrival \in Carried
  /\ pc = "arrive" => next_act \in Normal
  /\ pc = "callback" =>
       /\ arrival \in Normal
       /\ Time2ns(next_act) = Time2ns(arrival) + PeriodNs
  /\ pc \in {"init", "delay"} => statistics.n_executions = 0
  /\ pc \notin {"exited", "aborted"} => finished = 0

(* The invariant holds when startup has set the activation time.           *)
LEMMA Started ==
  ASSUME Init
  PROVE  TypeOK /\ Releases /\ NoDrift /\ NeverEarly /\ StatisticsAgree
<1>1. now \in Nat /\ PeriodNs \in Nat \ {0} /\ DelayNs \in Nat
  BY PeriodicTaskAssumption DEF Init
<1>2. Now \in Normal /\ Now \in Carried /\ Delay \in Normal
  BY <1>1, Ns2timeExact, NormalIsCarried DEF Now, Delay
<1>3. TimeIncrement(Now, Delay) \in Carried
  BY <1>2, TimeIncrementAdds
<1>4. TypeOK
  BY <1>1, <1>2, <1>3 DEF Init, TypeOK, NoStatistics
<1>5. 0 * PeriodNs = 0 /\ 0 * 0 = 0
  BY <1>1
<1>6. StatisticsAgree
  BY <1>1, <1>5 DEF Init, NoStatistics, StatisticsAgree
<1> QED
  BY <1>4, <1>6 DEF Init, Releases, NoDrift, NeverEarly, NoStatistics

(* The counters stay in agreement when a job is accounted for as late      *)
(* exactly if its response reaches the period.                             *)
LEMMA StatisticsStep ==
  ASSUME TypeOK, StatisticsAgree, NEW r \in Nat, NEW f \in Nat, r <= f,
         NEW miss \in BOOLEAN, miss <=> f - r >= PeriodNs,
         UpdateStatistics(r, f, miss)
  PROVE  /\ statistics' \in [response_times : Nat, n_executions : Nat,
                             wcrt : Nat, dmiss_count : Nat]
         /\ statistics'.n_executions = statistics.n_executions + 1
         /\ StatisticsAgree'
<1> DEFINE P == PeriodNs
           x == f - r
           sum == statistics.response_times
           n == statistics.n_executions
           w == statistics.wcrt
           d == statistics.dmiss_count
           w1 == IF w < x THEN x ELSE w
           d1 == d + (IF miss THEN 1 ELSE 0)
<1>1. /\ P \in Nat \ {0} /\ x \in Nat
      /\ sum \in Nat /\ n \in Nat /\ w \in Nat /\ d \in Nat
  BY PeriodicTaskAssumption DEF TypeOK
<1>2. statistics' = [response_times |-> sum + x, n_executions |-> n + 1,
                     wcrt |-> w1, dmiss_count |-> d1]
  BY DEF UpdateStatistics
<1>3. w1 \in Nat /\ w <= w1 /\ x <= w1 /\ (w1 = w \/ w1 = x)
  BY <1>1
<1>4. d1 \in Nat /\ (miss => d1 = d + 1) /\ (~miss => d1 = d)
  BY <1>1
<1>5. /\ d > 0 <=> w >= P
      /\ d <= n /\ d * P <= sum /\ w <= sum /\ sum <= n * w
  BY DEF StatisticsAgree
<1>6. d1 > 0 <=> w1 >= P
  <2> HIDE DEF x, w, d, w1, d1
  <2>1. miss <=> x >= P
    BY DEF x
  <2>2. CASE miss
    BY <1>1, <1>3, <1>4, <2>1, <2>2
  <2>3. CASE ~miss
    BY <1>1, <1>3, <1>4, <1>5, <2>1, <2>3
  <2> QED
    BY <2>2, <2>3
<1>7. d1 <= n + 1
  BY <1>1, <1>4, <1>5
<1>8. d1 * P <= sum + x
  <2> HIDE DEF x, d, sum, d1
  <2>1. (d + 1) * P = d * P + P /\ d * P \in Nat
    BY <1>1
  <2>2. CASE miss
    <3>1. x >= P
      BY <2>2 DEF x
    <3> QED
      BY <1>1, <1>4, <1>5, <2>1, <2>2, <3>1
  <2>3. CASE ~miss
    BY <1>1, <1>4, <1>5, <2>1, <2>3
  <2> QED
    BY <2>2, <2>3
<1>9. w1 <= sum + x
  BY <1>1, <1>3, <1>5
<1>10. sum + x <= (n + 1) * w1
  <2> HIDE DEF x, n, w, sum, w1
  <2>1. (n + 1) * w1 = n * w1 + w1 /\ n * w1 \in Nat /\ n * w \in Nat
    BY <1>1, <1>3
  <2>2. n * w1 - n * w = n * (w1 - w) /\ n * (w1 - w) \in Nat
    BY <1>1, <1>3
  <2> QED
    BY <1>1, <1>3, <1>5, <2>1, <2>2
<1>11. StatisticsAgree'
  <2> HIDE DEF x, n, w, d, sum, w1, d1
  <2>1. /\ statistics'.response_times = sum + x
        /\ statistics'.n_executions = n + 1
        /\ statistics'.wcrt = w1
        /\ statistics'.dmiss_count = d1
    BY <1>2
  <2> QED
    BY <1>6, <1>7, <1>8, <1>9, <1>10, <2>1 DEF StatisticsAgree
<1> QED
  BY <1>1, <1>2, <1>3, <1>4, <1>11

IInv == TypeOK /\ Releases /\ NoDrift /\ NeverEarly /\ StatisticsAgree

(* A step that computes no activation time and accounts for no job.        *)
LEMMA OtherStep ==
  ASSUME IInv, UserInit \/ PeriodEnds \/ Tick \/ UNCHANGED vars
  PROVE  IInv'
<1> USE DEF IInv, taskVars, vars
<1>1. CASE UserInit
  BY <1>1 DEF UserInit, TypeOK, Releases, NoDrift, NeverEarly,
              StatisticsAgree
<1>2. CASE PeriodEnds
  BY <1>2 DEF PeriodEnds, WaitEnds, TypeOK, Releases, NoDrift, Activations,
              NeverEarly, StatisticsAgree
<1>3. CASE Tick
  <2>1. TypeOK' /\ now' \in Nat /\ now \in Nat /\ now' = now + 1
    BY <1>3, PeriodicTaskAssumption DEF Tick, TypeOK
  <2>2. NeverEarly'
    <3>1. Time2ns(next_act) \in Nat /\ Time2ns(arrival) \in Nat
      BY Time2nsNat DEF TypeOK
    <3> QED
      BY <1>3, <2>1, <3>1 DEF Tick, NeverEarly
  <2> QED
    BY <1>3, <2>1, <2>2 DEF Tick, Releases, NoDrift, Activations,
                            StatisticsAgree
<1>4. CASE UNCHANGED vars
  BY <1>4 DEF TypeOK, Releases, NoDrift, Activations, NeverEarly,
              StatisticsAgree
<1> QED
  BY <1>1, <1>2, <1>3, <1>4

(* A step that ends the thread or the program.                             *)
LEMMA LastStep ==
  ASSUME IInv, UserInitAborts \/ JobStops \/ Aborts
  PROVE  IInv'
<1> USE DEF IInv, taskVars
<1>1. CASE UserInitAborts \/ JobStops
  BY <1>1 DEF UserInitAborts, JobStops, Exit, TypeOK, Releases, NoDrift,
              NeverEarly, StatisticsAgree
<1>2. CASE Aborts
  BY <1>2 DEF Aborts, WaitRefused, TypeOK, Releases, NoDrift, NeverEarly,
              StatisticsAgree
<1> QED
  BY <1>1, <1>2

(* The first activation is the instant at which the delay ends.            *)
LEMMA DelayEndsStep ==
  ASSUME IInv, DelayEnds
  PROVE  IInv'
<1> USE DEF IInv, taskVars
<1>1. /\ now \in Nat /\ Now \in Normal /\ Now \in Carried
      /\ Time2ns(Now) = now
  BY ClockTimes
<1>2. TypeOK'
  BY <1>1 DEF DelayEnds, TypeOK
<1>3. Releases'
  BY <1>1 DEF DelayEnds, Releases, TypeOK
<1>4. NoDrift'
  <2>1. statistics.n_executions \in Nat
    BY DEF TypeOK
  <2>2. Activations' = 0
    BY DEF DelayEnds, Releases, Activations
  <2>3. 0 * PeriodNs = 0 /\ now + 0 = now
    BY <1>1, PeriodicTaskAssumption
  <2>4. Time2ns(next_act)' = now /\ first' = now
    BY <1>1 DEF DelayEnds
  <2> QED
    BY <2>2, <2>3, <2>4 DEF NoDrift
<1>5. NeverEarly'
  BY <1>1 DEF DelayEnds, WaitEnds, NeverEarly
<1>6. StatisticsAgree'
  BY DEF DelayEnds, StatisticsAgree
<1> QED
  BY <1>2, <1>3, <1>4, <1>5, <1>6

(* The activation times step by exactly one period.                        *)
LEMMA ArriveStep ==
  ASSUME IInv, Arrive
  PROVE  IInv'
<1> USE DEF IInv, taskVars
<1>1. next_act \in Normal /\ next_act \in Carried /\ Period \in Normal
      /\ Time2ns(Period) = PeriodNs
  BY ClockTimes, NormalIsCarried DEF Arrive, Releases
<1>2. /\ next_act' \in Carried
      /\ Time2ns(next_act') = Time2ns(next_act) + PeriodNs
  BY <1>1, TimeIncrementAdds DEF Arrive
<1>3. TypeOK'
  BY <1>1, <1>2 DEF Arrive, TypeOK
<1>4. Releases'
  BY <1>1, <1>2 DEF Arrive, Releases, Time2ns
<1>5. NoDrift'
  <2> DEFINE n == statistics.n_executions
  <2>1. n \in Nat /\ PeriodNs \in Nat /\ first \in Nat
    BY PeriodicTaskAssumption DEF TypeOK
  <2>2. Time2ns(next_act) = first + (n + 0) * PeriodNs
    BY DEF Arrive, NoDrift, Activations
  <2>3. (n + 1) * PeriodNs = (n + 0) * PeriodNs + PeriodNs
        /\ (n + 0) * PeriodNs \in Nat
    BY <2>1
  <2>4. Time2ns(next_act') = first + (n + 1) * PeriodNs
    BY <1>2, <2>1, <2>2, <2>3
  <2>5. Activations' = n + 1 /\ first' = first
    BY DEF Arrive, Activations
  <2> QED
    BY <2>4, <2>5 DEF NoDrift, Time2ns
<1>6. NeverEarly'
  BY DEF Arrive, NeverEarly, Time2ns
<1>7. StatisticsAgree'
  BY DEF Arrive, StatisticsAgree
<1> QED
  BY <1>3, <1>4, <1>5, <1>6, <1>7

(* The comparison of the next activation with the finish time tells        *)
(* whether the response has reached the period.                            *)
LEMMA JobDoneStep ==
  ASSUME IInv, JobDone
  PROVE  IInv'
<1> USE DEF IInv, taskVars
<1> DEFINE r == Time2ns(arrival)
           miss == TimeCmp(next_act, Now) > 0
<1>1. /\ now \in Nat /\ Now \in Normal /\ Time2ns(Now) = now
      /\ PeriodNs \in Nat
  BY ClockTimes, PeriodicTaskAssumption
<1>2. /\ r \in Nat /\ r <= now
      /\ next_act \in Carried /\ Time2ns(next_act) = r + PeriodNs
  BY Time2nsNat DEF JobDone, Releases, NeverEarly, TypeOK
<1>3. miss \in BOOLEAN /\ (miss <=> now - r >= PeriodNs)
  <2>1. TimeCmp(next_act, Now) = IF Time2ns(next_act) > now THEN -1 ELSE 1
    BY <1>1, <1>2, TimeCmpOrders
  <2>2. CASE Time2ns(next_act) > now
    BY <1>1, <1>2, <2>1, <2>2
  <2>3. CASE ~(Time2ns(next_act) > now)
    BY <1>1, <1>2, <2>1, <2>3
  <2> QED
    BY <2>2, <2>3
<1>4. UpdateStatistics(r, now, miss)
  BY <1>1 DEF JobDone
<1>5. /\ statistics' \in [response_times : Nat, n_executions : Nat,
                          wcrt : Nat, dmiss_count : Nat]
      /\ statistics'.n_executions = statistics.n_executions + 1
      /\ StatisticsAgree'
  <2> HIDE DEF r, miss
  <2> QED
    BY <1>1, <1>2, <1>3, <1>4, StatisticsStep
<1>6. TypeOK'
  BY <1>5 DEF JobDone, TypeOK
<1>7. Releases'
  BY DEF JobDone, Releases
<1>8. NoDrift'
  <2>1. statistics.n_executions \in Nat
    BY DEF TypeOK
  <2>2. Activations = statistics.n_executions + 1
        /\ Activations' = statistics.n_executions + 1 + 0
    BY <1>5 DEF JobDone, Activations
  <2>3. Activations' = Activations
    BY <2>1, <2>2
  <2> QED
    BY <2>3 DEF JobDone, NoDrift, Time2ns
<1>9. NeverEarly'
  BY DEF JobDone, NeverEarly, Time2ns
<1> QED
  BY <1>5, <1>6, <1>7, <1>8, <1>9

(* thread_routine and update_statistics keep the inductive invariant:      *)
(* types, exact activation times, no early job, counters in agreement.     *)
THEOREM PeriodicTaskInvariant == Spec => []IInv
<1>1. Init => IInv
  BY Started DEF IInv
<1>2. IInv /\ [Next]_vars => IInv'
  BY OtherStep, LastStep, DelayEndsStep, ArriveStep, JobDoneStep DEF Next
<1> QED
  BY <1>1, <1>2, PTL DEF Spec

(* The n-th job is due exactly n periods after the first activation,       *)
(* however long the jobs take: thread_routine adds the period to the       *)
(* activation time, not to the clock.                                      *)
THEOREM PeriodicTaskNoDrift == Spec => []NoDrift
BY PeriodicTaskInvariant, PTL DEF IInv

(* The timespecs of thread_routine stay in the form that the library takes *)
(* for valid and its counters natural, for every period and start.         *)
THEOREM PeriodicTaskTypeCorrect == Spec => []TypeOK
BY PeriodicTaskInvariant, PTL DEF IInv

(* No job runs before it is due, hence the unsigned f - r of               *)
(* update_statistics does not wrap around.                                 *)
THEOREM PeriodicTaskNeverEarly == Spec => []NeverEarly
BY PeriodicTaskInvariant, PTL DEF IInv

(* The four counters of thrd_rtstats_t agree with each other at any time.  *)
THEOREM PeriodicTaskStatisticsAgree == Spec => []StatisticsAgree
BY PeriodicTaskInvariant, PTL DEF IInv

=============================================================================
