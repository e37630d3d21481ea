--------------------------- MODULE ThrdPoolProofs ---------------------------
(***************************************************************************)
(* Proofs about the pool, for any periods, priorities and number of        *)
(* threads.  The invariant says what a running pool's list looks like: the *)
(* priorities go up along it and the periods down (Ranked), what has been  *)
(* started is a prefix of it (Phases), and a thread that nobody is going   *)
(* to join is the last one started (Unmarked).                             *)
(***************************************************************************)
EXTENDS ThrdPool, RtTimeProofs, TLAPS

Ranked ==
  running =>
    /\ \A i \in DOMAIN threads :
         threads[i].priority = MinPrio + SchedMin + (i - 1)
    /\ \A i, j \in DOMAIN threads :
         i < j => Time2ns(threads[j].period) <= Time2ns(threads[i].period)

Phases ==
  /\ call = "start" =>
       /\ running
       /\ \A i \in DOMAIN threads :
            /\ threads[i].thread # "none" <=> i < position
            /\ i < position => threads[i].status = "alive"
  /\ call = "mark" =>
       /\ running
       /\ position <= Len(threads)
       /\ \A i \in DOMAIN threads :
            /\ threads[i].thread # "none" <=> i <= position
            /\ i < position => threads[i].status = "alive"
  /\ ~running => \A i \in DOMAIN threads : threads[i].thread = "none"
  /\ \A i, j \in DOMAIN threads :
       i < j /\ threads[i].thread = "none" => threads[j].thread = "none"

Unmarked ==
  \A i, j \in DOMAIN threads :
    threads[i].thread = "running" /\ threads[i].status # "alive" /\ i < j
      => threads[j].thread = "none"

IInv == TypeOK /\ Ranked /\ Phases /\ Unmarked

-----------------------------------------------------------------------------

(* What the caller asks for is a valid time, a natural in nanoseconds.     *)
LEMMA PeriodNormal ==
  ASSUME NEW t \in Thrd
  PROVE  t.period \in Normal /\ Time2ns(t.period) \in Nat
<1>1. PICK ns \in PeriodsNs : t.period = Ns2time(ns)
  BY DEF Thrd, Period
<1>2. ns \in Nat
  BY ThrdPoolAssumption
<1>3. Ns2time(ns) \in Normal
  BY <1>2, Ns2timeExact
<1>4. t.period \in Carried
  BY <1>1, <1>3, NormalIsCarried
<1> QED
  BY <1>1, <1>3, <1>4, Time2nsNat

(* thrd_start ranks the list, whatever permutation dlist_sort applies      *)
(* among those that prio_cmp allows.                                       *)
LEMMA StartRanks ==
  ASSUME threads \in Seq(Thrd),
         NEW p \in [DOMAIN threads -> DOMAIN threads], Sorts(p),
         threads' = RmPriorities(p)
  PROVE  /\ threads' \in Seq(Thrd) /\ Len(threads') = Len(threads)
         /\ \A i \in DOMAIN threads' :
              /\ threads'[i].priority = MinPrio + SchedMin + (i - 1)
              /\ threads'[i].period = threads[p[i]].period
              /\ threads'[i].thread = threads[p[i]].thread
         /\ \A i, j \in DOMAIN threads' :
              i < j => Time2ns(threads'[j].period) <= Time2ns(threads'[i].period)
<1> DEFINE n == Len(threads)
<1>1. n \in Nat /\ DOMAIN threads = 1 .. n
  OBVIOUS
<1>2. \A i \in 1 .. n : p[i] \in 1 .. n /\ threads[p[i]] \in Thrd
  BY <1>1
<1>3. threads' = [i \in 1 .. n |->
         [threads[p[i]] EXCEPT !.priority = MinPrio + SchedMin + (i - 1)]]
  BY <1>1 DEF RmPriorities
<1>4. DOMAIN threads' = 1 .. n
  BY <1>3
<1>5. ASSUME NEW i \in 1 .. n
      PROVE  /\ threads'[i] \in Thrd
             /\ threads'[i].priority = MinPrio + SchedMin + (i - 1)
             /\ threads'[i].period = threads[p[i]].period
             /\ threads'[i].thread = threads[p[i]].thread
  <2>1. threads'[i] =
          [threads[p[i]] EXCEPT !.priority = MinPrio + SchedMin + (i - 1)]
    BY <1>3
  <2>2. MinPrio + SchedMin + (i - 1) \in Nat
    BY <1>1, ThrdPoolAssumption
  <2>3. threads[p[i]] \in Thrd
    BY <1>2
  <2> HIDE DEF n
  <2> QED
    BY <2>1, <2>2, <2>3 DEF Thrd
<1>6. threads' \in Seq(Thrd) /\ Len(threads') = n
  BY <1>1, <1>3, <1>5
<1>7. ASSUME NEW i \in 1 .. n, NEW j \in 1 .. n, i < j
      PROVE  Time2ns(threads'[j].period) <= Time2ns(threads'[i].period)
  <2> DEFINE a == threads[p[i]].period
             b == threads[p[j]].period
  <2>1. ~(TimeCmp(b, a) < 0)
    BY <1>1, <1>7 DEF Sorts, PrioCmp
  <2>2. /\ a \in Normal /\ Time2ns(a) \in Nat
        /\ b \in Normal /\ Time2ns(b) \in Nat
    BY <1>2, PeriodNormal
  <2>3. b \in Carried
    BY <2>2, NormalIsCarried
  <2>4. TimeCmp(b, a) = IF Time2ns(b) > Time2ns(a) THEN -1 ELSE 1
    BY <2>2, <2>3, TimeCmpOrders
  <2>5. threads'[i].period = a /\ threads'[j].period = b
    BY <1>5
  <2> HIDE DEF a, b
  <2> QED
    BY <2>1, <2>2, <2>4, <2>5
<1> QED
  BY <1>1, <1>4, <1>5, <1>6, <1>7

(* Changing the flags of one thread keeps its period and its priority, and *)
(* the other threads.                                                      *)
LEMMA FlagsChange ==
  ASSUME threads \in Seq(Thrd), NEW i \in DOMAIN threads,
         NEW s \in {"initialized", "alive", "freed"},
         NEW r \in {"none", "running", "ended"},
         threads' = [threads EXCEPT ![i] =
                       [threads[i] EXCEPT !.status = s, !.thread = r]]
  PROVE  /\ threads' \in Seq(Thrd) /\ Len(threads') = Len(threads)
         /\ DOMAIN threads' = DOMAIN threads
         /\ \A j \in DOMAIN threads :
              /\ threads'[j].period = threads[j].period
              /\ threads'[j].priority = threads[j].priority
              /\ threads'[j].status = IF j = i THEN s ELSE threads[j].status
              /\ threads'[j].thread = IF j = i THEN r ELSE threads[j].thread
<1>1. threads[i] \in Thrd
  OBVIOUS
<1> DEFINE new == [threads[i] EXCEPT !.status = s, !.thread = r]
<1>2. /\ new \in Thrd
      /\ new.period = threads[i].period /\ new.priority = threads[i].priority
      /\ new.status = s /\ new.thread = r
  BY <1>1 DEF Thrd
<1>3. threads' = [threads EXCEPT ![i] = new]
  OBVIOUS
<1> HIDE DEF new
<1> QED
  BY <1>2, <1>3

(* The two forms in which ThrdPool changes them.                           *)
LEMMA StatusChanges ==
  ASSUME threads \in Seq(Thrd), NEW i \in DOMAIN threads,
         NEW s \in {"initialized", "alive", "freed"},
         threads' = [threads EXCEPT ![i].status = s]
  PROVE  /\ threads' \in Seq(Thrd) /\ Len(threads') = Len(threads)
         /\ DOMAIN threads' = DOMAIN threads
         /\ \A j \in DOMAIN threads :
              /\ threads'[j].period = threads[j].period
              /\ threads'[j].priority = threads[j].priority
              /\ threads'[j].status = IF j = i THEN s ELSE threads[j].status
              /\ threads'[j].thread = threads[j].thread
<1>1. threads[i] \in Thrd
  OBVIOUS
<1> DEFINE new == [threads[i] EXCEPT !.status = s]
<1>3. /\ new \in Thrd
      /\ new.period = threads[i].period /\ new.priority = threads[i].priority
      /\ new.status = s /\ new.thread = threads[i].thread
  BY <1>1 DEF Thrd
<1>4. threads' = [threads EXCEPT ![i] = new]
  OBVIOUS
<1> HIDE DEF new
<1> QED
  BY <1>3, <1>4

LEMMA ThreadChanges ==
  ASSUME threads \in Seq(Thrd), NEW i \in DOMAIN threads,
         NEW r \in {"none", "running", "ended"},
         threads' = [threads EXCEPT ![i].thread = r]
  PROVE  /\ threads' \in Seq(Thrd) /\ Len(threads') = Len(threads)
         /\ DOMAIN threads' = DOMAIN threads
         /\ \A j \in DOMAIN threads :
              /\ threads'[j].period = threads[j].period
              /\ threads'[j].priority = threads[j].priority
              /\ threads'[j].status = threads[j].status
              /\ threads'[j].thread = IF j = i THEN r ELSE threads[j].thread
<1>1. threads[i] \in Thrd
  OBVIOUS
<1> DEFINE new == [threads[i] EXCEPT !.thread = r]
<1>3. /\ new \in Thrd
      /\ new.period = threads[i].period /\ new.priority = threads[i].priority
      /\ new.status = threads[i].status /\ new.thread = r
  BY <1>1 DEF Thrd
<1>4. threads' = [threads EXCEPT ![i] = new]
  OBVIOUS
<1> HIDE DEF new
<1> QED
  BY <1>3, <1>4

-----------------------------------------------------------------------------

(* The steps that leave the list alone.                                    *)
OnlyCallSteps ==
  \/ AddWithPendingError
  \/ AddToRunning
  \/ StartEmpty
  \/ PriorityRefused
  \/ StartFails
  \/ Started
  \/ Interr
  \/ Destroy
  \/ Destroyed

(* Every step keeps the invariant.                                         *)
LEMMA NextKeeps == IInv /\ [Next]_vars => IInv'
<1> SUFFICES ASSUME IInv, [Next]_vars PROVE IInv'
  OBVIOUS
<1> USE DEF IInv
<1>0. threads \in Seq(Thrd) /\ Len(threads) \in Nat /\ DOMAIN threads = 1 .. Len(threads)
  BY DEF TypeOK
<1>1. CASE \/ UNCHANGED vars \/ OnlyCallSteps
  <2>1. UNCHANGED <<threads, running>>
    BY <1>1 DEF vars, OnlyCallSteps, AddWithPendingError, Aborts, AddToRunning,
       StartEmpty, PriorityRefused, StartFails, Started, Returns, Interr,
       Destroy, Destroyed
  <2>2. Ranked'
    BY <2>1 DEF Ranked
  <2>3. TypeOK'
    <3> DEFINE Errors == {"LIBRARY", "CLOSED", "EMPTY"}
               Calls == {"ready", "start", "mark", "destroy", "destroyed", "aborted"}
    <3>1. errors' \subseteq Errors /\ call' \in Calls
      <4>1. errors \subseteq Errors /\ call \in Calls
        BY DEF TypeOK
      <4>2. errors' \in {errors, {}, {"CLOSED"}, errors \cup {"EMPTY"},
                        errors \cup {"LIBRARY"}}
        BY <1>1 DEF vars, OnlyCallSteps, AddWithPendingError, Aborts,
           AddToRunning, StartEmpty, PriorityRefused, StartFails, Started,
           Returns, Interr, Destroy, Destroyed
      <4>3. call' \in {call, "aborted", "ready", "destroy", "destroyed"}
        BY <1>1 DEF vars, OnlyCallSteps, AddWithPendingError, Aborts,
           AddToRunning, StartEmpty, PriorityRefused, StartFails, Started,
           Returns, Interr, Destroy, Destroyed
      <4> QED
        BY <4>1, <4>2, <4>3
    <3>2. position' \in {position, 1}
      BY <1>1 DEF vars, OnlyCallSteps, AddWithPendingError, Aborts,
         AddToRunning, StartEmpty, PriorityRefused, StartFails, Started,
         Returns, Interr, Destroy, Destroyed
    <3>3. position \in 1 .. Len(threads) + 1 /\ 1 \in 1 .. Len(threads) + 1
      BY <1>0 DEF TypeOK
    <3> QED
      BY <2>1, <3>1, <3>2, <3>3 DEF TypeOK
  <2>4. Phases' /\ Unmarked'
    BY <1>1 DEF Phases, Unmarked, vars, OnlyCallSteps, AddWithPendingError,
       Aborts, AddToRunning, StartEmpty, PriorityRefused, StartFails, Started,
       Returns, Interr, Destroy, Destroyed
  <2> QED
    BY <2>2, <2>3, <2>4
<1>2. ASSUME NEW ns \in PeriodsNs, Add(ns)
      PROVE  IInv'
  <2>1. NewThrd(ns) \in Thrd /\ NewThrd(ns).thread = "none"
    BY DEF NewThrd, Thrd
  <2>2. /\ threads' = Append(threads, NewThrd(ns))
        /\ threads' \in Seq(Thrd)
        /\ Len(threads') = Len(threads) + 1
        /\ DOMAIN threads' = 1 .. Len(threads) + 1
        /\ \A i \in DOMAIN threads :
             threads'[i] = threads[i] /\ i \in DOMAIN threads'
        /\ threads'[Len(threads) + 1] = NewThrd(ns)
    BY <1>0, <1>2, <2>1 DEF Add
  <2>3. ~running' /\ call' = "ready" /\ ~running
    BY <1>2 DEF Add
  <2>4. \A i \in DOMAIN threads' : threads'[i].thread = "none"
    <3>1. \A i \in DOMAIN threads : threads[i].thread = "none"
      BY <2>3 DEF Phases
    <3> QED
      BY <1>0, <2>1, <2>2, <3>1
  <2>5. TypeOK'
    BY <1>0, <1>2, <2>2 DEF Add, TypeOK
  <2>6. Unmarked'
    BY <2>4 DEF Unmarked
  <2> QED
    BY <2>3, <2>4, <2>5, <2>6 DEF Ranked, Phases
<1>3. CASE Start
  <2>1. PICK p \in [DOMAIN threads -> DOMAIN threads] :
          Sorts(p) /\ threads' = RmPriorities(p)
    BY <1>3 DEF Start
  <2>2. /\ threads' \in Seq(Thrd) /\ Len(threads') = Len(threads)
        /\ \A i \in DOMAIN threads' :
             /\ threads'[i].priority = MinPrio + SchedMin + (i - 1)
             /\ threads'[i].thread = threads[p[i]].thread
        /\ \A i, j \in DOMAIN threads' :
             i < j => Time2ns(threads'[j].period) <= Time2ns(threads'[i].period)
    BY <1>0, <2>1, StartRanks
  <2>3. \A i \in DOMAIN threads : threads[i].thread = "none"
    BY <1>3 DEF Start, Phases
  <2>4. DOMAIN threads' = 1 .. Len(threads)
    BY <2>2
  <2>5. \A i \in DOMAIN threads' :
          threads'[i].thread = "none" /\ ~(i < 1)
    BY <1>0, <2>1, <2>2, <2>3, <2>4
  <2>6. TypeOK'
    BY <1>0, <1>3, <2>2 DEF Start, TypeOK
  <2>7. running' /\ call' = "start" /\ position' = 1
    BY <1>3 DEF Start
  <2>8. Ranked'
    BY <2>2 DEF Ranked
  <2>9. Unmarked'
    BY <2>5 DEF Unmarked
  <2> QED
    BY <2>5, <2>6, <2>7, <2>8, <2>9 DEF Phases
<1>4. CASE CreateThread
  <2>1. position \in DOMAIN threads /\ call = "start"
    BY <1>4, <1>0 DEF CreateThread, TypeOK
  <2>2. /\ threads' \in Seq(Thrd) /\ Len(threads') = Len(threads)
        /\ DOMAIN threads' = DOMAIN threads
        /\ \A j \in DOMAIN threads :
             /\ threads'[j].period = threads[j].period
             /\ threads'[j].priority = threads[j].priority
             /\ threads'[j].status = threads[j].status
             /\ threads'[j].thread = IF j = position THEN "running"
                                     ELSE threads[j].thread
    BY <1>0, <1>4, <2>1, ThreadChanges DEF CreateThread
  <2>3. call' = "mark" /\ UNCHANGED <<running, errors, position>>
    BY <1>4 DEF CreateThread
  <2>4. Ranked'
    BY <2>2, <2>3 DEF Ranked
  <2>5. TypeOK'
    BY <1>0, <2>2, <2>3 DEF TypeOK
  <2>6. /\ running
        /\ \A i \in DOMAIN threads :
             /\ threads[i].thread # "none" <=> i < position
             /\ i < position => threads[i].status = "alive"
    BY <2>1 DEF Phases
  <2>7. Phases'
    BY <1>0, <2>1, <2>2, <2>3, <2>6 DEF Phases
  <2>8. Unmarked'
    BY <1>0, <2>1, <2>2, <2>3, <2>6 DEF Unmarked
  <2> QED
    BY <2>4, <2>5, <2>7, <2>8
<1>5. CASE MarkAlive
  <2>1. position \in DOMAIN threads /\ call = "mark"
    BY <1>5, <1>0 DEF MarkAlive, Phases, TypeOK
  <2>2. /\ threads' \in Seq(Thrd) /\ Len(threads') = Len(threads)
        /\ DOMAIN threads' = DOMAIN threads
        /\ \A j \in DOMAIN threads :
             /\ threads'[j].period = threads[j].period
             /\ threads'[j].priority = threads[j].priority
             /\ threads'[j].status = IF j = position THEN "alive"
                                     ELSE threads[j].status
             /\ threads'[j].thread = threads[j].thread
    BY <1>0, <1>5, <2>1, StatusChanges DEF MarkAlive
  <2>3. /\ call' = "start" /\ UNCHANGED <<running, errors>>
        /\ position' = position + 1
    BY <1>5 DEF MarkAlive
  <2>4. Ranked'
    BY <2>2, <2>3 DEF Ranked
  <2>5. TypeOK'
    BY <1>0, <2>1, <2>2, <2>3 DEF TypeOK
  <2>6. /\ running
        /\ \A i \in DOMAIN threads :
             /\ threads[i].thread # "none" <=> i <= position
             /\ i < position => threads[i].status = "alive"
    BY <2>1 DEF Phases
  <2>7. Phases'
    <3>1. \A i \in DOMAIN threads : i < position' <=> i <= position
      BY <1>0, <2>1, <2>3
    <3>2. \A i \in DOMAIN threads : i <= position => i < position \/ i = position
      BY <1>0, <2>1
    <3>3. \A i \in DOMAIN threads' :
            /\ threads'[i].thread # "none" <=> i < position'
            /\ i < position' => threads'[i].status = "alive"
      BY <2>2, <2>6, <3>1, <3>2
    <3>4. \A i, j \in DOMAIN threads' :
            i < j /\ threads'[i].thread = "none" => threads'[j].thread = "none"
      BY <2>2 DEF Phases
    <3> QED
      BY <2>3, <2>6, <3>3, <3>4 DEF Phases
  <2>8. Unmarked'
    BY <2>2 DEF Unmarked
  <2> QED
    BY <2>4, <2>5, <2>7, <2>8
<1>6. CASE FreeThread
  <2>1. position \in DOMAIN threads /\ call = "destroy"
    BY <1>6, <1>0 DEF FreeThread, TypeOK
  <2>2. /\ threads' \in Seq(Thrd) /\ Len(threads') = Len(threads)
        /\ DOMAIN threads' = DOMAIN threads
        /\ \A j \in DOMAIN threads :
             /\ threads'[j].period = threads[j].period
             /\ threads'[j].priority = threads[j].priority
             /\ threads'[j].status = IF j = position THEN "freed"
                                     ELSE threads[j].status
             /\ threads'[j].thread = threads[j].thread
    BY <1>0, <1>6, <2>1, StatusChanges DEF FreeThread
  <2>3. /\ UNCHANGED <<running, errors, call>> /\ position' = position + 1
        /\ threads[position].status = "alive" => threads[position].thread = "ended"
    BY <1>6 DEF FreeThread
  <2>4. Ranked'
    BY <2>2, <2>3 DEF Ranked
  <2>5. TypeOK'
    BY <1>0, <2>1, <2>2, <2>3 DEF TypeOK
  <2>6. Phases'
    BY <2>1, <2>2, <2>3 DEF Phases
  <2>7. Unmarked'
    BY <2>1, <2>2, <2>3 DEF Unmarked
  <2> QED
    BY <2>4, <2>5, <2>6, <2>7
<1>7. ASSUME NEW e \in DOMAIN threads, EndThread(e)
      PROVE  IInv'
  <2>1. /\ threads' \in Seq(Thrd) /\ Len(threads') = Len(threads)
        /\ DOMAIN threads' = DOMAIN threads
        /\ \A j \in DOMAIN threads :
             /\ threads'[j].period = threads[j].period
             /\ threads'[j].priority = threads[j].priority
             /\ threads'[j].status = threads[j].status
             /\ threads'[j].thread = IF j = e THEN "ended"
                                     ELSE threads[j].thread
    BY <1>0, <1>7, ThreadChanges DEF EndThread
  <2>2. /\ threads[e].thread = "running"
        /\ UNCHANGED <<running, errors, call, position>>
    BY <1>7 DEF EndThread
  <2>3. Ranked'
    BY <2>1, <2>2 DEF Ranked
  <2>4. TypeOK'
    BY <1>0, <2>1, <2>2 DEF TypeOK
  <2>5. Phases'
    BY <2>1, <2>2 DEF Phases
  <2>6. Unmarked'
    BY <2>1, <2>2 DEF Unmarked
  <2> QED
    BY <2>3, <2>4, <2>5, <2>6
<1> QED
  BY <1>1, <1>2, <1>3, <1>4, <1>5, <1>6, <1>7 DEF Next, OnlyCallSteps

(* What the pool's list looks like at any time.                            *)
THEOREM ThrdPoolInvariant == Spec => []IInv
<1>1. Init => IInv
  <2> SUFFICES ASSUME Init PROVE IInv
    OBVIOUS
  <2>1. /\ threads \in Seq(Thrd) /\ DOMAIN threads = {} /\ Len(threads) = 0
        /\ running = FALSE /\ errors = {} /\ call = "ready" /\ position = 1
    BY DEF Init
  <2>2. TypeOK
    <3>1. Len(threads) \in Nat
      BY <2>1
    <3>2. position \in 1 .. Len(threads) + 1
      BY <2>1, <3>1
    <3> QED
      BY <2>1, <3>2 DEF TypeOK
  <2>3. Ranked /\ Phases /\ Unmarked
    BY <2>1 DEF Ranked, Phases, Unmarked
  <2> QED
    BY <2>2, <2>3 DEF IInv
<1> QED
  BY <1>1, NextKeeps, PTL DEF Spec

(* The types: the loops of thrd_start and thrd_destroy stay in the list.   *)
THEOREM ThrdPoolTypeCorrect == Spec => []TypeOK
<1>1. IInv => TypeOK
  BY DEF IInv
<1> QED
  BY <1>1, ThrdPoolInvariant, PTL

(* In a running pool shorter periods have higher priorities and no two     *)
(* threads share one (set_rm_priorities), for any number of threads.       *)
THEOREM ThrdPoolRateMonotonic == Spec => []RateMonotonic
<1>1. IInv => RateMonotonic
  <2> SUFFICES ASSUME IInv, running, NEW i \in DOMAIN threads,
                      NEW j \in DOMAIN threads
               PROVE  /\ Time2ns(threads[i].period) < Time2ns(threads[j].period)
                           => threads[i].priority > threads[j].priority
                      /\ i # j => threads[i].priority # threads[j].priority
    BY DEF RateMonotonic
  <2>1. threads[i] \in Thrd /\ threads[j] \in Thrd /\ i \in Nat /\ j \in Nat
    BY DEF IInv, TypeOK
  <2>2. Time2ns(threads[i].period) \in Nat /\ Time2ns(threads[j].period) \in Nat
    BY <2>1, PeriodNormal
  <2>3. /\ threads[i].priority = MinPrio + SchedMin + (i - 1)
        /\ threads[j].priority = MinPrio + SchedMin + (j - 1)
        /\ i < j => Time2ns(threads[j].period) <= Time2ns(threads[i].period)
        /\ j < i => Time2ns(threads[i].period) <= Time2ns(threads[j].period)
    BY DEF IInv, Ranked
  <2>4. i = j \/ i < j \/ j < i
    BY <2>1
  <2> QED
    BY <2>1, <2>2, <2>3, <2>4, ThrdPoolAssumption
<1> QED
  BY <1>1, ThrdPoolInvariant, PTL

(* A start that fails halfway (thrd_start returns from the middle of its   *)
(* loop), or that a signal cuts short, leaves the lowest priorities        *)
(* running, never a more urgent thread.                                    *)
THEOREM ThrdPoolLeastUrgentStarted == Spec => []LeastUrgentStarted
<1>1. IInv => LeastUrgentStarted
  <2> SUFFICES ASSUME IInv, NEW i \in DOMAIN threads, NEW j \in DOMAIN threads,
                      threads[i].thread # "none", threads[j].thread = "none"
               PROVE  threads[i].priority < threads[j].priority
    BY DEF LeastUrgentStarted
  <2>1. i \in Nat /\ j \in Nat
    BY DEF IInv, TypeOK
  <2>2. running
    BY DEF IInv, Phases
  <2>3. ~(j < i) /\ i # j
    BY DEF IInv, Phases
  <2>4. /\ threads[i].priority = MinPrio + SchedMin + (i - 1)
        /\ threads[j].priority = MinPrio + SchedMin + (j - 1)
    BY <2>2 DEF IInv, Ranked
  <2> QED
    BY <2>1, <2>3, <2>4, ThrdPoolAssumption
<1> QED
  BY <1>1, ThrdPoolInvariant, PTL

(* A thread that runs on when free_thread has freed its thrd_t is the one  *)
(* that startup had created and not marked yet: the most urgent so far.    *)
THEOREM ThrdPoolJoinedBeforeFreed == Spec => []JoinedBeforeFreed
<1>1. IInv => JoinedBeforeFreed
  <2> SUFFICES ASSUME IInv, NEW i \in DOMAIN threads, NEW j \in DOMAIN threads,
                      threads[i].status = "freed", threads[i].thread = "running",
                      threads[j].thread # "none", i # j
               PROVE  threads[j].priority < threads[i].priority
    BY DEF JoinedBeforeFreed
  <2>1. i \in Nat /\ j \in Nat
    BY DEF IInv, TypeOK
  <2>2. running
    BY DEF IInv, Phases
  <2>3. ~(i < j)
    BY DEF IInv, Unmarked
  <2>4. /\ threads[i].priority = MinPrio + SchedMin + (i - 1)
        /\ threads[j].priority = MinPrio + SchedMin + (j - 1)
    BY <2>2 DEF IInv, Ranked
  <2> QED
    BY <2>1, <2>3, <2>4, ThrdPoolAssumption
<1> QED
  BY <1>1, ThrdPoolInvariant, PTL

=============================================================================
