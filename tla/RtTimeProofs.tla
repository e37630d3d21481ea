---------------------------- MODULE RtTimeProofs ----------------------------
(* What the arithmetic on struct timespec computes, for any number of      *)
(* nanoseconds in a second.                                                *)
EXTENDS RtTime, TLAPS

LEMMA Time2nsNat ==
  ASSUME NEW t \in Carried
  PROVE  Time2ns(t) \in Nat
<1>1. t.tv_sec \in Nat /\ t.tv_nsec \in Nat /\ Second \in Nat \ {0}
  BY RtTimeAssumption DEF Carried
<1>2. Second * t.tv_sec \in Nat
  BY <1>1
<1> QED
  BY <1>1, <1>2 DEF Time2ns

(* A valid time is in particular what an increment can leave.              *)
LEMMA NormalIsCarried == Normal \subseteq Carried
BY RtTimeAssumption DEF Normal, Carried

(* rtutils_ns2time gives a valid time, and rtutils_time2ns undoes it.      *)
LEMMA Ns2timeExact ==
  ASSUME NEW ns \in Nat
  PROVE  Ns2time(ns) \in Normal /\ Time2ns(Ns2time(ns)) = ns
<1>1. /\ Second \in Nat \ {0}
      /\ ns \div Second \in Nat
      /\ ns % Second \in 0 .. Second - 1
      /\ ns = Second * (ns \div Second) + (ns % Second)
  BY RtTimeAssumption
<1> QED
  BY <1>1 DEF Ns2time, Normal, Time2ns

(* rtutils_time_increment adds, exactly, whatever the carry.  The result   *)
(* is a valid time except when the nanoseconds add up to one second.       *)
THEOREM TimeIncrementAdds ==
  ASSUME NEW target \in Normal, NEW val \in Normal
  PROVE  /\ TimeIncrement(target, val) \in Carried
         /\ Time2ns(TimeIncrement(target, val)) = Time2ns(target) + Time2ns(val)
         /\ TimeIncrement(target, val) \in Normal
              <=> target.tv_nsec + val.tv_nsec # Second
<1> DEFINE s0 == target.tv_sec
           s1 == val.tv_sec
<1>1. /\ Second \in Nat \ {0}
      /\ s0 \in Nat /\ target.tv_nsec \in 0 .. Second - 1
      /\ s1 \in Nat /\ val.tv_nsec \in 0 .. Second - 1
  BY RtTimeAssumption DEF Normal
<1>2. /\ Second * (s0 + s1) = Second * s0 + Second * s1
      /\ Second * (s0 + s1 + 1) = Second * s0 + Second * s1 + Second
      /\ Second * s0 \in Nat /\ Second * s1 \in Nat
  BY <1>1
<1>3. CASE target.tv_nsec + val.tv_nsec > Second
  <2>1. TimeIncrement(target, val) =
          [tv_sec |-> s0 + s1 + 1,
           tv_nsec |-> target.tv_nsec + val.tv_nsec - Second]
    BY <1>1, <1>3 DEF TimeIncrement
  <2> QED
    BY <1>1, <1>2, <1>3, <2>1 DEF Time2ns, Normal, Carried
<1>4. CASE ~(target.tv_nsec + val.tv_nsec > Second)
  <2>1. TimeIncrement(target, val) =
          [tv_sec |-> s0 + s1, tv_nsec |-> target.tv_nsec + val.tv_nsec]
    BY <1>1, <1>4 DEF TimeIncrement
  <2> QED
    BY <1>1, <1>2, <1>4, <2>1 DEF Time2ns, Normal, Carried
<1> QED
  BY <1>3, <1>4

(* rtutils_time_cmp orders by the time in nanoseconds, even when its first *)
(* argument is an increment that was not carried: negative if greater.     *)
THEOREM TimeCmpOrders ==
  ASSUME NEW s0 \in Carried, NEW s1 \in Normal
  PROVE  TimeCmp(s0, s1) = IF Time2ns(s0) > Time2ns(s1) THEN -1 ELSE 1
<1> DEFINE a == s0.tv_sec
           b == s1.tv_sec
<1>1. /\ Second \in Nat \ {0}
      /\ a \in Nat /\ s0.tv_nsec \in 0 .. Second
      /\ b \in Nat /\ s1.tv_nsec \in 0 .. Second - 1
  BY RtTimeAssumption DEF Normal, Carried
<1>2. /\ Second * a \in Nat /\ Second * b \in Nat
      /\ a > b => Second * a >= Second * b + Second
      /\ a < b => Second * b >= Second * a + Second
  <2>1. \A x, y \in Nat : x > y => Second * x >= Second * y + Second
    <3> TAKE x, y \in Nat
    <3> HAVE x > y
    <3>1. Second * x - (Second * y + Second) = Second * (x - y - 1)
      BY <1>1
    <3>2. x - y - 1 \in Nat
      OBVIOUS
    <3>3. Second * (x - y - 1) \in Nat
      BY <1>1, <3>2
    <3> QED
      BY <1>1, <3>1, <3>3
  <2>2. Second * a \in Nat /\ Second * b \in Nat
    BY <1>1
  <2> QED
    BY <1>1, <2>1, <2>2
<1>3. CASE a = b
  BY <1>1, <1>2, <1>3 DEF TimeCmp, Time2ns
<1>4. CASE a > b
  BY <1>1, <1>2, <1>4 DEF TimeCmp, Time2ns
<1>5. CASE a < b
  BY <1>1, <1>2, <1>5 DEF TimeCmp, Time2ns
<1> QED
  BY <1>1, <1>3, <1>4, <1>5

=============================================================================
