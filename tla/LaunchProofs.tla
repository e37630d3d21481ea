---------------------------- MODULE LaunchProofs ----------------------------
(***************************************************************************)
(* Proofs about a command line put to work: its types, what is said last   *)
(* of an option, and on the one invariant BasicInv three arguments about   *)
(* time.  SoundOptionsWork counts the work of all the threads that is owed *)
(* up to a date, BufferFilled follows how far the sampling thread is, and  *)
(* SamplingMeetsDeadlines counts what is ahead of the end of its job.      *)
(***************************************************************************)
EXTENDS Launch, FiniteSetTheorems, TLAPS

-----------------------------------------------------------------------------
(* Division and products.                                                  *)

(* What a quotient is, and that it is unique.                              *)
LEMMA Quotient ==
  ASSUME NEW x \in Nat, NEW p \in Nat \ {0}, NEW q \in Nat,
         p * q <= x, x < p * q + p
  PROVE  x \div p = q
<1> DEFINE y == x \div p
<1>1. /\ y \in Nat
      /\ x = p * y + (x % p)
      /\ x % p \in 0 .. p - 1
  OBVIOUS
<1>2. CASE y < q
  <2>1. p * (q - y) >= p
    BY <1>1, <1>2
  <2>2. p * (q - y) = p * q - p * y
    BY <1>1
  <2> QED
    BY <1>1, <2>1, <2>2
<1>3. CASE q < y
  <2>1. p * (y - q) >= p
    BY <1>1, <1>3
  <2>2. p * (y - q) = p * y - p * q
    BY <1>1
  <2> QED
    BY <1>1, <2>1, <2>2
<1> QED
  BY <1>1, <1>2, <1>3

(* A number below the divisor is its own remainder.                        *)
LEMMA SmallRemainder ==
  ASSUME NEW u \in Nat \ {0}, NEW m \in 0 .. u - 1
  PROVE  m % u = m
<1> DEFINE q == m \div u
           r == m % u
<1>1. m \in Nat /\ u * 0 = 0 /\ m = u * q + r /\ r \in 0 .. u - 1
  OBVIOUS
<1>2. q = 0
  BY <1>1, Quotient
<1> HIDE DEF q, r
<1>3. r = m
  BY <1>1, <1>2
<1> QED
  BY <1>3 DEF r

(* The number of arrivals is a number.                                     *)
LEMMA ArrivalsNat ==
  ASSUME NEW x \in Nat, NEW p \in Nat \ {0}
  PROVE  Arrivals(x, p) \in Nat
<1>1. x + p - 1 \in Nat
  OBVIOUS
<1> QED
  BY <1>1 DEF Arrivals

(* A job arrives at the beginning of an interval that is not empty.        *)
LEMMA OneMore ==
  ASSUME NEW x \in Nat, NEW p \in Nat \ {0}
  PROVE  Arrivals(x + p, p) = 1 + Arrivals(x, p)
<1> DEFINE z == x + p - 1
           q == z \div p
<1>1. z \in Nat /\ q \in Nat /\ z = p * q + (z % p) /\ z % p \in 0 .. p - 1
  OBVIOUS
<1>2. p * (q + 1) = p * q + p /\ z + p \in Nat /\ q + 1 \in Nat
  BY <1>1
<1>3. (z + p) \div p = q + 1
  <2>1. p * (q + 1) <= z + p /\ z + p < p * (q + 1) + p
    BY <1>1, <1>2
  <2> HIDE DEF z, q
  <2> QED
    BY <1>2, <2>1, Quotient
<1>4. x + p + p - 1 = z + p
  OBVIOUS
<1> QED
  BY <1>1, <1>3, <1>4 DEF Arrivals

(* One job arrives in an interval that is no longer than the period.       *)
LEMMA AtMostOne ==
  ASSUME NEW p \in Nat \ {0}, NEW x \in 1 .. p
  PROVE  Arrivals(x, p) = 1
<1>1. x + p - 1 \in Nat /\ p * 1 = p /\ 1 \in Nat
  OBVIOUS
<1> QED
  BY <1>1, Quotient DEF Arrivals

(* No fewer jobs arrive in a longer interval.                              *)
LEMMA LongerInterval ==
  ASSUME NEW p \in Nat \ {0}, NEW x \in Nat, NEW y \in Nat, x <= y
  PROVE  Arrivals(x, p) <= Arrivals(y, p)
<1> DEFINE a == x + p - 1
           b == y + p - 1
           q == a \div p
           r == b \div p
<1>1. /\ a \in Nat /\ q \in Nat /\ a = p * q + (a % p) /\ a % p \in 0 .. p - 1
      /\ b \in Nat /\ r \in Nat /\ b = p * r + (b % p) /\ b % p \in 0 .. p - 1
      /\ a <= b
  OBVIOUS
<1>2. CASE r < q
  <2>1. p * (q - r) >= p
    BY <1>1, <1>2
  <2>2. p * (q - r) = p * q - p * r
    BY <1>1
  <2> QED
    BY <1>1, <2>1, <2>2
<1> QED
  BY <1>1, <1>2 DEF Arrivals

(* The redraws that Affordable counts are enough, even one tick longer.    *)
LEMMA OneTickLonger ==
  ASSUME NEW p \in Nat \ {0}, NEW x \in Nat
  PROVE  Arrivals(x + 1, p) <= x \div p + 1
<1> DEFINE q == x \div p
<1>1. q \in Nat /\ x = p * q + (x % p) /\ x % p \in 0 .. p - 1
  OBVIOUS
<1>2. x + 1 + p - 1 = x + p /\ x + p \in Nat /\ q + 1 \in Nat
  BY <1>1
<1>3. p * (q + 1) = p * q + p
  BY <1>1
<1>4. (x + p) \div p = q + 1
  <2>1. p * (q + 1) <= x + p /\ x + p < p * (q + 1) + p
    BY <1>1, <1>3
  <2> HIDE DEF q
  <2> QED
    BY <1>2, <2>1, Quotient
<1> QED
  BY <1>1, <1>2, <1>4 DEF Arrivals

(* What the proofs need of multiplication.                                 *)
LEMMA Products ==
  ASSUME NEW a \in Nat, NEW b \in Nat, NEW w \in Nat
  PROVE  /\ a * w \in Nat
         /\ (1 + a) * w = w + a * w
         /\ a <= b => a * w <= b * w
         /\ a > 0 => w <= a * w
<1>1. a * w \in Nat /\ (1 + a) * w = w + a * w
  OBVIOUS
<1>2. ASSUME NEW c \in Nat, NEW d \in Nat, c <= d PROVE c * w <= d * w
  <2>1. (d - c) * w >= 0
    BY <1>2
  <2>2. (d - c) * w = d * w - c * w
    BY <1>2
  <2> QED
    BY <1>2, <2>1, <2>2
<1>3. a > 0 => 1 * w <= a * w
  BY <1>2
<1>4. 1 * w = w
  OBVIOUS
<1> QED
  BY <1>1, <1>2, <1>3, <1>4

-----------------------------------------------------------------------------
(* The invariant: what main has done.                                      *)

(* The threads are in the order of thrd_start.                             *)
Sorted ==
  /\ order \in SetToSeqs(Thread)
  /\ RateMonotonicOrder(order)

(* What is settled when main is at each of its stages.                     *)
Staged ==
  /\ stage = "options" <=> verdict = "parsing"
  /\ stage \notin {"options", "refused"} => opts.show # {}
  /\ stage \in {"subscribe", "start", "run", "over", "crashed"} => rate \in Rates
  /\ stage \in {"start", "run", "over", "crashed"} <=> order # << >> /\ stage # "aborted"
  /\ order # << >> => rate \in Rates /\ MaxX > 1 /\ Sorted /\ started <= clock
  /\ stage = "start" => position <= Len(order)
  /\ stage \in {"run", "over", "crashed"} => position = Len(order) + 1
  /\ stage = "run" => wake >= started + opts.run_for * Second

(* No thread has done anything before it is created.                       *)
Fresh(t) == phase[t] = "none" /\ left[t] = 0 /\ jobs[t] = 0

(* The threads are created in the order of their priorities.               *)
InOrder ==
  /\ order = << >> => position = 1 /\ missed = {} /\ \A t \in AnyThread : Fresh(t)
  /\ \A t \in AnyThread \ Thread : phase[t] = "none"
  /\ \A i \in DOMAIN order : phase[order[i]] = "none" <=> i >= position

(* The first activation of a thread has come.                              *)
Arrived(t) == phase[t] \notin {"none", "asleep"} \/ jobs[t] > 0

(* What a thread's dates and the rest of its work are in each phase.       *)
Timely(t) ==
  /\ phase[t] \in {"none", "asleep", "locking"} => left[t] = 0
  /\ phase[t] = "none" => jobs[t] = 0
  /\ phase[t] = "asleep" /\ jobs[t] = 0 => due[t] = started + Delay(t)
  /\ Arrived(t) => due[t] > started + Delay(t) /\ clock >= started + Delay(t)
  /\ t \in Plotters => phase[t] \in {"none", "asleep", "working"}
  /\ t = Sampling => phase[t] # "working"

Timed == \A t \in Thread : Timely(t)

(* The mutex excludes.                                                     *)
Exclusive ==
  \A t, u \in AnyThread : phase[t] = "critical" /\ phase[u] = "critical" => t = u

BasicInv ==
  TypeOK /\ started \in Nat /\ wake \in Nat /\ Staged /\ InOrder /\ Timed /\ Exclusive

(* The ticks that a job of a thread takes.                                 *)
Work(t) ==
  CASE t = Sampling -> ReadTime
    [] t \in Plotters -> DrawTime
    [] t \in Shows -> CopyTime + FillTime

-----------------------------------------------------------------------------
(* Types.                                                                  *)

LEMMA Widths ==
  /\ UintSize \in Nat \ {0} /\ IntMax \in Nat
  /\ UintSize = 2 * IntMax + 2
<1>1. /\ UintSize \in Nat /\ UintSize % 2 = 0
      /\ SchedMin \in Nat /\ SchedMax \in SchedMin .. UintSize \div 2 - 1
  BY OptionsAssumption DEF IntMax
<1>2. UintSize = 2 * (UintSize \div 2) + (UintSize % 2) /\ UintSize \div 2 \in Nat
  BY <1>1
<1> QED
  BY <1>1, <1>2 DEF IntMax

LEMMA Conversions ==
  ASSUME NEW n \in Int
  PROVE  /\ ToUnsigned(n) \in 0 .. UintSize - 1
         /\ ToInt(ToUnsigned(n)) \in -IntMax - 1 .. IntMax
<1>1. n % UintSize \in 0 .. UintSize - 1
  BY Widths
<1> QED
  BY <1>1, Widths DEF ToUnsigned, ToInt

LEMMA DefaultsTyped == OptionsInit => OptionsTypeOK
<1>1. 0 \in 0 .. UintSize - 1 /\ 0 \in -IntMax - 1 .. IntMax
  BY Widths
<1> QED
  BY <1>1, OptionsAssumption
     DEF OptionsInit, OptionsTypeOK, Defaults, Displays

(* opts_parse keeps the struct opts within its widths.                     *)
LEMMA ParseTyped ==
  ASSUME OptionsTypeOK, ParseStep
  PROVE  OptionsTypeOK'
<1> USE DEF OptionsTypeOK
<1>1. ASSUME NEW n \in Numbers, NEW field \in Numeric, SetNumber(field, n)
      PROVE  OptionsTypeOK'
  <2>1. ToUnsigned(n) \in 0 .. UintSize - 1
    BY Conversions, OptionsAssumption
  <2>2. CASE field = "rate"
    BY <1>1, <2>1, <2>2 DEF SetNumber, Takes
  <2>3. CASE field = "buffer_scale"
    BY <1>1, <2>1, <2>3 DEF SetNumber, Takes
  <2>4. CASE field = "run_for"
    BY <1>1, <2>1, <2>4 DEF SetNumber, Takes
  <2> QED
    BY <2>2, <2>3, <2>4 DEF Numeric
<1>2. ASSUME NEW n \in Numbers, SetMinprio(n)
      PROVE  OptionsTypeOK'
  <2>1. ToInt(ToUnsigned(n)) \in -IntMax - 1 .. IntMax
    BY Conversions, OptionsAssumption
  <2> QED
    BY <1>2, <2>1 DEF SetMinprio, Takes
<1>3. ASSUME NEW d \in Displays, NEW yes \in BOOLEAN, SetShown(d, yes)
      PROVE  OptionsTypeOK'
  <2>1. Shown(opts.show, d, yes) \in SUBSET Displays
    BY DEF Shown
  <2> QED
    BY <1>3, <2>1 DEF SetShown, Takes
<1>4. CASE \/ \E n \in Numbers : MinprioTooHigh(n)
           \/ Unreadable \/ NothingToShow
  BY <1>4 DEF MinprioTooHigh, Unreadable, NothingToShow, Refuses
<1>5. CASE Accept
  BY <1>5 DEF Accept
<1> QED
  BY <1>1, <1>2, <1>3, <1>4, <1>5 DEF ParseStep

-----------------------------------------------------------------------------
(* The threads.                                                            *)

LEMMA Kinds ==
  /\ AnyThread = {Sampling, Plotter("spectrum"), Show("spectrum"),
                  Plotter("signal"), Show("signal")}
  /\ \A d, e : /\ Plotter(d) # Sampling /\ Show(d) # Sampling
               /\ Plotter(d) # Show(e)
               /\ Plotter(d) = Plotter(e) => d = e
               /\ Show(d) = Show(e) => d = e
<1>1. \A d, e : /\ Plotter(d) # Sampling /\ Show(d) # Sampling
                /\ Plotter(d) # Show(e)
                /\ Plotter(d) = Plotter(e) => d = e
                /\ Show(d) = Show(e) => d = e
  BY DEF Plotter, Show, Sampling
<1>2. AnyThread = {Sampling, Plotter("spectrum"), Show("spectrum"),
                   Plotter("signal"), Show("signal")}
  BY DEF AnyThread, Displays
<1> QED
  BY <1>1, <1>2

(* The threads of a run, by kind.                                          *)
LEMMA Members ==
  ASSUME OptionsTypeOK
  PROVE  /\ Sampling \in Thread /\ Sampling \notin Plotters \cup Shows
         /\ Plotters \subseteq Thread /\ Shows \subseteq Thread
         /\ Plotters \cap Shows = {}
         /\ Thread \subseteq AnyThread
         /\ \A t \in Thread : t = Sampling \/ t \in Plotters \/ t \in Shows
         /\ \A d : Plotter(d) \in Thread <=> d \in opts.show
         /\ \A d : Plotter(d) \in Plotters <=> d \in opts.show
         /\ \A d : Show(d) \in Thread <=> d \in opts.show
         /\ \A d : Show(d) \in Shows <=> d \in opts.show
<1>1. opts.show \subseteq Displays
  BY DEF OptionsTypeOK
<1>2. Plotters \subseteq AnyThread /\ Shows \subseteq AnyThread
  BY <1>1 DEF Plotters, Shows, AnyThread
<1>3. \A d : Plotter(d) \in Plotters <=> d \in opts.show
  BY Kinds DEF Plotters
<1>4. \A d : Show(d) \in Shows <=> d \in opts.show
  BY Kinds DEF Shows
<1>5. Plotters \cap Shows = {} /\ Sampling \notin Plotters \cup Shows
  BY Kinds DEF Plotters, Shows
<1>6. \A d : Plotter(d) \notin Shows /\ Show(d) \notin Plotters
  BY Kinds DEF Plotters, Shows
<1> QED
  BY <1>2, <1>3, <1>4, <1>5, <1>6, Kinds DEF Thread

LEMMA FiniteThreads ==
  ASSUME OptionsTypeOK
  PROVE  /\ IsFiniteSet(Thread)
         /\ Cardinality(Thread) \in Nat \ {0}
<1>1. IsFiniteSet(AnyThread)
  <2>1. IsFiniteSet({} \cup {Sampling})
    BY FS_EmptySet, FS_AddElement
  <2>2. IsFiniteSet({Sampling} \cup {Plotter("spectrum")})
    BY <2>1, FS_AddElement
  <2>3. IsFiniteSet({Sampling, Plotter("spectrum")} \cup {Show("spectrum")})
    BY <2>2, FS_AddElement
  <2>4. IsFiniteSet({Sampling, Plotter("spectrum"), Show("spectrum")}
                      \cup {Plotter("signal")})
    BY <2>3, FS_AddElement
  <2>5. IsFiniteSet({Sampling, Plotter("spectrum"), Show("spectrum"),
                     Plotter("signal")} \cup {Show("signal")})
    BY <2>4, FS_AddElement
  <2> QED
    BY <2>5, Kinds
<1>2. IsFiniteSet(Thread) /\ Sampling \in Thread
  BY <1>1, Members, FS_Subset
<1> QED
  BY <1>2, FS_CardinalityType, FS_EmptySet

(* The sorted pool names each thread at one rank.                          *)
LEMMA Order ==
  ASSUME OptionsTypeOK, Sorted
  PROVE  /\ Len(order) \in Nat \ {0} /\ Len(order) = Cardinality(Thread)
         /\ DOMAIN order = 1 .. Len(order)
         /\ order \in Seq(Thread)
         /\ \A i \in 1 .. Len(order) : order[i] \in Thread
         /\ \A i, j \in 1 .. Len(order) : order[i] = order[j] => i = j
         /\ \A t \in Thread : Rank(t) \in 1 .. Len(order) /\ order[Rank(t)] = t
         /\ \A i \in 1 .. Len(order) : Rank(order[i]) = i
<1> DEFINE n == Cardinality(Thread)
           D == 1 .. n
<1>1. n \in Nat \ {0} /\ IsFiniteSet(Thread)
  BY FiniteThreads
<1>2. order \in [D -> Thread] /\ \A i, j \in D : i # j => order[i] # order[j]
  BY DEF Sorted, SetToSeqs
<1>3. order \in Seq(Thread) /\ Len(order) = n /\ DOMAIN order = D
  BY <1>1, <1>2
<1>4. \A t \in Thread : \E i \in D : order[i] = t
  <2>1. order \in Injection(D, Thread)
    BY <1>2 DEF Injection, IsInjective
  <2>2. IsFiniteSet(D) /\ Cardinality(D) = n
    BY <1>1, FS_Interval
  <2>3. order \in Surjection(D, Thread)
    BY <1>1, <2>1, <2>2, FS_Injection
  <2> QED
    BY <2>3 DEF Surjection
<1>5. ASSUME NEW t \in Thread
      PROVE  Rank(t) \in D /\ order[Rank(t)] = t
  <2>1. \E i \in DOMAIN order : order[i] = t
    BY <1>3, <1>4
  <2> QED
    BY <1>3, <2>1 DEF Rank
<1>6. ASSUME NEW i \in D PROVE Rank(order[i]) = i
  <2>1. order[i] \in Thread
    BY <1>2
  <2> QED
    BY <1>2, <1>5, <2>1
<1> QED
  BY <1>1, <1>2, <1>3, <1>5, <1>6

Ordered ==
  /\ Len(order) \in Nat \ {0} /\ order \in Seq(Thread)
  /\ DOMAIN order = 1 .. Len(order)
  /\ \A i \in 1 .. Len(order) : order[i] \in Thread

LEMMA OrderedPool == OptionsTypeOK /\ Sorted => Ordered
BY Order DEF Ordered

(* A small negative number and its remainder.                              *)
LEMMA NegativeRemainder ==
  ASSUME NEW u \in Nat \ {0}, NEW m \in Int, m < 0, -u <= m
  PROVE  m % u = m + u
<1> DEFINE q == m \div u
           r == m % u
<1>1. q \in Int /\ m = u * q + r /\ r \in 0 .. u - 1
  OBVIOUS
<1>2. CASE q >= 0
  <2>1. u * q >= 0
    BY <1>1, <1>2
  <2> QED
    BY <1>1, <2>1
<1>3. CASE q <= -2
  <2>1. u * (-2 - q) >= 0
    BY <1>1, <1>3
  <2>2. u * (-2 - q) = -2 * u - u * q
    <3> HIDE DEF q
    <3> QED
      BY <1>1
  <2> QED
    BY <1>1, <2>1, <2>2
<1>4. CASE q = -1
  <2>1. u * q = -u
    BY <1>1, <1>4
  <2> QED
    BY <1>1, <2>1
<1> QED
  BY <1>1, <1>2, <1>3, <1>4

(* The time that the sampling thread is given to fill a buffer is never    *)
(* less than it takes: a factor too big for an int wraps to a huge one.    *)
LEMMA Multiplied ==
  ASSUME NEW ns \in Nat \ {0}, NEW factor \in 1 .. UintSize - 1,
         UintSize * ns <= LongSize, LongSize \in Nat
  PROVE  TimeMultiply(ns, factor) \in Nat /\ TimeMultiply(ns, factor) >= factor * ns
<1>1. UintSize \in Nat \ {0} /\ IntMax \in Nat
  BY Widths
<1> DEFINE u == UintSize
           exact == factor * ns
<1>2. exact \in Nat /\ exact + ns <= u * ns /\ ns <= exact
      /\ LongSize \in Nat \ {0}
  <2>1. (1 + factor) * ns <= u * ns /\ (1 + factor) * ns = ns + factor * ns
        /\ ns <= factor * ns /\ factor * ns \in Nat
    BY <1>1, Products
  <2> QED
    BY <1>1, <2>1
<1>3. CASE factor <= IntMax
  <2>1. ns * ToInt(factor) = exact
    BY <1>3 DEF ToInt
  <2>2. exact \in 0 .. LongSize - 1
    BY <1>1, <1>2
  <2> HIDE DEF exact
  <2>3. TimeMultiply(ns, factor) = exact
    BY <1>2, <2>1, <2>2, SmallRemainder DEF TimeMultiply
  <2> QED
    BY <1>2, <2>3 DEF exact
<1>4. CASE ~(factor <= IntMax)
  <2> DEFINE m == ns * ToInt(factor)
  <2>1. m = exact - u * ns
    <3>1. ToInt(factor) = factor - u
      BY <1>4 DEF ToInt
    <3>2. ns * (factor - u) = factor * ns - u * ns
      BY <1>1
    <3> QED
      BY <3>1, <3>2
  <2>2. u * ns \in Nat /\ u * ns <= LongSize
    BY <1>1
  <2> HIDE DEF exact, u, m
  <2>3. m \in Int /\ m < 0 /\ -LongSize <= m
    BY <1>2, <2>1, <2>2
  <2>4. m % LongSize = m + LongSize
    BY <1>2, <2>3, NegativeRemainder
  <2>5. TimeMultiply(ns, factor) = m + LongSize
    BY <2>4 DEF TimeMultiply, m
  <2> QED
    BY <1>2, <2>1, <2>2, <2>5 DEF exact
<1> QED
  BY <1>3, <1>4

(* What the subscriptions ask for.                                         *)
LEMMA Periods ==
  ASSUME OptionsTypeOK, rate \in Rates, MaxX > 1
  PROVE  /\ SampPeriod \in Nat \ {0} /\ PlotPeriod \in Nat \ {0}
         /\ FillingTime \in Nat \ {0} /\ FillingTime > SampPeriod
         /\ opts.buffer_scale \in Nat \ {0}
         /\ FillingTime >= StartupDelay + opts.buffer_scale * SampPeriod
         /\ {ReadTime, CopyTime, FillTime, DrawTime, Second, BufferSize,
             StartupDelay} \subseteq Nat \ {0}
<1>1. {Second, BufferSize, PlotPeriod, ReadTime, CopyTime, FillTime, DrawTime}
        \subseteq Nat \ {0} /\ StartupDelay \in Nat \ {0}
  BY LaunchAssumption
<1>2. SampPeriod \in Nat \ {0}
  <2> DEFINE z == Second * BufferSize
  <2>1. z \in Nat /\ rate \in 1 .. z
    BY <1>1, LaunchAssumption
  <2>2. z \div rate \in Nat /\ z = rate * (z \div rate) + (z % rate)
        /\ z % rate \in 0 .. rate - 1
    BY <2>1
  <2>3. z \div rate # 0
    <3>1. SUFFICES ASSUME z \div rate = 0 PROVE FALSE
      OBVIOUS
    <3>2. rate * (z \div rate) = 0
      BY <2>1, <3>1
    <3> QED
      BY <2>1, <2>2, <3>2
  <2> QED
    BY <2>2, <2>3 DEF SampPeriod
<1>3. opts.buffer_scale \in Nat \ {0}
  <2>1. opts.buffer_scale \in Nat
    BY Widths DEF OptionsTypeOK
  <2>2. ASSUME opts.buffer_scale = 0 PROVE FALSE
    <3>1. BufLen = 0
      BY <1>1, <2>2 DEF BufLen
    <3>2. 0 % UintSize = 0
      BY Widths
    <3> QED
      BY <3>1, <3>2 DEF MaxX
  <2> QED
    BY <2>1, <2>2
<1>4. opts.buffer_scale * SampPeriod \in Nat
      /\ SampPeriod <= opts.buffer_scale * SampPeriod
  BY <1>2, <1>3, Products
<1>5. ReadPeriod \in Nat /\ ReadPeriod >= opts.buffer_scale * SampPeriod
  <2>1. opts.buffer_scale \in 1 .. UintSize - 1
    BY <1>3 DEF OptionsTypeOK
  <2>2. LongSize \in Nat /\ UintSize * SampPeriod <= LongSize
    BY LaunchAssumption DEF SampPeriod
  <2> QED
    BY <1>2, <2>1, <2>2, Multiplied DEF ReadPeriod
<1> QED
  BY <1>1, <1>2, <1>3, <1>4, <1>5 DEF FillingTime

(* What a thread asks for, by kind.                                        *)
LEMMA Asked ==
  ASSUME OptionsTypeOK, rate \in Rates, MaxX > 1
  PROVE  /\ Delay(Sampling) = StartupDelay /\ Period(Sampling) = SampPeriod
         /\ \A t \in Plotters : Delay(t) = 0 /\ Period(t) = PlotPeriod
         /\ \A t \in Shows : Delay(t) = FillingTime /\ Period(t) = FillingTime
         /\ \A t \in Thread : Delay(t) \in 0 .. FillingTime /\ Period(t) \in Nat \ {0}
<1>1. Delay(Sampling) = StartupDelay /\ Period(Sampling) = SampPeriod
  BY Members DEF Delay, Period
<1>2. ASSUME NEW t \in Plotters
      PROVE  Delay(t) = 0 /\ Period(t) = PlotPeriod
  BY Members DEF Delay, Period
<1>3. ASSUME NEW t \in Shows
      PROVE  Delay(t) = FillingTime /\ Period(t) = FillingTime
  BY Members DEF Delay, Period
<1>4. StartupDelay \in 0 .. FillingTime
  <2>1. opts.buffer_scale * SampPeriod \in Nat
    BY Periods, Products
  <2> QED
    BY <2>1, Periods
<1>5. ASSUME NEW t \in Thread
      PROVE  Delay(t) \in 0 .. FillingTime /\ Period(t) \in Nat \ {0}
  BY <1>1, <1>2, <1>3, <1>4, Members, Periods
<1> QED
  BY <1>1, <1>2, <1>3, <1>5

(* Priorities are a strict order of all the threads, the shorter period on *)
(* top: the sampling thread is above every show thread.                    *)
LEMMA Urgency ==
  ASSUME OptionsTypeOK, rate \in Rates, MaxX > 1, Sorted
  PROVE  /\ \A t, u, v \in Thread :
              MoreUrgent(t, u) /\ MoreUrgent(u, v) => MoreUrgent(t, v)
         /\ \A t, u \in Thread : t # u => MoreUrgent(t, u) \/ MoreUrgent(u, t)
         /\ \A t, u \in Thread : ~(MoreUrgent(t, u) /\ MoreUrgent(u, t))
         /\ \A t, u \in Thread : MoreUrgent(t, u) => Period(t) <= Period(u)
         /\ \A s \in Shows : MoreUrgent(Sampling, s)
<1>1. \A t \in Thread : Rank(t) \in 1 .. Len(order) /\ order[Rank(t)] = t
  BY Order
<1>2. Len(order) \in Nat
  BY Order
<1>3. ASSUME NEW t \in Thread, NEW u \in Thread, MoreUrgent(t, u)
      PROVE  Period(t) <= Period(u)
  <2>1. Period(order[Rank(u)]) >= Period(order[Rank(t)])
    BY <1>1, <1>2, <1>3, Order DEF Sorted, RateMonotonicOrder, MoreUrgent
  <2> QED
    BY <1>1, <2>1, Asked
<1>4. \A t, u \in Thread : t # u => MoreUrgent(t, u) \/ MoreUrgent(u, t)
  <2> SUFFICES ASSUME NEW t \in Thread, NEW u \in Thread, t # u
               PROVE  MoreUrgent(t, u) \/ MoreUrgent(u, t)
    OBVIOUS
  <2>1. Rank(t) # Rank(u)
    BY <1>1
  <2> QED
    BY <1>1, <1>2, <2>1 DEF MoreUrgent
<1>5. ASSUME NEW s \in Shows PROVE MoreUrgent(Sampling, s)
  <2>1. s \in Thread /\ Sampling \in Thread /\ s # Sampling
    BY Members
  <2>2. ~MoreUrgent(s, Sampling)
    <3>1. Period(s) = FillingTime /\ Period(Sampling) = SampPeriod
      BY Asked
    <3> QED
      BY <1>3, <2>1, <3>1, Periods
  <2> QED
    BY <1>4, <2>1, <2>2
<1>6. \A t, u \in Thread : ~(MoreUrgent(t, u) /\ MoreUrgent(u, t))
  BY <1>1, <1>2 DEF MoreUrgent
<1>7. \A t, u, v \in Thread :
        MoreUrgent(t, u) /\ MoreUrgent(u, v) => MoreUrgent(t, v)
  BY <1>1, <1>2 DEF MoreUrgent
<1> QED
  BY <1>3, <1>4, <1>5, <1>6, <1>7

-----------------------------------------------------------------------------
(* What main has done, step by step.                                       *)

(* What depends on the options and on the rate alone.                      *)
LEMMA SameOptions ==
  ASSUME opts' = opts, rate' = rate
  PROVE  /\ Plotters' = Plotters /\ Shows' = Shows /\ Thread' = Thread
         /\ MaxX' = MaxX /\ BufLen' = BufLen /\ SampPeriod' = SampPeriod
         /\ FillingTime' = FillingTime
         /\ \A t : Delay(t)' = Delay(t) /\ Period(t)' = Period(t)
         /\ \A t : Work(t)' = Work(t)
         /\ \A interval : Demand(interval)' = Demand(interval)
<1>1. /\ Plotters' = Plotters /\ Shows' = Shows /\ Thread' = Thread
      /\ MaxX' = MaxX /\ BufLen' = BufLen /\ SampPeriod' = SampPeriod
      /\ FillingTime' = FillingTime
  BY DEF Plotters, Shows, Thread, MaxX, BufLen, SampPeriod, FillingTime,
         ReadPeriod, TimeMultiply
<1>2. \A t : Delay(t)' = Delay(t) /\ Period(t)' = Period(t)
  BY <1>1, Zenon DEF Delay, Period
<1>3. \A t : Work(t)' = Work(t)
  BY <1>1, Zenon DEF Work
<1>4. \A interval : Demand(interval)' = Demand(interval)
  BY <1>1, Zenon DEF Demand, Arrivals
<1> QED
  BY <1>1, <1>2, <1>3, <1>4

(* What depends on them and on the order of the pool.                      *)
LEMMA Frozen ==
  ASSUME opts' = opts, rate' = rate, order' = order
  PROVE  /\ Plotters' = Plotters /\ Shows' = Shows /\ Thread' = Thread
         /\ MaxX' = MaxX /\ BufLen' = BufLen /\ SampPeriod' = SampPeriod
         /\ FillingTime' = FillingTime /\ Sorted' = Sorted
         /\ OptionsTypeOK /\ verdict' = verdict => OptionsTypeOK'
         /\ \A t : Delay(t)' = Delay(t) /\ Period(t)' = Period(t)
         /\ \A t : Rank(t)' = Rank(t)
         /\ \A t, u : MoreUrgent(t, u)' = MoreUrgent(t, u)
         /\ \A t : Work(t)' = Work(t)
         /\ \A interval : Demand(interval)' = Demand(interval)
<1>1. \A t : Rank(t)' = Rank(t)
  BY Zenon DEF Rank
<1>2. \A t, u : MoreUrgent(t, u)' = MoreUrgent(t, u)
  BY <1>1, Zenon DEF MoreUrgent
<1>3. Thread' = Thread /\ \A t : Period(t)' = Period(t)
  BY SameOptions
<1>4. Sorted' = Sorted
  BY <1>3, Zenon DEF Sorted, RateMonotonicOrder
<1>5. OptionsTypeOK /\ verdict' = verdict => OptionsTypeOK'
  BY DEF OptionsTypeOK
<1> QED
  BY <1>1, <1>2, <1>4, <1>5, SameOptions

(* Before thrd_start no thread has done anything.                          *)
Beforehand ==
  /\ TypeOK /\ started \in Nat /\ wake \in Nat /\ Staged
  /\ order = << >> /\ position = 1 /\ missed = {}
  /\ \A t \in AnyThread : Fresh(t)

LEMMA NothingYet == Beforehand => BasicInv
<1> SUFFICES ASSUME Beforehand PROVE BasicInv
  OBVIOUS
<1> USE DEF Beforehand
<1>1. InOrder
  BY DEF InOrder, Fresh
<1>2. Timed
  <2>1. ASSUME NEW t \in Thread PROVE Timely(t)
    <3>1. Fresh(t)
      BY Members DEF TypeOK
    <3> QED
      BY <3>1 DEF Fresh, Timely, Arrived, TypeOK
  <2> QED
    BY <2>1 DEF Timed
<1>3. Exclusive
  BY DEF Exclusive, Fresh
<1> QED
  BY <1>1, <1>2, <1>3 DEF BasicInv

LEMMA AtFirst == Init => BasicInv
<1> SUFFICES ASSUME Init PROVE BasicInv
  OBVIOUS
<1>1. OptionsTypeOK
  BY DefaultsTyped DEF Init
<1>2. TypeOK
  <2>1. << >> \in Seq(Thread) /\ Len(<< >>) = 0
    OBVIOUS
  <2> QED
    BY <1>1, <2>1, LaunchAssumption DEF Init, TypeOK
<1>3. Staged
  BY DEF Staged, Init, OptionsInit
<1>4. \A t \in AnyThread : Fresh(t)
  BY DEF Init, Fresh
<1> QED
  BY <1>2, <1>3, <1>4, NothingYet DEF Init, Beforehand

LEMMA ParseKeeps ==
  ASSUME BasicInv, Parse
  PROVE  BasicInv'
<1> USE DEF BasicInv
<1>1. /\ UNCHANGED <<cpus, rate, order, position, started, wake, clock>>
      /\ UNCHANGED <<phase, left, due, jobs, missed>>
      /\ ParseStep
  BY DEF Parse, threadVars
<1>2. OptionsTypeOK'
  BY <1>1, ParseTyped DEF TypeOK
<1>3. verdict = "parsing" /\ verdict' \in {"parsing", "accepted", "refused"}
      /\ (verdict' = "accepted" => opts'.show # {})
  BY <1>1 DEF ParseStep, SetNumber, SetMinprio, MinprioTooHigh, SetShown,
              Unreadable, NothingToShow, Accept, Takes, Refuses
<1>4. stage = "options" /\ order = << >>
  BY <1>3 DEF Staged
<1>5. \/ verdict' = "refused" /\ stage' = "refused"
      \/ verdict' = "accepted" /\ stage' = "sound"
      \/ verdict' = "parsing" /\ stage' = "options"
  BY <1>3, <1>4 DEF Parse
<1>6. position = 1 /\ missed = {} /\ \A t \in AnyThread : Fresh(t)
  BY <1>4 DEF InOrder
<1>7. order' = << >> /\ position' = 1 /\ missed' = {}
      /\ \A t \in AnyThread : Fresh(t)'
  BY <1>1, <1>4, <1>6 DEF Fresh
<1>8. TypeOK'
  <2>1. << >> \in Seq(Thread') /\ Len(<< >>) = 0
    OBVIOUS
  <2> QED
    BY <1>1, <1>2, <1>5, <1>7, <2>1 DEF TypeOK
<1>9. Staged'
  BY <1>1, <1>3, <1>5, <1>7 DEF Staged
<1>10. Beforehand'
  BY <1>1, <1>7, <1>8, <1>9 DEF Beforehand
<1> QED
  BY <1>10, NothingYet, PTL

LEMMA OpenSoundCardKeeps ==
  ASSUME BasicInv, OpenSoundCard
  PROVE  BasicInv'
<1> USE DEF BasicInv
<1>1. /\ UNCHANGED <<opts, given, verdict>>
      /\ UNCHANGED <<cpus, order, position, started, wake, clock>>
      /\ UNCHANGED <<phase, left, due, jobs, missed>>
      /\ rate' \in Rates /\ stage = "sound" /\ stage' = "subscribe"
  BY DEF OpenSoundCard, threadVars, optionVars
<1>2. order = << >> /\ position = 1 /\ missed = {} /\ opts.show # {}
      /\ verdict # "parsing" /\ \A t \in AnyThread : Fresh(t)
  BY <1>1 DEF Staged, InOrder
<1>3. order' = << >> /\ position' = 1 /\ missed' = {}
      /\ \A t \in AnyThread : Fresh(t)'
  BY <1>1, <1>2 DEF Fresh
<1>4. OptionsTypeOK'
  BY <1>1 DEF OptionsTypeOK, TypeOK
<1>5. TypeOK'
  <2>1. << >> \in Seq(Thread') /\ Len(<< >>) = 0
    OBVIOUS
  <2> QED
    BY <1>1, <1>3, <1>4, <2>1 DEF TypeOK
<1>6. Staged'
  BY <1>1, <1>2, <1>3 DEF Staged
<1>7. Beforehand'
  BY <1>1, <1>3, <1>5, <1>6 DEF Beforehand
<1> QED
  BY <1>7, NothingYet, PTL

(* A step that takes nothing but main elsewhere.                           *)
MainOnly ==
  /\ UNCHANGED <<optionVars, cpus, rate, order, position, started, wake, clock,
                 threadVars>>
  /\ \/ stage = "sound" /\ stage' = "failed"
     \/ stage \in {"subscribe", "start", "run"} /\ stage' = "aborted"
     \/ stage = "run" /\ stage' \in {"over", "crashed"}

LEMMA MainSteps ==
  ASSUME NoSoundCard \/ PlotRefused \/ PriorityRefused \/ TimeUp
           \/ \E t \in AnyThread : PlotOverrun(t)
  PROVE  MainOnly
<1>1. CASE NoSoundCard
  BY <1>1 DEF NoSoundCard, MainOnly
<1>2. CASE PlotRefused
  BY <1>2 DEF PlotRefused, MainOnly
<1>3. CASE PriorityRefused
  BY <1>3 DEF PriorityRefused, MainOnly
<1>4. CASE TimeUp
  BY <1>4 DEF TimeUp, SleepOver, MainOnly
<1>5. CASE \E t \in AnyThread : PlotOverrun(t)
  BY <1>5 DEF PlotOverrun, MainOnly
<1> QED
  BY <1>1, <1>2, <1>3, <1>4, <1>5

LEMMA MainOnlyKeeps ==
  ASSUME BasicInv, MainOnly
  PROVE  BasicInv'
<1> USE DEF BasicInv
<1>1. /\ UNCHANGED <<opts, given, verdict>>
      /\ UNCHANGED <<cpus, rate, order, position, started, wake, clock>>
      /\ UNCHANGED <<phase, left, due, jobs, missed>>
  BY DEF MainOnly, threadVars, optionVars
<1>2. stage' \in {"failed", "aborted", "over", "crashed"}
  BY DEF MainOnly
<1>3. /\ Thread' = Thread /\ Plotters' = Plotters /\ MaxX' = MaxX
      /\ Sorted' = Sorted /\ OptionsTypeOK'
      /\ \A t : Delay(t)' = Delay(t)
  BY <1>1, Frozen DEF TypeOK
<1>4. TypeOK'
  BY <1>1, <1>2, <1>3 DEF TypeOK
<1>5. Staged'
  BY <1>1, <1>3 DEF MainOnly, Staged
<1>6. InOrder'
  BY <1>1, <1>3 DEF InOrder, Fresh
<1>7. Timed'
  BY <1>1, <1>3 DEF Timed, Timely, Arrived
<1>8. Exclusive'
  BY <1>1 DEF Exclusive
<1> QED
  BY <1>1, <1>4, <1>5, <1>6, <1>7, <1>8

LEMMA StartPoolKeeps ==
  ASSUME BasicInv, StartPool
  PROVE  BasicInv'
<1> USE DEF BasicInv
<1>1. /\ UNCHANGED <<opts, given, verdict>>
      /\ UNCHANGED <<cpus, rate, position, wake, clock>>
      /\ UNCHANGED <<phase, left, due, jobs, missed>>
      /\ stage = "subscribe" /\ MaxX > 1 /\ stage' = "start" /\ started' = clock
  BY DEF StartPool, threadVars, optionVars
<1>2. /\ order = << >> /\ position = 1 /\ missed = {} /\ opts.show # {}
      /\ verdict # "parsing" /\ \A t \in AnyThread : Fresh(t)
      /\ rate \in Rates
  BY <1>1 DEF Staged, InOrder
<1>3. /\ Thread' = Thread /\ Plotters' = Plotters /\ MaxX' = MaxX
      /\ OptionsTypeOK' /\ OptionsTypeOK
  BY <1>1 DEF TypeOK, OptionsTypeOK, Thread, Plotters, Shows, MaxX, BufLen
<1>4. Sorted'
  <2>1. PICK ts \in SetToSeqs(Thread) : RateMonotonicOrder(ts) /\ order' = ts
    BY DEF StartPool
  <2>3. \A t : Period(t)' = Period(t)
    BY <1>1, SameOptions
  <2>4. RateMonotonicOrder(ts)'
    BY <2>1, <2>3, Zenon DEF RateMonotonicOrder
  <2>5. RateMonotonicOrder(order)'
    BY <2>1, <2>4 DEF RateMonotonicOrder
  <2> QED
    BY <1>3, <2>1, <2>5 DEF Sorted
<1>5. /\ Len(order') \in Nat \ {0} /\ order' \in Seq(Thread')
      /\ DOMAIN order' = 1 .. Len(order')
      /\ \A i \in 1 .. Len(order') : order'[i] \in Thread'
  <2>1. Ordered'
    BY <1>3, <1>4, OrderedPool, PTL
  <2> QED
    BY <2>1 DEF Ordered
<1>6. TypeOK'
  BY <1>1, <1>2, <1>3, <1>5 DEF TypeOK
<1>7. Staged'
  <2>1. order' # << >>
    BY <1>5
  <2> QED
    BY <1>1, <1>2, <1>3, <1>4, <1>5, <2>1 DEF Staged, TypeOK
<1>8. InOrder'
  <2>1. Thread \subseteq AnyThread
    BY <1>3, Members
  <2> QED
    BY <1>1, <1>2, <1>3, <1>5, <2>1 DEF InOrder, Fresh
<1>9. Timed'
  <2>1. \A t \in Thread : Fresh(t)
    BY <1>2, <1>3, Members
  <2>2. \A t \in Thread : Timely(t)'
    BY <1>1, <2>1 DEF Timely, Arrived, Fresh
  <2> QED
    BY <1>3, <2>2 DEF Timed
<1>10. Exclusive'
  BY <1>1, <1>2 DEF Exclusive, Fresh
<1> QED
  BY <1>1, <1>6, <1>7, <1>8, <1>9, <1>10 DEF TypeOK

(* While main starts the threads or sleeps.                                *)
LEMMA UnderWay ==
  ASSUME BasicInv, stage \in {"start", "run"}
  PROVE  /\ OptionsTypeOK /\ rate \in Rates /\ MaxX > 1 /\ Sorted
         /\ order # << >> /\ opts.show # {} /\ started <= clock
         /\ started \in Nat /\ clock \in Nat
<1>1. order # << >> /\ opts.show # {}
  BY DEF BasicInv, Staged
<1>2. clock \in Nat /\ started \in Nat /\ OptionsTypeOK
  BY LaunchAssumption DEF BasicInv, TypeOK
<1> QED
  BY <1>1, <1>2 DEF BasicInv, Staged

LEMMA CreateThreadKeeps ==
  ASSUME BasicInv, CreateThread
  PROVE  BasicInv'
<1> DEFINE n == order[position]
<1> USE DEF BasicInv
<1>1. /\ UNCHANGED <<opts, given, verdict>>
      /\ UNCHANGED <<cpus, rate, order, started, clock, left, jobs, missed>>
      /\ stage = "start" /\ position' = position + 1
      /\ phase' = [phase EXCEPT ![n] = "asleep"]
      /\ due' = [due EXCEPT ![n] = started + Delay(n)]
      /\ IF position = Len(order)
           THEN stage' = "run" /\ wake' = clock + opts.run_for * Second
           ELSE UNCHANGED <<stage, wake>>
  BY DEF CreateThread, optionVars
<1>2. /\ OptionsTypeOK /\ rate \in Rates /\ MaxX > 1 /\ Sorted
      /\ order # << >> /\ opts.show # {} /\ started <= clock
      /\ started \in Nat /\ clock \in Nat
  BY <1>1, UnderWay
<1>3. /\ Len(order) \in Nat \ {0} /\ DOMAIN order = 1 .. Len(order)
      /\ \A i \in 1 .. Len(order) : order[i] \in Thread
      /\ \A i, j \in 1 .. Len(order) : order[i] = order[j] => i = j
  BY <1>2, Order
<1> DEFINE k == Len(order)
<1>4. position \in 1 .. k /\ k \in Nat /\ Len(order') = k
  <2>1. position \in 1 .. Len(order) + 1
    BY DEF TypeOK
  <2>2. position <= Len(order)
    BY <1>1 DEF Staged
  <2> HIDE DEF k
  <2>3. k = Len(order) /\ k \in Nat /\ Len(order') = k
    BY <1>1, <1>3 DEF k
  <2> QED
    BY <2>1, <2>2, <2>3
<1>5. n \in Thread /\ n \in AnyThread /\ phase[n] = "none"
  <2>1. n \in Thread
    BY <1>3, <1>4
  <2> QED
    BY <1>2, <1>3, <1>4, <2>1, Members DEF InOrder
<1>6. /\ Thread' = Thread /\ Plotters' = Plotters /\ MaxX' = MaxX
      /\ Sorted' = Sorted /\ OptionsTypeOK'
      /\ \A t : Delay(t)' = Delay(t)
  BY <1>1, <1>2, Frozen
<1>7. Delay(n) \in Nat
  BY <1>2, <1>5, Asked, Periods
<1>8. opts.run_for * Second \in Nat
  <2>1. opts.run_for \in Nat /\ Second \in Nat
    BY <1>2, Widths, LaunchAssumption DEF OptionsTypeOK
  <2> QED
    BY <2>1
<1>9. TypeOK'
  <2>1. position' \in 1 .. Len(order') + 1
    <3> HIDE DEF k
    <3> QED
      BY <1>1, <1>4
  <2>2. phase' \in [AnyThread -> {"none", "asleep", "locking", "critical", "working"}]
    BY <1>1, <1>5 DEF TypeOK
  <2>3. due' \in [AnyThread -> Nat]
    <3>1. started + Delay(n) \in Nat
      BY <1>2, <1>7
    <3> QED
      BY <1>1, <1>5, <3>1 DEF TypeOK
  <2>4. stage' \in {"start", "run"}
    BY <1>1
  <2> QED
    BY <1>1, <1>6, <2>1, <2>2, <2>3, <2>4 DEF TypeOK
<1>10. wake' \in Nat
  BY <1>1, <1>2, <1>8
<1>11. Staged'
  <2>1. stage' = "run" => position' = Len(order') + 1
                          /\ wake' >= started' + opts'.run_for * Second
    BY <1>1, <1>2, <1>4, <1>8
  <2>2. stage' = "start" => position' <= Len(order')
    <3>1. stage' = "start" => position # k
      BY <1>1
    <3> HIDE DEF k
    <3> QED
      BY <1>1, <1>4, <3>1
  <2>3. stage' \in {"start", "run"}
    BY <1>1
  <2> QED
    BY <1>1, <1>2, <1>6, <2>1, <2>2, <2>3 DEF Staged
<1>12. InOrder'
  <2>1. ASSUME NEW i \in 1 .. Len(order)
        PROVE  phase'[order[i]] = "none" <=> i >= position + 1
    <3>1. order[i] \in AnyThread
      BY <1>2, <1>3, Members
    <3>2. phase[order[i]] = "none" <=> i >= position
      BY <1>3 DEF InOrder
    <3>3. order[i] = n <=> i = position
      BY <1>3, <1>4
    <3>4. phase'[order[i]] = IF order[i] = n THEN "asleep" ELSE phase[order[i]]
      BY <1>1, <3>1 DEF TypeOK
    <3>5. i \in Nat /\ position \in Nat
      BY <1>3, <1>4
    <3> QED
      BY <3>2, <3>3, <3>4, <3>5
  <2>2. \A t \in AnyThread \ Thread : phase'[t] = "none"
    BY <1>1, <1>5 DEF InOrder, TypeOK
  <2> QED
    BY <1>1, <1>2, <1>3, <1>6, <2>1, <2>2 DEF InOrder
<1>13. Timed'
  <2>1. ASSUME NEW t \in Thread PROVE Timely(t)'
    <3>1. t \in AnyThread /\ Timely(t)
      BY <1>2, Members DEF Timed
    <3>2. CASE t = n
      BY <1>1, <1>5, <1>6, <3>1, <3>2 DEF Timely, Arrived, TypeOK
    <3>3. CASE t # n
      BY <1>1, <1>6, <3>1, <3>3 DEF Timely, Arrived, TypeOK
    <3> QED
      BY <3>2, <3>3
  <2> QED
    BY <1>6, <2>1 DEF Timed
<1>14. Exclusive'
  BY <1>1, <1>5 DEF Exclusive, TypeOK
<1> QED
  BY <1>1, <1>2, <1>9, <1>10, <1>11, <1>12, <1>13, <1>14

-----------------------------------------------------------------------------
(* What the threads do, step by step.                                      *)

Others(t) ==
  \A u \in AnyThread \ {t} :
    phase'[u] = phase[u] /\ left'[u] = left[u] /\ due'[u] = due[u]
    /\ jobs'[u] = jobs[u]

Became(t, from, to) ==
  phase[t] = from /\ phase' = [phase EXCEPT ![t] = to] /\ phase'[t] = to

(* A thread that runs makes one of four steps.                             *)
Arrives(t) ==
  /\ Became(t, "asleep", IF t \in Plotters THEN "working" ELSE "locking")
  /\ clock >= due[t]
  /\ left'[t] = IF t \in Plotters THEN DrawTime ELSE 0
  /\ due'[t] = (IF jobs[t] = 0 THEN clock ELSE due[t]) + Period(t)
  /\ jobs'[t] = jobs[t] /\ missed' = missed

Locks(t) ==
  /\ Became(t, "locking", "critical")
  /\ ~Held
  /\ left'[t] = IF t = Sampling THEN ReadTime ELSE CopyTime
  /\ due'[t] = due[t] /\ jobs'[t] = jobs[t] /\ missed' = missed

Unlocks(t) ==
  /\ t \in Shows /\ left[t] = 0
  /\ Became(t, "critical", "working")
  /\ left'[t] = FillTime
  /\ due'[t] = due[t] /\ jobs'[t] = jobs[t] /\ missed' = missed

Finishes(t) ==
  /\ left[t] = 0 /\ left'[t] = 0
  /\ Became(t, IF t = Sampling THEN "critical" ELSE "working", "asleep")
  /\ due'[t] = due[t] /\ jobs'[t] = jobs[t] + 1
  /\ missed' = IF clock >= due[t] THEN missed \cup {t} ELSE missed

(* What a step of a thread that runs does.                                 *)
LEMMA Steps ==
  ASSUME BasicInv, NEW t \in AnyThread, Run(t)
  PROVE  /\ t \in Running /\ t \in Runnable /\ t \in Thread
         /\ stage \in {"start", "run"}
         /\ UNCHANGED <<opts, given, verdict>>
         /\ UNCHANGED <<stage, cpus, rate, order, position, started, wake, clock>>
         /\ Others(t)
         /\ phase' \in [AnyThread ->
                          {"none", "asleep", "locking", "critical", "working"}]
         /\ left' \in [AnyThread -> Nat] /\ due' \in [AnyThread -> Nat]
         /\ jobs' \in [AnyThread -> Nat]
         /\ Arrives(t) \/ Locks(t) \/ Unlocks(t) \/ Finishes(t)
<1>1. /\ t \in Running /\ t \in Runnable /\ t \in Thread
      /\ stage \in {"start", "run"}
      /\ UNCHANGED <<opts, given, verdict>>
      /\ UNCHANGED <<stage, cpus, rate, order, position, started, wake, clock>>
  BY DEF Run, Running, Runnable, optionVars, mainVars
<1>2. /\ OptionsTypeOK /\ rate \in Rates /\ MaxX > 1 /\ Sorted
      /\ started \in Nat /\ clock \in Nat
  BY <1>1, UnderWay
<1>3. Timely(t) /\ Delay(t) \in Nat /\ Period(t) \in Nat \ {0}
  BY <1>1, <1>2, Asked, Periods DEF BasicInv, Timed
<1>4. /\ phase \in [AnyThread ->
                      {"none", "asleep", "locking", "critical", "working"}]
      /\ left \in [AnyThread -> Nat] /\ due \in [AnyThread -> Nat]
      /\ jobs \in [AnyThread -> Nat]
  BY DEF BasicInv, TypeOK
<1>5. {ReadTime, CopyTime, FillTime, DrawTime} \subseteq Nat \ {0}
  BY LaunchAssumption
<1> DEFINE Goal == /\ Others(t)
                   /\ phase' \in [AnyThread ->
                                    {"none", "asleep", "locking", "critical",
                                     "working"}]
                   /\ left' \in [AnyThread -> Nat]
                   /\ due' \in [AnyThread -> Nat]
                   /\ jobs' \in [AnyThread -> Nat]
<1>6. CASE Arrive(t)
  <2>1. phase[t] = "asleep" /\ clock >= due[t]
    BY <1>1, <1>6 DEF Arrive, Moves, Runnable
  <2>2. jobs[t] = 0 <=> due[t] = started + Delay(t)
    BY <1>2, <1>3, <1>4, <2>1 DEF Timely, Arrived
  <2>3. (IF due[t] = started + Delay(t) THEN clock ELSE due[t]) + Period(t) \in Nat
    BY <1>2, <1>3, <1>4
  <2>4. Goal
    BY <1>4, <1>5, <1>6, <2>3 DEF Arrive, Moves, Others
  <2>5. Arrives(t)
    BY <1>4, <1>6, <2>1, <2>2 DEF Arrive, Moves, Arrives, Became
  <2> QED
    BY <1>1, <2>4, <2>5
<1>7. CASE Lock(t)
  <2>1. Goal
    BY <1>4, <1>5, <1>7 DEF Lock, Moves, Others
  <2>2. Locks(t)
    BY <1>1, <1>4, <1>7 DEF Lock, Moves, Locks, Became, Runnable
  <2> QED
    BY <1>1, <2>1, <2>2
<1>8. CASE Unlock(t)
  <2>1. Goal
    BY <1>4, <1>5, <1>8 DEF Unlock, Moves, Others
  <2>2. Unlocks(t)
    BY <1>1, <1>4, <1>8 DEF Unlock, Moves, Unlocks, Became, Runnable
  <2> QED
    BY <1>1, <2>1, <2>2
<1>9. CASE Finish(t)
  <2>1. Goal
    BY <1>4, <1>5, <1>9 DEF Finish, Moves, Others
  <2>2. Finishes(t)
    BY <1>1, <1>4, <1>9 DEF Finish, Moves, Finishes, Became, Runnable
  <2> QED
    BY <1>1, <2>1, <2>2
<1> QED
  BY <1>6, <1>7, <1>8, <1>9 DEF Run

LEMMA RunKeeps ==
  ASSUME BasicInv, NEW t \in AnyThread, Run(t)
  PROVE  BasicInv'
<1>1. /\ t \in Running /\ t \in Runnable /\ t \in Thread
      /\ stage \in {"start", "run"}
      /\ UNCHANGED <<opts, given, verdict>>
      /\ UNCHANGED <<stage, cpus, rate, order, position, started, wake, clock>>
      /\ Others(t)
      /\ phase' \in [AnyThread ->
                       {"none", "asleep", "locking", "critical", "working"}]
      /\ left' \in [AnyThread -> Nat] /\ due' \in [AnyThread -> Nat]
      /\ jobs' \in [AnyThread -> Nat]
      /\ Arrives(t) \/ Locks(t) \/ Unlocks(t) \/ Finishes(t)
  BY Steps
<1>2. /\ OptionsTypeOK /\ rate \in Rates /\ MaxX > 1 /\ Sorted
      /\ order # << >> /\ started \in Nat /\ clock \in Nat
  BY <1>1, UnderWay
<1>3. Timely(t) /\ Delay(t) \in Nat /\ Period(t) \in Nat \ {0}
  BY <1>1, <1>2, Asked, Periods DEF BasicInv, Timed
<1>4. /\ Thread' = Thread /\ Plotters' = Plotters /\ MaxX' = MaxX
      /\ Sorted' = Sorted /\ OptionsTypeOK'
      /\ \A u : Delay(u)' = Delay(u)
  BY <1>1, <1>2, Frozen
<1>5. TypeOK'
  <2>1. missed' \subseteq Thread
    BY <1>1 DEF Arrives, Locks, Unlocks, Finishes, BasicInv, TypeOK
  <2> QED
    BY <1>1, <1>4, <2>1 DEF BasicInv, TypeOK
<1>6. Staged'
  BY <1>1, <1>4 DEF BasicInv, Staged
<1>7. phase[t] # "none" /\ phase'[t] # "none"
  BY <1>1 DEF Arrives, Locks, Unlocks, Finishes, Became
<1>8. InOrder'
  <2>1. ASSUME NEW u \in AnyThread
        PROVE  phase'[u] = "none" <=> phase[u] = "none"
    BY <1>1, <1>7 DEF Others
  <2>2. \A i \in DOMAIN order : order[i] \in AnyThread
    BY <1>2, Order, Members
  <2> QED
    BY <1>1, <1>2, <1>4, <2>1, <2>2 DEF BasicInv, InOrder
<1>9. Timed'
  <2>1. ASSUME NEW u \in Thread, u # t PROVE Timely(u)'
    <3>1. Timely(u) /\ u \in AnyThread
      BY <1>2, Members DEF BasicInv, Timed
    <3>2. /\ phase'[u] = phase[u] /\ left'[u] = left[u] /\ due'[u] = due[u]
          /\ jobs'[u] = jobs[u]
      BY <1>1, <2>1, <3>1 DEF Others
    <3> QED
      BY <1>1, <1>4, <3>1, <3>2 DEF Timely, Arrived
  <2>2. Timely(t)'
    <3>1. jobs[t] \in Nat /\ due[t] \in Nat
      BY <1>1 DEF BasicInv, TypeOK
    <3>2. CASE Arrives(t)
      <4>1. due[t] >= started + Delay(t)
        BY <1>2, <1>3, <3>1, <3>2 DEF Arrives, Became, Timely, Arrived
      <4>2. clock >= started + Delay(t) /\ due'[t] > started + Delay(t)
        BY <1>2, <1>3, <3>1, <3>2, <4>1 DEF Arrives
      <4> QED
        BY <1>1, <1>2, <1>3, <1>4, <3>1, <3>2, <4>2, Members
           DEF Arrives, Became, Timely, Arrived
    <3>3. CASE Locks(t)
      <4>1. t \notin Plotters
        BY <1>3, <3>3 DEF Locks, Became, Timely
      <4> QED
        BY <1>1, <1>3, <1>4, <3>1, <3>3, <4>1 DEF Locks, Became, Timely, Arrived
    <3>4. CASE Unlocks(t)
      BY <1>1, <1>2, <1>3, <1>4, <3>1, <3>4, Members
         DEF Unlocks, Became, Timely, Arrived
    <3>5. CASE Finishes(t)
      BY <1>1, <1>3, <1>4, <3>1, <3>5 DEF Finishes, Became, Timely, Arrived
    <3> QED
      BY <1>1, <3>2, <3>3, <3>4, <3>5
  <2> QED
    BY <1>4, <2>1, <2>2 DEF Timed
<1>10. Exclusive'
  <2>1. ASSUME NEW u \in AnyThread, NEW v \in AnyThread,
               phase'[u] = "critical", phase'[v] = "critical"
        PROVE  u = v
    <3>1. phase'[t] = "critical" => Locks(t)
      BY <1>1 DEF Arrives, Unlocks, Finishes, Became
    <3>2. CASE phase'[t] = "critical"
      <4>1. \A w \in AnyThread : phase[w] # "critical"
        BY <3>1, <3>2 DEF Locks, Held
      <4> QED
        BY <1>1, <2>1, <4>1 DEF Others
    <3>3. CASE phase'[t] # "critical"
      BY <1>1, <2>1, <3>3 DEF Others, BasicInv, Exclusive
    <3> QED
      BY <3>2, <3>3
  <2> QED
    BY <2>1 DEF Exclusive
<1> QED
  BY <1>1, <1>5, <1>6, <1>8, <1>9, <1>10 DEF BasicInv

LEMMA TickKeeps ==
  ASSUME BasicInv, Tick
  PROVE  BasicInv'
<1>1. /\ stage \in {"start", "run"} /\ clock < Horizon /\ clock' = clock + 1
      /\ \A t \in Running : left[t] > 0
      /\ UNCHANGED <<opts, given, verdict>>
      /\ UNCHANGED <<stage, cpus, rate, order, position, started, wake>>
      /\ UNCHANGED <<phase, due, jobs, missed>>
      /\ left' = [t \in AnyThread |-> IF t \in Running THEN left[t] - 1 ELSE left[t]]
  BY DEF Tick, optionVars, mainVars
<1>2. /\ OptionsTypeOK /\ rate \in Rates /\ MaxX > 1 /\ Sorted
      /\ order # << >> /\ started \in Nat /\ clock \in Nat /\ started <= clock
  BY <1>1, UnderWay
<1>3. /\ Thread' = Thread /\ Plotters' = Plotters /\ MaxX' = MaxX
      /\ Sorted' = Sorted /\ OptionsTypeOK'
      /\ \A u : Delay(u)' = Delay(u)
  BY <1>1, <1>2, Frozen
<1>4. left' \in [AnyThread -> Nat]
  BY <1>1 DEF BasicInv, TypeOK
<1>5. TypeOK'
  <2>1. clock' \in 0 .. Horizon
    BY <1>1, <1>2, LaunchAssumption
  <2> QED
    BY <1>1, <1>3, <1>4, <2>1 DEF BasicInv, TypeOK
<1>6. Staged'
  BY <1>1, <1>2, <1>3 DEF BasicInv, Staged
<1>7. InOrder'
  BY <1>1, <1>2, <1>3 DEF BasicInv, InOrder
<1>8. Timed'
  <2>1. ASSUME NEW t \in Thread PROVE Timely(t)'
    <3>1. Timely(t) /\ t \in AnyThread
      BY <1>2, Members DEF BasicInv, Timed
    <3>2. left'[t] = 0 \/ left'[t] = left[t] \/ left[t] > 0
      BY <1>1, <3>1
    <3>3. left[t] = 0 => left'[t] = 0
      BY <1>1, <3>1
    <3>4. Delay(t) \in Nat
      BY <1>2, Asked, Periods
    <3> QED
      BY <1>1, <1>2, <1>3, <3>1, <3>3, <3>4 DEF Timely, Arrived
  <2> QED
    BY <1>3, <2>1 DEF Timed
<1>9. Exclusive'
  BY <1>1 DEF BasicInv, Exclusive
<1> QED
  BY <1>1, <1>5, <1>6, <1>7, <1>8, <1>9 DEF BasicInv

(* No step of main, of the threads or of time breaks the invariant.        *)
LEMMA BasicKept == BasicInv /\ [Next]_vars => BasicInv'
<1> SUFFICES ASSUME BasicInv, [Next]_vars PROVE BasicInv'
  OBVIOUS
<1>1. CASE Parse
  BY <1>1, ParseKeeps
<1>2. CASE OpenSoundCard
  BY <1>2, OpenSoundCardKeeps
<1>3. CASE NoSoundCard \/ PlotRefused \/ PriorityRefused \/ TimeUp
             \/ \E t \in AnyThread : PlotOverrun(t)
  BY <1>3, MainSteps, MainOnlyKeeps
<1>4. CASE StartPool
  BY <1>4, StartPoolKeeps
<1>5. CASE CreateThread
  BY <1>5, CreateThreadKeeps
<1>6. ASSUME NEW t \in AnyThread, Run(t) PROVE BasicInv'
  BY <1>6, RunKeeps
<1>7. CASE Tick
  BY <1>7, TickKeeps
<1>8. CASE UNCHANGED vars
  <2>1. /\ UNCHANGED <<opts, given, verdict>>
        /\ UNCHANGED <<stage, cpus, rate, clock, order, position, started, wake>>
        /\ UNCHANGED <<phase, left, due, jobs, missed>>
    BY <1>8 DEF vars, optionVars, mainVars, threadVars
  <2>2. OptionsTypeOK
    BY DEF BasicInv, TypeOK
  <2>3. /\ Thread' = Thread /\ Plotters' = Plotters /\ MaxX' = MaxX
        /\ Sorted' = Sorted /\ OptionsTypeOK'
        /\ \A u : Delay(u)' = Delay(u)
    BY <2>1, <2>2, Frozen
  <2>4. TypeOK' /\ Staged'
    BY <2>1, <2>3 DEF BasicInv, TypeOK, Staged
  <2>5. InOrder' /\ Exclusive'
    BY <2>1, <2>3 DEF BasicInv, InOrder, Fresh, Exclusive
  <2>6. Timed'
    BY <2>1, <2>3 DEF BasicInv, Timed, Timely, Arrived
  <2> QED
    BY <2>1, <2>4, <2>5, <2>6 DEF BasicInv
<1> QED
  BY <1>1, <1>2, <1>3, <1>4, <1>5, <1>6, <1>7, <1>8 DEF Next

LEMMA Basic == Spec => []BasicInv
BY AtFirst, BasicKept, PTL DEF Spec

(* The type invariant of the launch: the threads of every state are those  *)
(* that the options ask for, and the clock stays within its bound.         *)
THEOREM LaunchTypeCorrect == Spec => []TypeOK
<1>1. BasicInv => TypeOK
  BY DEF BasicInv
<1> QED
  BY <1>1, Basic, PTL

-----------------------------------------------------------------------------
(* The command line.                                                       *)

Mention == [option : Numeric \cup {"minprio"} \cup Displays,
            arg : Numbers \cup BOOLEAN]

(* There is a last mention of what is mentioned.                           *)
Recorded ==
  /\ given \in Seq(Mention)
  /\ \A option : Mentions(option) # {} =>
       \E i \in Mentions(option) : \A j \in Mentions(option) : i >= j

LEMMA Remainder ==
  ASSUME NEW u \in Nat \ {0}, NEW k \in Int
  PROVE  (u * k) % u = 0
<1> DEFINE z == u * k
           q == z \div u
           r == z % u
<1>1. z \in Int /\ q \in Int /\ r \in 0 .. u - 1 /\ z = u * q + r
  OBVIOUS
<1>2. u * (k - q) = r
  <2>1. u * (k - q) = u * k - u * q
    <3> HIDE DEF q
    <3> QED
      BY <1>1
  <2> QED
    BY <1>1, <2>1
<1>3. CASE k - q >= 1
  <2>1. u * (k - q) >= u
    BY <1>1, <1>3
  <2> QED
    BY <1>1, <1>2, <2>1
<1>4. CASE k - q <= -1
  <2>1. u * (k - q) <= -u
    BY <1>1, <1>4
  <2> QED
    BY <1>1, <1>2, <2>1
<1>5. CASE k - q = 0
  <2>1. u * (k - q) = 0
    BY <1>1, <1>5
  <2> QED
    BY <1>2, <2>1
<1> QED
  BY <1>1, <1>3, <1>4, <1>5

(* The conversions of --minprio change a number by a multiple of the range *)
(* of unsigned.                                                            *)
LEMMA Congruent ==
  ASSUME NEW n \in Int
  PROVE  (ToInt(ToUnsigned(n)) - n) % UintSize = 0
<1> DEFINE q == n \div UintSize
           r == n % UintSize
<1>1. UintSize \in Nat \ {0}
  BY Widths
<1>2. q \in Int /\ r \in 0 .. UintSize - 1 /\ n = UintSize * q + r
  BY <1>1
<1>3. CASE r <= IntMax
  <2>1. ToInt(ToUnsigned(n)) - n = UintSize * (-q)
    BY <1>1, <1>2, <1>3 DEF ToInt, ToUnsigned
  <2>2. -q \in Int
    BY <1>2
  <2> HIDE DEF q
  <2> QED
    BY <1>1, <2>1, <2>2, Remainder
<1>4. CASE ~(r <= IntMax)
  <2>1. UintSize * (-q - 1) = -(UintSize * q) - UintSize
    BY <1>1, <1>2
  <2>2. ToInt(ToUnsigned(n)) - n = UintSize * (-q - 1)
    BY <1>1, <1>2, <1>4, <2>1 DEF ToInt, ToUnsigned
  <2>3. -q - 1 \in Int
    BY <1>2
  <2> HIDE DEF q
  <2> QED
    BY <1>1, <2>2, <2>3, Remainder
<1> QED
  BY <1>3, <1>4

(* What an option adds to what was said.                                   *)
LEMMA Said ==
  ASSUME Recorded, NEW m \in Mention, given' = Append(given, m)
  PROVE  /\ Recorded'
         /\ \A option, default :
              LastSaid(option, default)' =
                IF m.option = option THEN m.arg ELSE LastSaid(option, default)
<1> DEFINE n == Len(given) + 1
<1>1. /\ given \in Seq(Mention) /\ given' \in Seq(Mention)
      /\ DOMAIN given = 1 .. n - 1 /\ DOMAIN given' = 1 .. n
      /\ n \in Nat \ {0} /\ given'[n] = m
      /\ \A i \in 1 .. n - 1 : given'[i] = given[i]
  BY DEF Recorded
<1> HIDE DEF n
<1>2. ASSUME NEW option
      PROVE  /\ Mentions(option)' \subseteq 1 .. n
             /\ Mentions(option) \subseteq 1 .. n - 1
             /\ Mentions(option)' = IF m.option = option
                                      THEN Mentions(option) \cup {n}
                                      ELSE Mentions(option)
  BY <1>1 DEF Mentions
<1>3. ASSUME NEW option, Mentions(option)' # {}
      PROVE  \E i \in Mentions(option)' : \A j \in Mentions(option)' : i >= j
  <2>1. CASE m.option = option
    BY <1>1, <1>2, <2>1
  <2>2. CASE m.option # option
    BY <1>2, <1>3, <2>2 DEF Recorded
  <2> QED
    BY <2>1, <2>2
<1>4. ASSUME NEW option, NEW default
      PROVE  LastSaid(option, default)' =
               IF m.option = option THEN m.arg ELSE LastSaid(option, default)
  <2>1. CASE m.option = option
    <3>1. n \in Mentions(option)' /\ \A j \in Mentions(option)' : n >= j
      BY <1>1, <1>2, <2>1
    <3>2. ASSUME NEW i \in Mentions(option)',
                 \A j \in Mentions(option)' : i >= j
          PROVE  i = n
      BY <1>1, <1>2, <3>1, <3>2
    <3>3. Max(Mentions(option)') = n
      BY <3>1, <3>2 DEF Max
    <3>4. LastSaid(option, default)' = given'[Max(Mentions(option)')].arg
      BY <3>1 DEF LastSaid
    <3> QED
      BY <1>1, <2>1, <3>3, <3>4
  <2>2. CASE m.option # option
    <3>1. Mentions(option)' = Mentions(option)
      BY <1>2, <2>2
    <3>2. CASE Mentions(option) = {}
      BY <2>2, <3>1, <3>2 DEF LastSaid
    <3>3. CASE Mentions(option) # {}
      <4>1. Max(Mentions(option)) \in Mentions(option)
        BY <3>3 DEF Max, Recorded
      <4>2. given'[Max(Mentions(option))] = given[Max(Mentions(option))]
        BY <1>1, <1>2, <4>1
      <4> QED
        BY <2>2, <3>1, <3>3, <4>2 DEF LastSaid
    <3> QED
      BY <3>2, <3>3
  <2> QED
    BY <2>1, <2>2
<1> QED
  BY <1>1, <1>3, <1>4 DEF Recorded

Heard == OptionsTypeOK /\ Recorded /\ LastMentionCounts

LEMMA HeardAtFirst == Init => Heard
<1> SUFFICES ASSUME Init PROVE Heard
  OBVIOUS
<1>1. OptionsInit /\ OptionsTypeOK
  BY DefaultsTyped DEF Init
<1>2. \A option : Mentions(option) = {}
  BY <1>1 DEF OptionsInit, Mentions
<1>3. Recorded
  BY <1>1, <1>2 DEF Recorded, OptionsInit
<1>4. \A option, default : LastSaid(option, default) = default
  BY <1>2 DEF LastSaid
<1>5. /\ DefaultRate % UintSize = DefaultRate
      /\ DefaultScale % UintSize = DefaultScale
      /\ 0 % UintSize = 0 /\ (0 - 0) % UintSize = 0
  BY Widths, OptionsAssumption
<1>6. LastMentionCounts
  <2>1. opts = Defaults
    BY <1>1 DEF OptionsInit
  <2> QED
    BY <1>4, <1>5, <2>1 DEF LastMentionCounts, Defaults
<1> QED
  BY <1>1, <1>3, <1>6 DEF Heard

LEMMA ParseHeard ==
  ASSUME Heard, ParseStep
  PROVE  Heard'
<1> USE DEF Heard
<1>1. OptionsTypeOK'
  BY ParseTyped
<1>2. opts \in [rate : 0 .. UintSize - 1, minprio : -IntMax - 1 .. IntMax,
                show : SUBSET Displays, buffer_scale : 0 .. UintSize - 1,
                run_for : 0 .. UintSize - 1]
  BY DEF OptionsTypeOK
<1>3. ASSUME NEW m \in Mention, Takes(m.option, m.arg)
      PROVE  /\ Recorded' /\ LastMentionCounts
             /\ \A option, default :
                  LastSaid(option, default)' =
                    IF m.option = option THEN m.arg ELSE LastSaid(option, default)
  <2>1. given' = Append(given, m) /\ verdict = "parsing"
    BY <1>3 DEF Takes, Mention
  <2> QED
    BY <2>1, Said
<1>4. ASSUME NEW n \in Numbers, NEW field \in Numeric, SetNumber(field, n)
      PROVE  Recorded' /\ LastMentionCounts'
  <2> DEFINE m == [option |-> field, arg |-> n]
  <2>1. m \in Mention /\ Takes(m.option, m.arg) /\ m.option = field /\ m.arg = n
    BY <1>4 DEF SetNumber, Mention
  <2> HIDE DEF m
  <2>2. /\ Recorded' /\ LastMentionCounts
        /\ \A option, default :
             LastSaid(option, default)' =
               IF field = option THEN n ELSE LastSaid(option, default)
    BY <1>3, <2>1
  <2>3. opts' = [opts EXCEPT ![field] = n % UintSize] /\ verdict = "parsing"
    BY <1>4 DEF SetNumber, ToUnsigned, Takes
  <2>4. CASE field = "rate"
    BY <1>2, <2>2, <2>3, <2>4 DEF LastMentionCounts
  <2>5. CASE field = "buffer_scale"
    BY <1>2, <2>2, <2>3, <2>5 DEF LastMentionCounts
  <2>6. CASE field = "run_for"
    BY <1>2, <2>2, <2>3, <2>6 DEF LastMentionCounts
  <2> QED
    BY <2>2, <2>4, <2>5, <2>6 DEF Numeric
<1>5. ASSUME NEW n \in Numbers, SetMinprio(n)
      PROVE  Recorded' /\ LastMentionCounts'
  <2> DEFINE m == [option |-> "minprio", arg |-> n]
  <2>1. m \in Mention /\ Takes(m.option, m.arg) /\ m.option = "minprio" /\ m.arg = n
    BY <1>5 DEF SetMinprio, Mention
  <2> HIDE DEF m
  <2>2. /\ Recorded' /\ LastMentionCounts
        /\ \A option, default :
             LastSaid(option, default)' =
               IF "minprio" = option THEN n ELSE LastSaid(option, default)
    BY <1>3, <2>1
  <2>3. opts' = [opts EXCEPT !.minprio = ToInt(ToUnsigned(n))] /\ verdict = "parsing"
    BY <1>5 DEF SetMinprio, Takes
  <2>4. (ToInt(ToUnsigned(n)) - n) % UintSize = 0
    BY Congruent, OptionsAssumption
  <2> QED
    BY <1>2, <2>2, <2>3, <2>4 DEF LastMentionCounts
<1>6. ASSUME NEW d \in Displays, NEW yes \in BOOLEAN, SetShown(d, yes)
      PROVE  Recorded' /\ LastMentionCounts'
  <2> DEFINE m == [option |-> d, arg |-> yes]
  <2>1. m \in Mention /\ Takes(m.option, m.arg) /\ m.option = d /\ m.arg = yes
    BY <1>6 DEF SetShown, Mention
  <2> HIDE DEF m
  <2>2. /\ Recorded' /\ LastMentionCounts
        /\ \A option, default :
             LastSaid(option, default)' =
               IF d = option THEN yes ELSE LastSaid(option, default)
    BY <1>3, <2>1
  <2>3. opts' = [opts EXCEPT !.show = Shown(opts.show, d, yes)] /\ verdict = "parsing"
    BY <1>6 DEF SetShown, Takes
  <2>4. opts'.show = Shown(opts.show, d, yes) /\ opts'.rate = opts.rate
        /\ opts'.buffer_scale = opts.buffer_scale
        /\ opts'.run_for = opts.run_for /\ opts'.minprio = opts.minprio
    BY <1>2, <2>3
  <2>5. d \in Shown(opts.show, d, yes) <=> yes
    BY DEF Shown
  <2>6. \A e : e # d => (e \in Shown(opts.show, d, yes) <=> e \in opts.show)
    BY DEF Shown
  <2>7. CASE d = "spectrum"
    BY <2>2, <2>3, <2>4, <2>5, <2>6, <2>7 DEF LastMentionCounts
  <2>8. CASE d = "signal"
    BY <2>2, <2>3, <2>4, <2>5, <2>6, <2>8 DEF LastMentionCounts
  <2> QED
    BY <2>2, <2>7, <2>8 DEF Displays
<1>7. CASE \/ \E n \in Numbers : MinprioTooHigh(n)
           \/ Unreadable \/ NothingToShow \/ Accept
  <2>1. given' = << >> /\ verdict' # "parsing"
    BY <1>7 DEF MinprioTooHigh, Unreadable, NothingToShow, Accept, Refuses
  <2>2. Recorded'
    BY <2>1 DEF Recorded, Mentions
  <2> QED
    BY <1>1, <2>1, <2>2 DEF LastMentionCounts
<1> QED
  BY <1>1, <1>4, <1>5, <1>6, <1>7 DEF ParseStep

LEMMA HeardKept == Heard /\ [Next]_vars => Heard'
<1> SUFFICES ASSUME Heard, [Next]_vars PROVE Heard'
  OBVIOUS
<1>1. CASE Parse
  BY <1>1, ParseHeard DEF Parse
<1>2. CASE ~Parse
  <2>1. UNCHANGED <<opts, given, verdict>>
    <3>1. CASE NoSoundCard \/ PlotRefused \/ PriorityRefused \/ TimeUp
                 \/ \E t \in AnyThread : PlotOverrun(t)
      BY <3>1, MainSteps DEF MainOnly, optionVars
    <3> QED
      BY <1>2, <3>1
         DEF Next, OpenSoundCard, StartPool, CreateThread, Run, Tick, vars,
             optionVars
  <2>2. \A option : Mentions(option)' = Mentions(option)
    BY <2>1 DEF Mentions
  <2>3. \A option, default :
          LastSaid(option, default)' = LastSaid(option, default)
    BY <2>1, <2>2, Zenon DEF LastSaid
  <2>4. OptionsTypeOK' /\ Recorded'
    BY <2>1, <2>2 DEF Heard, OptionsTypeOK, Recorded
  <2>5. LastMentionCounts'
    BY <2>1, <2>3 DEF Heard, LastMentionCounts
  <2> QED
    BY <2>4, <2>5 DEF Heard
<1> QED
  BY <1>1, <1>2

(* Options do not disturb each other: whatever their order and repetition, *)
(* what is said last of a number or of a display is what opts_parse keeps. *)
THEOREM LaunchLastMention == Spec => []LastMentionCounts
<1>1. Heard => LastMentionCounts
  BY DEF Heard
<1> QED
  BY <1>1, HeardAtFirst, HeardKept, PTL DEF Spec

-----------------------------------------------------------------------------
(* Who runs.                                                               *)

(* How many threads there are of each kind.                                *)
LEMMA Counts ==
  ASSUME OptionsTypeOK
  PROVE  /\ IsFiniteSet(opts.show) /\ IsFiniteSet(Plotters)
         /\ Cardinality(opts.show) =
              (IF "spectrum" \in opts.show THEN 1 ELSE 0)
                + (IF "signal" \in opts.show THEN 1 ELSE 0)
         /\ Cardinality(Plotters) = Cardinality(opts.show)
         /\ Cardinality(Shows) = Cardinality(opts.show)
<1>1. opts.show \subseteq {"spectrum", "signal"}
  BY DEF OptionsTypeOK, Displays
<1>2. ASSUME NEW a, NEW b, a # b
      PROVE  /\ IsFiniteSet({}) /\ Cardinality({}) = 0
             /\ IsFiniteSet({a}) /\ Cardinality({a}) = 1
             /\ IsFiniteSet({a, b}) /\ Cardinality({a, b}) = 2
  <2>1. IsFiniteSet({a}) /\ Cardinality({a}) = 1
    BY FS_Singleton
  <2>2. IsFiniteSet({a} \cup {b}) /\ Cardinality({a} \cup {b}) = 2
    BY <1>2, <2>1, FS_AddElement
  <2>3. {a} \cup {b} = {a, b}
    OBVIOUS
  <2> QED
    BY <2>1, <2>2, <2>3, FS_EmptySet
<1>3. /\ Plotter("spectrum") # Plotter("signal")
      /\ Show("spectrum") # Show("signal")
  BY Kinds
<1>4. CASE opts.show = {}
  <2>1. Plotters = {} /\ Shows = {}
    BY <1>4 DEF Plotters, Shows
  <2> QED
    BY <1>4, <2>1, FS_EmptySet
<1>5. CASE opts.show = {"spectrum"}
  <2>1. Plotters = {Plotter("spectrum")} /\ Shows = {Show("spectrum")}
    BY <1>5 DEF Plotters, Shows
  <2>2. /\ IsFiniteSet(opts.show) /\ Cardinality(opts.show) = 1
        /\ IsFiniteSet(Plotters) /\ Cardinality(Plotters) = 1
        /\ Cardinality(Shows) = 1
    <3>1. \A x : IsFiniteSet({x}) /\ Cardinality({x}) = 1
      BY FS_Singleton
    <3> QED
      BY <1>5, <2>1, <3>1, Zenon
  <2> QED
    BY <1>5, <2>2
<1>6. CASE opts.show = {"signal"}
  <2>1. Plotters = {Plotter("signal")} /\ Shows = {Show("signal")}
    BY <1>6 DEF Plotters, Shows
  <2>2. /\ IsFiniteSet(opts.show) /\ Cardinality(opts.show) = 1
        /\ IsFiniteSet(Plotters) /\ Cardinality(Plotters) = 1
        /\ Cardinality(Shows) = 1
    <3>1. \A x : IsFiniteSet({x}) /\ Cardinality({x}) = 1
      BY FS_Singleton
    <3> QED
      BY <1>6, <2>1, <3>1, Zenon
  <2> QED
    BY <1>6, <2>2
<1>7. CASE opts.show = {"spectrum", "signal"}
  <2>1. /\ Plotters = {Plotter("spectrum"), Plotter("signal")}
        /\ Shows = {Show("spectrum"), Show("signal")}
    BY <1>7 DEF Plotters, Shows
  <2>2. /\ IsFiniteSet(opts.show) /\ Cardinality(opts.show) = 2
        /\ IsFiniteSet(Plotters) /\ Cardinality(Plotters) = 2
        /\ Cardinality(Shows) = 2
    <3>1. \A a, b : a # b => IsFiniteSet({a, b}) /\ Cardinality({a, b}) = 2
      BY <1>2
    <3>2. IsFiniteSet(opts.show) /\ Cardinality(opts.show) = 2
      <4>1. "spectrum" # "signal"
        OBVIOUS
      <4> QED
        BY <1>7, <3>1, <4>1, Zenon
    <3>3. IsFiniteSet(Plotters) /\ Cardinality(Plotters) = 2
      BY <1>3, <2>1, <3>1, Zenon
    <3>4. Cardinality(Shows) = 2
      BY <1>3, <2>1, <3>1, Zenon
    <3> QED
      BY <3>2, <3>3, <3>4
  <2> QED
    BY <1>7, <2>2
<1> QED
  BY <1>1, <1>4, <1>5, <1>6, <1>7

(* Some thread of any set of threads has the highest priority.             *)
Topped(B) ==
  \A S \in SUBSET B : S # {} => \E t \in S : \A u \in S : ~MoreUrgent(u, t)

LEMMA ToppedByOne ==
  ASSUME OptionsTypeOK, rate \in Rates, MaxX > 1, Sorted,
         NEW B, NEW x, B \subseteq Thread, Topped(B)
  PROVE  Topped(Thread \cap (B \cup {x}))
<1> SUFFICES ASSUME NEW S \in SUBSET (Thread \cap (B \cup {x})), S # {}
             PROVE  \E t \in S : \A u \in S : ~MoreUrgent(u, t)
  BY DEF Topped
<1>1. CASE S \ {x} = {}
  <2>1. S = {x} /\ x \in Thread
    BY <1>1
  <2> QED
    BY <2>1, Urgency
<1>2. CASE S \ {x} # {}
  <2>1. PICK t \in S \ {x} : \A u \in S \ {x} : ~MoreUrgent(u, t)
    BY <1>2 DEF Topped
  <2>2. CASE x \in S /\ MoreUrgent(x, t)
    <3>1. ASSUME NEW u \in S, MoreUrgent(u, x) PROVE FALSE
      <4>1. u \in Thread /\ x \in Thread /\ t \in Thread
        BY <2>1, <2>2, <3>1
      <4>2. MoreUrgent(u, t)
        BY <2>2, <3>1, <4>1, Urgency
      <4>3. u # x
        BY <3>1, <4>1, Urgency
      <4> QED
        BY <2>1, <4>2, <4>3
    <3> QED
      BY <2>2, <3>1
  <2>3. CASE ~(x \in S /\ MoreUrgent(x, t))
    BY <2>1, <2>3
  <2> QED
    BY <2>2, <2>3
<1> QED
  BY <1>1, <1>2

(* Among some threads one is the most urgent.                              *)
LEMMA Topmost ==
  ASSUME OptionsTypeOK, rate \in Rates, MaxX > 1, Sorted,
         NEW S \in SUBSET Thread, S # {}
  PROVE  \E t \in S : \A u \in S : ~MoreUrgent(u, t)
<1> DEFINE a == Sampling
           b == Plotter("spectrum")
           c == Show("spectrum")
           d == Plotter("signal")
           e == Show("signal")
<1>1. Topped({}) /\ {} \subseteq Thread
  BY DEF Topped
<1>2. Topped(Thread \cap ({} \cup {a}))
  BY <1>1, ToppedByOne
<1>3. Topped(Thread \cap ((Thread \cap ({} \cup {a})) \cup {b}))
  BY <1>2, ToppedByOne
<1>4. Topped(Thread \cap {a, b})
  <2>1. Thread \cap ((Thread \cap ({} \cup {a})) \cup {b}) = Thread \cap {a, b}
    OBVIOUS
  <2> QED
    BY <1>3, <2>1
<1>5. Topped(Thread \cap {a, b, c})
  <2>1. Topped(Thread \cap ((Thread \cap {a, b}) \cup {c}))
    BY <1>4, ToppedByOne
  <2>2. Thread \cap ((Thread \cap {a, b}) \cup {c}) = Thread \cap {a, b, c}
    OBVIOUS
  <2> QED
    BY <2>1, <2>2
<1>6. Topped(Thread \cap {a, b, c, d})
  <2>1. Topped(Thread \cap ((Thread \cap {a, b, c}) \cup {d}))
    BY <1>5, ToppedByOne
  <2>2. Thread \cap ((Thread \cap {a, b, c}) \cup {d}) = Thread \cap {a, b, c, d}
    OBVIOUS
  <2> QED
    BY <2>1, <2>2
<1>7. Topped(Thread \cap {a, b, c, d, e})
  <2>1. Topped(Thread \cap ((Thread \cap {a, b, c, d}) \cup {e}))
    BY <1>6, ToppedByOne
  <2>2. Thread \cap ((Thread \cap {a, b, c, d}) \cup {e})
          = Thread \cap {a, b, c, d, e}
    OBVIOUS
  <2> QED
    BY <2>1, <2>2
<1>8. Thread \subseteq {a, b, c, d, e}
  BY Members, Kinds
<1>9. S \in SUBSET (Thread \cap {a, b, c, d, e})
  BY <1>8
<1> HIDE DEF a, b, c, d, e
<1> QED
  BY <1>7, <1>9 DEF Topped

(* Who has a processor, in particular when there is only one.              *)
LEMMA Scheduling ==
  ASSUME BasicInv, stage \in {"start", "run"}
  PROVE  /\ cpus \in Nat \ {0} /\ Running \subseteq Runnable
         /\ Runnable \subseteq Thread
         /\ Runnable # {} => Running # {}
         /\ cpus = 1 => \A t \in Runnable :
              t \in Running <=> \A u \in Runnable : ~MoreUrgent(u, t)
         /\ cpus = 1 => (MainRuns <=> Runnable = {})
         /\ Cardinality(Plotters) < cpus /\ Sampling \in Runnable
              => Sampling \in Running
<1>1. /\ OptionsTypeOK /\ rate \in Rates /\ MaxX > 1 /\ Sorted
  BY UnderWay
<1>2. cpus \in Nat \ {0}
  BY LaunchAssumption DEF BasicInv, TypeOK
<1>3. Running \subseteq Runnable /\ Runnable \subseteq Thread
  BY DEF Running, Runnable
<1>4. IsFiniteSet(Runnable)
  BY <1>1, <1>3, FiniteThreads, FS_Subset
<1> DEFINE Above(t) == {u \in Runnable : MoreUrgent(u, t)}
<1>5. \A t : IsFiniteSet(Above(t)) /\ Cardinality(Above(t)) \in Nat
             /\ (Cardinality(Above(t)) = 0 <=> Above(t) = {})
  <2> SUFFICES ASSUME NEW t
               PROVE  /\ IsFiniteSet(Above(t)) /\ Cardinality(Above(t)) \in Nat
                      /\ Cardinality(Above(t)) = 0 <=> Above(t) = {}
    OBVIOUS
  <2>1. Above(t) \subseteq Runnable
    OBVIOUS
  <2> HIDE DEF Above
  <2> QED
    BY <1>4, <2>1, FS_Subset, FS_CardinalityType, FS_EmptySet
<1>6. \A t : t \in Running <=> t \in Runnable /\ Cardinality(Above(t)) < cpus
  BY DEF Running
<1>7. ASSUME Runnable # {} PROVE Running # {}
  <2>1. PICK t \in Runnable : \A u \in Runnable : ~MoreUrgent(u, t)
    BY <1>1, <1>3, <1>7, Topmost
  <2>2. Above(t) = {}
    BY <2>1
  <2>3. Cardinality(Above(t)) = 0
    BY <1>5, <2>2
  <2> QED
    BY <1>2, <1>6, <2>1, <2>3
<1>8. ASSUME cpus = 1, NEW t \in Runnable
      PROVE  t \in Running <=> \A u \in Runnable : ~MoreUrgent(u, t)
  <2>1. t \in Running <=> Cardinality(Above(t)) = 0
    <3> HIDE DEF Above
    <3> QED
      BY <1>5, <1>6, <1>8
  <2>2. t \in Running <=> Above(t) = {}
    BY <1>5, <2>1
  <2> QED
    BY <2>2
<1>9. ASSUME cpus = 1 PROVE MainRuns <=> Runnable = {}
  BY <1>4, <1>9, FS_CardinalityType, FS_EmptySet DEF MainRuns
<1>10. ASSUME Cardinality(Plotters) < cpus, Sampling \in Runnable
       PROVE  Sampling \in Running
  <2>1. Above(Sampling) \subseteq Plotters
    <3> SUFFICES ASSUME NEW u \in Runnable, MoreUrgent(u, Sampling)
                 PROVE  u \in Plotters
      OBVIOUS
    <3>1. u \in Thread /\ Sampling \in Thread
      BY <1>1, <1>3, Members
    <3>2. u \notin Shows /\ u # Sampling
      BY <1>1, <3>1, Urgency
    <3> QED
      BY <1>1, <3>1, <3>2, Members
  <2>2. Cardinality(Above(Sampling)) <= Cardinality(Plotters)
    BY <1>1, <2>1, Counts, FS_Subset
  <2>3. Cardinality(Plotters) \in Nat
    BY <1>1, Counts, FS_CardinalityType
  <2>4. Cardinality(Above(Sampling)) < cpus
    <3>1. Cardinality(Above(Sampling)) \in Nat
      BY <1>5
    <3> HIDE DEF Above
    <3> QED
      BY <1>2, <1>10, <2>2, <2>3, <3>1
  <2> QED
    BY <1>6, <1>10, <2>4
<1> QED
  BY <1>2, <1>3, <1>7, <1>8, <1>9, <1>10

-----------------------------------------------------------------------------
(* The work that is owed.                                                  *)

(* The next activation at the earliest: the date of the first one is moved *)
(* forward until the thread gets to run.                                   *)
Later(a, b) == IF a < b THEN b ELSE a

Release(t) ==
  IF Arrived(t) THEN due[t] ELSE Later(clock, started + Delay(t))

(* Ticks left of the job that has arrived.                                 *)
Rest(t) ==
  CASE phase[t] = "locking" -> Work(t)
    [] phase[t] = "critical" -> left[t] + IF t = Sampling THEN 0 ELSE FillTime
    [] phase[t] = "working" -> left[t]
    [] OTHER -> 0

(* Jobs that arrive before a date, at most.                                *)
Until(t, end) ==
  IF end <= Release(t) THEN 0 ELSE Arrivals(end - Release(t), Period(t))

(* Ticks that a thread needs before a date, at most.                       *)
Owed(t, end) == Rest(t) + Until(t, end) * Work(t)

(* What the two threads of a display owe together.                         *)
OfDisplay(d, end) ==
  IF d \in opts.show THEN Owed(Plotter(d), end) + Owed(Show(d), end) ELSE 0

(* What all the threads owe.                                               *)
Load(end) ==
  Owed(Sampling, end) + OfDisplay("spectrum", end) + OfDisplay("signal", end)

(* When the demand of an interval is less than the interval, there is      *)
(* always a date at most that far ahead until which all the work owed      *)
(* leaves a tick to spare.  A thread that has not done a job has not been  *)
(* due, by then, for longer than the interval.                             *)
OnTime(I) ==
  stage \in {"start", "run"} /\ Demand(I) < I =>
    \E end \in clock + 1 .. clock + I :
      /\ Load(end) <= end - 1 - clock
      /\ \A t \in Thread : jobs[t] = 0 => end - I <= started + Delay(t)

(* An arrival uses up one period.                                          *)
LEMMA Renewal ==
  ASSUME NEW p \in Nat \ {0}, NEW r \in Nat, NEW end \in Nat, r < end
  PROVE  Arrivals(end - r, p) =
           1 + IF end <= r + p THEN 0 ELSE Arrivals(end - (r + p), p)
<1>1. CASE end <= r + p
  <2>1. end - r \in 1 .. p
    BY <1>1
  <2> QED
    BY <1>1, <2>1, AtMostOne
<1>2. CASE ~(end <= r + p)
  <2>1. end - (r + p) \in Nat /\ end - r = (end - (r + p)) + p
    BY <1>2
  <2> QED
    BY <1>2, <2>1, OneMore
<1> QED
  BY <1>1, <1>2

LEMMA Works ==
  ASSUME OptionsTypeOK
  PROVE  /\ Work(Sampling) = ReadTime
         /\ \A t \in Plotters : Work(t) = DrawTime
         /\ \A t \in Shows : Work(t) = CopyTime + FillTime
         /\ \A t \in Thread : Work(t) \in Nat \ {0}
<1>1. {ReadTime, CopyTime, FillTime, DrawTime} \subseteq Nat \ {0}
  BY LaunchAssumption
<1>2. Work(Sampling) = ReadTime
  BY Members DEF Work
<1>3. \A t \in Plotters : Work(t) = DrawTime
  BY Members DEF Work
<1>4. \A t \in Shows : Work(t) = CopyTime + FillTime
  BY Members DEF Work
<1> QED
  BY <1>1, <1>2, <1>3, <1>4, Members

LEMMA OwedTyped ==
  ASSUME BasicInv, order # << >>, NEW t \in Thread, NEW end \in Nat
  PROVE  /\ Release(t) \in Nat /\ Until(t, end) \in Nat /\ Rest(t) \in Nat
         /\ Until(t, end) * Work(t) \in Nat /\ Owed(t, end) \in Nat
<1>1. OptionsTypeOK /\ rate \in Rates /\ MaxX > 1
      /\ started \in Nat /\ clock \in Nat
  BY LaunchAssumption DEF BasicInv, Staged, TypeOK
<1>2. t \in AnyThread /\ Delay(t) \in Nat /\ Period(t) \in Nat \ {0}
      /\ Work(t) \in Nat /\ FillTime \in Nat
  BY <1>1, Members, Asked, Periods, Works, LaunchAssumption
<1>3. left[t] \in Nat /\ due[t] \in Nat
  BY <1>2 DEF BasicInv, TypeOK
<1>4. Release(t) \in Nat
  BY <1>1, <1>2, <1>3 DEF Release, Later
<1>5. Until(t, end) \in Nat
  <2>1. end <= Release(t) \/ end - Release(t) \in Nat
    BY <1>4
  <2> QED
    BY <1>2, <2>1, ArrivalsNat DEF Until
<1>6. Rest(t) \in Nat
  BY <1>2, <1>3 DEF Rest
<1>7. Until(t, end) * Work(t) \in Nat
  BY <1>2, <1>5, Products
<1> QED
  BY <1>4, <1>5, <1>6, <1>7 DEF Owed

(* What a thread does changes nothing of what is owed.                     *)
LEMMA OwedByRun ==
  ASSUME BasicInv, NEW t \in AnyThread, Run(t),
         NEW end \in Nat, clock < end, NEW u \in Thread
  PROVE  Owed(u, end)' = Owed(u, end)
<1>1. /\ t \in Thread
      /\ stage \in {"start", "run"}
      /\ UNCHANGED <<opts, given, verdict>>
      /\ UNCHANGED <<stage, cpus, rate, order, position, started, wake, clock>>
      /\ Others(t)
      /\ Arrives(t) \/ Locks(t) \/ Unlocks(t) \/ Finishes(t)
  BY Steps
<1>2. /\ OptionsTypeOK /\ rate \in Rates /\ MaxX > 1 /\ Sorted
      /\ order # << >> /\ started \in Nat /\ clock \in Nat
  BY <1>1, UnderWay
<1>3. /\ Delay(u)' = Delay(u) /\ Period(u)' = Period(u) /\ Work(u)' = Work(u)
      /\ Thread' = Thread /\ Plotters' = Plotters /\ Shows' = Shows
  BY <1>1, Frozen
<1>4. u \in AnyThread /\ Timely(u) /\ Delay(u) \in Nat /\ Period(u) \in Nat \ {0}
      /\ Work(u) \in Nat
  BY <1>2, Members, Asked, Periods, Works DEF BasicInv, Timed
<1>5. due[u] \in Nat /\ jobs[u] \in Nat /\ left[u] \in Nat
  BY <1>4 DEF BasicInv, TypeOK
<1>6. CASE u # t
  <2>1. /\ phase'[u] = phase[u] /\ left'[u] = left[u] /\ due'[u] = due[u]
        /\ jobs'[u] = jobs[u]
    BY <1>1, <1>4, <1>6 DEF Others
  <2>2. Release(u)' = Release(u)
    BY <1>1, <1>3, <2>1 DEF Release, Arrived, Later
  <2>3. Until(u, end)' = Until(u, end)
    BY <1>3, <2>2 DEF Until, Arrivals
  <2>4. Rest(u)' = Rest(u)
    BY <1>3, <2>1 DEF Rest
  <2> QED
    BY <1>3, <2>3, <2>4 DEF Owed
<1>7. CASE u = t /\ Arrives(t)
  <2> DEFINE r == IF jobs[u] = 0 THEN clock ELSE due[u]
  <2>1. /\ phase[u] = "asleep" /\ clock >= due[u]
        /\ phase'[u] \in {"locking", "working"}
        /\ phase'[u] = "working" => u \in Plotters /\ left'[u] = DrawTime
        /\ due'[u] = r + Period(u)
    BY <1>7 DEF Arrives, Became
  <2>2. r \in Nat /\ r <= clock
    BY <1>2, <1>5, <2>1
  <2>3. Release(u) = r
    BY <1>2, <1>4, <1>5, <2>1 DEF Release, Arrived, Later, Timely
  <2>4. Release(u)' = r + Period(u)
    BY <2>1 DEF Release, Arrived
  <2> HIDE DEF r
  <2>5. Until(u, end) = 1 + Until(u, end)'
    <3>1. Until(u, end) = Arrivals(end - r, Period(u))
      BY <1>2, <2>2, <2>3 DEF Until
    <3>2. Until(u, end)' =
            IF end <= r + Period(u) THEN 0
            ELSE Arrivals(end - (r + Period(u)), Period(u))
      BY <1>3, <2>4 DEF Until, Arrivals
    <3> QED
      BY <1>2, <1>4, <2>2, <3>1, <3>2, Renewal
  <2>6. Rest(u) = 0 /\ Rest(u)' = Work(u)
    BY <1>2, <1>3, <2>1, Works DEF Rest
  <2>7. Until(u, end)' \in Nat
    <3>1. end - (r + Period(u)) \in Nat \/ end <= r + Period(u)
      BY <1>4, <2>2
    <3> QED
      BY <1>3, <1>4, <2>4, <3>1, ArrivalsNat DEF Until, Arrivals
  <2>8. Until(u, end) * Work(u) = Work(u) + Until(u, end)' * Work(u)
    BY <1>4, <2>5, <2>7, Products
  <2>9. Until(u, end)' * Work(u) \in Nat
    BY <1>4, <2>7, Products
  <2>10. Owed(u, end) = Rest(u) + Until(u, end) * Work(u)
         /\ Owed(u, end)' = Rest(u)' + Until(u, end)' * Work(u)'
    BY DEF Owed
  <2> QED
    BY <1>3, <1>4, <2>6, <2>8, <2>9, <2>10
<1>8. CASE u = t /\ ~Arrives(t)
  <2>1. Locks(t) \/ Unlocks(t) \/ Finishes(t)
    BY <1>1, <1>8
  <2>2. Release(u) = due[u] /\ Release(u)' = due[u]
    BY <1>5, <1>8, <2>1
       DEF Locks, Unlocks, Finishes, Became, Release, Arrived
  <2>3. Until(u, end)' = Until(u, end)
    BY <1>3, <2>2 DEF Until, Arrivals
  <2>4. Rest(u)' = Rest(u)
    <3>1. CASE Locks(t)
      <4>1. u = Sampling \/ u \in Shows
        BY <1>2, <1>4, <1>8, <3>1, Members DEF Locks, Became, Timely
      <4> QED
        BY <1>2, <1>3, <1>8, <3>1, <4>1, Works, Members DEF Locks, Became, Rest
    <3>2. CASE Unlocks(t)
      <4>1. u # Sampling
        BY <1>2, <1>8, <3>2, Members DEF Unlocks
      <4>2. FillTime \in Nat
        BY LaunchAssumption
      <4> QED
        BY <1>3, <1>8, <3>2, <4>1, <4>2 DEF Unlocks, Became, Rest
    <3>3. CASE Finishes(t)
      BY <1>3, <1>8, <3>3 DEF Finishes, Became, Rest
    <3> QED
      BY <2>1, <3>1, <3>2, <3>3
  <2> QED
    BY <1>3, <2>3, <2>4 DEF Owed
<1> QED
  BY <1>6, <1>7, <1>8

(* Of main's steps only the creation of a thread moves one, from nowhere.  *)
LEMMA Creates ==
  ASSUME BasicInv, CreateThread, NEW t \in AnyThread
  PROVE  /\ stage = "start" /\ stage' \in {"start", "run"}
         /\ UNCHANGED <<opts, given, verdict>>
         /\ UNCHANGED <<cpus, rate, order, started, clock, left, jobs, missed>>
         /\ MainRuns
         /\ \/ phase'[t] = phase[t] /\ due'[t] = due[t]
            \/ /\ t = order[position]
               /\ phase[t] = "none" /\ phase'[t] = "asleep"
               /\ due'[t] = started + Delay(t)
<1> DEFINE n == order[position]
<1>1. /\ stage = "start" /\ stage' \in {"start", "run"}
      /\ UNCHANGED <<opts, given, verdict>>
      /\ UNCHANGED <<cpus, rate, order, started, clock, left, jobs, missed>>
      /\ MainRuns
      /\ phase' = [phase EXCEPT ![n] = "asleep"]
      /\ due' = [due EXCEPT ![n] = started + Delay(n)]
  BY DEF CreateThread, optionVars
<1>2. phase[n] = "none"
  <2>1. position \in DOMAIN order
    <3>1. position <= Len(order) /\ position \in 1 .. Len(order) + 1
      BY <1>1 DEF BasicInv, Staged, TypeOK
    <3>2. DOMAIN order = 1 .. Len(order) /\ Len(order) \in Nat
      BY <1>1, Order, UnderWay
    <3> QED
      BY <3>1, <3>2
  <2>2. position >= position
    BY DEF BasicInv, TypeOK
  <2> QED
    BY <2>1, <2>2 DEF BasicInv, InOrder
<1> QED
  BY <1>1, <1>2 DEF BasicInv, TypeOK

(* Nor does the creation of a thread.                                      *)
LEMMA OwedByCreate ==
  ASSUME BasicInv, CreateThread, NEW end \in Nat, NEW u \in Thread
  PROVE  Owed(u, end)' = Owed(u, end)
<1>1. u \in AnyThread /\ Timely(u)
  BY Creates, UnderWay, Members DEF BasicInv, Timed, CreateThread
<1>2. /\ UNCHANGED <<opts, rate, started, clock, left, jobs>>
      /\ \/ phase'[u] = phase[u] /\ due'[u] = due[u]
         \/ phase[u] = "none" /\ phase'[u] = "asleep"
  BY <1>1, Creates
<1>3. /\ Delay(u)' = Delay(u) /\ Period(u)' = Period(u) /\ Work(u)' = Work(u)
  BY <1>2, SameOptions
<1>4. Release(u)' = Release(u)
  BY <1>1, <1>2, <1>3 DEF Release, Arrived, Later, Timely
<1>5. Until(u, end)' = Until(u, end)
  BY <1>3, <1>4 DEF Until, Arrivals
<1>6. Rest(u)' = Rest(u)
  BY <1>2, <1>3 DEF Rest
<1> QED
  BY <1>3, <1>5, <1>6 DEF Owed

(* Who has a processor while time passes works off what it owes.           *)
LEMMA OwedByTick ==
  ASSUME BasicInv, Tick, NEW end \in Nat, NEW u \in Thread
  PROVE  /\ Owed(u, end)' \in Nat
         /\ Owed(u, end)' <= Owed(u, end)
         /\ u \in Running => Owed(u, end)' <= Owed(u, end) - 1
<1>1. /\ stage \in {"start", "run"} /\ clock' = clock + 1
      /\ \A t \in Running : left[t] > 0
      /\ UNCHANGED <<opts, given, verdict>>
      /\ UNCHANGED <<stage, cpus, rate, order, position, started, wake>>
      /\ UNCHANGED <<phase, due, jobs, missed>>
      /\ left' = [t \in AnyThread |-> IF t \in Running THEN left[t] - 1 ELSE left[t]]
  BY DEF Tick, optionVars, mainVars
<1>2. /\ OptionsTypeOK /\ rate \in Rates /\ MaxX > 1 /\ Sorted
      /\ started \in Nat /\ clock \in Nat /\ order # << >>
  BY <1>1, UnderWay
<1>3. /\ Delay(u)' = Delay(u) /\ Period(u)' = Period(u) /\ Work(u)' = Work(u)
  BY <1>1, Frozen
<1>4. u \in AnyThread /\ Timely(u) /\ Delay(u) \in Nat /\ Period(u) \in Nat \ {0}
      /\ Work(u) \in Nat
  BY <1>2, Members, Asked, Periods, Works DEF BasicInv, Timed
<1>5. due[u] \in Nat /\ jobs[u] \in Nat /\ left[u] \in Nat
      /\ phase[u] \in {"none", "asleep", "locking", "critical", "working"}
  BY <1>4 DEF BasicInv, TypeOK
<1>6. Release(u) \in Nat /\ Release(u)' \in Nat /\ Release(u) <= Release(u)'
  BY <1>1, <1>2, <1>3, <1>4, <1>5 DEF Release, Arrived, Later
<1>7. Until(u, end) \in Nat /\ Until(u, end)' \in Nat
      /\ Until(u, end)' <= Until(u, end)
  <2>1. Until(u, end)' =
          IF end <= Release(u)' THEN 0 ELSE Arrivals(end - Release(u)', Period(u))
    BY <1>3 DEF Until, Arrivals
  <2>2. Until(u, end) =
          IF end <= Release(u) THEN 0 ELSE Arrivals(end - Release(u), Period(u))
    BY DEF Until
  <2>3. end <= Release(u) \/ end - Release(u) \in Nat
    BY <1>6
  <2>4. end <= Release(u)' \/ end - Release(u)' \in Nat
    BY <1>6
  <2>5. CASE end <= Release(u)'
    BY <1>4, <2>1, <2>2, <2>3, <2>5, ArrivalsNat
  <2>6. CASE ~(end <= Release(u)')
    <3>1. end - Release(u)' <= end - Release(u) /\ ~(end <= Release(u))
      BY <1>6, <2>6
    <3> QED
      BY <1>4, <2>1, <2>2, <2>3, <2>4, <2>6, <3>1, ArrivalsNat, LongerInterval
  <2> QED
    BY <2>5, <2>6
<1>8. /\ Until(u, end) * Work(u) \in Nat /\ Until(u, end)' * Work(u) \in Nat
      /\ Until(u, end)' * Work(u) <= Until(u, end) * Work(u)
  BY <1>4, <1>7, Products
<1>9. /\ Rest(u) \in Nat /\ Rest(u)' \in Nat
      /\ Rest(u)' <= Rest(u)
      /\ u \in Running => Rest(u)' <= Rest(u) - 1
  <2>1. u \in Running => left[u] > 0 /\ phase[u] \in {"critical", "working"}
    BY <1>1, <1>5, <1>4 DEF Timely, Running, Runnable
  <2>2. left'[u] = IF u \in Running THEN left[u] - 1 ELSE left[u]
    BY <1>1, <1>4
  <2>3. FillTime \in Nat
    BY LaunchAssumption
  <2>4. /\ phase[u] = "locking" => Rest(u) = Work(u) /\ Rest(u)' = Work(u)
        /\ phase[u] = "critical" =>
             /\ Rest(u) = left[u] + IF u = Sampling THEN 0 ELSE FillTime
             /\ Rest(u)' = left'[u] + IF u = Sampling THEN 0 ELSE FillTime
        /\ phase[u] = "working" => Rest(u) = left[u] /\ Rest(u)' = left'[u]
        /\ phase[u] \in {"none", "asleep"} => Rest(u) = 0 /\ Rest(u)' = 0
    BY <1>1, <1>3 DEF Rest
  <2>5. CASE u \in Running
    BY <1>5, <2>1, <2>2, <2>3, <2>4, <2>5
  <2>6. CASE u \notin Running
    BY <1>4, <1>5, <2>2, <2>3, <2>4, <2>6
  <2> QED
    BY <2>5, <2>6
<1>10. Owed(u, end) = Rest(u) + Until(u, end) * Work(u)
       /\ Owed(u, end)' = Rest(u)' + Until(u, end)' * Work(u)
  BY <1>3 DEF Owed
<1> QED
  BY <1>8, <1>9, <1>10

LEMMA LoadTyped ==
  ASSUME BasicInv, order # << >>, NEW end \in Nat
  PROVE  /\ Load(end) \in Nat
         /\ \A d : OfDisplay(d, end) \in Nat
         /\ Owed(Sampling, end) \in Nat
<1>1. OptionsTypeOK
  BY DEF BasicInv, TypeOK
<1>2. Owed(Sampling, end) \in Nat
  BY <1>1, Members, OwedTyped
<1>3. ASSUME NEW d PROVE OfDisplay(d, end) \in Nat
  <2>1. CASE d \in opts.show
    <3>1. Plotter(d) \in Thread /\ Show(d) \in Thread
      BY <1>1, <2>1, Members
    <3>2. Owed(Plotter(d), end) \in Nat /\ Owed(Show(d), end) \in Nat
      BY <3>1, OwedTyped
    <3> QED
      BY <2>1, <3>2 DEF OfDisplay
  <2>2. CASE d \notin opts.show
    BY <2>2 DEF OfDisplay
  <2> QED
    BY <2>1, <2>2
<1>4. OfDisplay("spectrum", end) \in Nat /\ OfDisplay("signal", end) \in Nat
  BY <1>3
<1> QED
  BY <1>2, <1>3, <1>4 DEF Load

(* No step of main or of a thread changes the load up to a date ahead.     *)
LEMMA LoadByStep ==
  ASSUME BasicInv, NEW end \in Nat, clock < end,
         CreateThread \/ \E t \in AnyThread : Run(t)
  PROVE  Load(end)' = Load(end)
<1>1. OptionsTypeOK /\ opts' = opts
  BY DEF BasicInv, TypeOK, CreateThread, Run, optionVars
<1>2. \A u \in Thread : Owed(u, end)' = Owed(u, end)
  BY OwedByCreate, OwedByRun
<1>3. ASSUME NEW d PROVE OfDisplay(d, end)' = OfDisplay(d, end)
  <2>1. CASE d \in opts.show
    <3>1. Plotter(d) \in Thread /\ Show(d) \in Thread
      BY <1>1, <2>1, Members
    <3> QED
      BY <1>1, <1>2, <2>1, <3>1 DEF OfDisplay
  <2>2. CASE d \notin opts.show
    BY <1>1, <2>2 DEF OfDisplay
  <2> QED
    BY <2>1, <2>2
<1>4. Owed(Sampling, end)' = Owed(Sampling, end)
  BY <1>1, <1>2, Members
<1> QED
  BY <1>3, <1>4 DEF Load

(* Time that passes while somebody runs makes the load less.               *)
LEMMA LoadByTick ==
  ASSUME BasicInv, Tick, NEW end \in Nat
  PROVE  /\ Load(end)' \in Nat
         /\ Load(end)' <= Load(end)
         /\ Running # {} => Load(end)' <= Load(end) - 1
<1>1. OptionsTypeOK /\ opts' = opts /\ order # << >>
  BY UnderWay DEF Tick, optionVars
<1>2. /\ \A d : OfDisplay(d, end) \in Nat
      /\ Owed(Sampling, end) \in Nat
  BY <1>1, LoadTyped
<1>3. /\ Owed(Sampling, end)' \in Nat
      /\ Owed(Sampling, end)' <= Owed(Sampling, end)
      /\ Sampling \in Running => Owed(Sampling, end)' <= Owed(Sampling, end) - 1
  BY <1>1, Members, OwedByTick
<1>4. ASSUME NEW d
      PROVE  /\ OfDisplay(d, end)' \in Nat
             /\ OfDisplay(d, end)' <= OfDisplay(d, end)
             /\ d \in opts.show /\ (Plotter(d) \in Running \/ Show(d) \in Running)
                  => OfDisplay(d, end)' <= OfDisplay(d, end) - 1
  <2>1. CASE d \in opts.show
    <3>1. Plotter(d) \in Thread /\ Show(d) \in Thread
      BY <1>1, <2>1, Members
    <3>2. Owed(Plotter(d), end) \in Nat /\ Owed(Show(d), end) \in Nat
      BY <1>1, <3>1, OwedTyped
    <3>3. /\ Owed(Plotter(d), end)' \in Nat
          /\ Owed(Plotter(d), end)' <= Owed(Plotter(d), end)
          /\ Plotter(d) \in Running
               => Owed(Plotter(d), end)' <= Owed(Plotter(d), end) - 1
      BY <3>1, OwedByTick
    <3>4. /\ Owed(Show(d), end)' \in Nat
          /\ Owed(Show(d), end)' <= Owed(Show(d), end)
          /\ Show(d) \in Running => Owed(Show(d), end)' <= Owed(Show(d), end) - 1
      BY <3>1, OwedByTick
    <3>5. /\ OfDisplay(d, end) = Owed(Plotter(d), end) + Owed(Show(d), end)
          /\ OfDisplay(d, end)' = Owed(Plotter(d), end)' + Owed(Show(d), end)'
      BY <1>1, <2>1 DEF OfDisplay
    <3> QED
      BY <3>2, <3>3, <3>4, <3>5
  <2>2. CASE d \notin opts.show
    BY <1>1, <2>2 DEF OfDisplay
  <2> QED
    BY <2>1, <2>2
<1> DEFINE a == OfDisplay("spectrum", end)
           b == OfDisplay("signal", end)
           aa == OfDisplay("spectrum", end)'
           bb == OfDisplay("signal", end)'
<1>5. /\ a \in Nat /\ b \in Nat /\ aa \in Nat /\ bb \in Nat /\ aa <= a /\ bb <= b
  BY <1>2, <1>4
<1>6. Load(end) = Owed(Sampling, end) + a + b
      /\ Load(end)' = Owed(Sampling, end)' + aa + bb
  BY DEF Load
<1>7. ASSUME NEW t \in Running
      PROVE  Sampling \in Running \/ aa <= a - 1 \/ bb <= b - 1
  <2>1. t \in Thread
    BY DEF Running, Runnable
  <2>2. t = Sampling \/ \E d \in opts.show : t = Plotter(d) \/ t = Show(d)
    BY <1>1, <2>1, Members DEF Plotters, Shows
  <2>3. opts.show \subseteq {"spectrum", "signal"}
    BY <1>1 DEF OptionsTypeOK, Displays
  <2>4. ASSUME NEW d \in opts.show, t = Plotter(d) \/ t = Show(d)
        PROVE  aa <= a - 1 \/ bb <= b - 1
    <3>1. d = "spectrum" \/ d = "signal"
      BY <2>3
    <3>2. OfDisplay(d, end)' <= OfDisplay(d, end) - 1
      BY <1>4, <2>4
    <3> QED
      BY <3>1, <3>2
  <2> QED
    BY <2>2, <2>4
<1> HIDE DEF a, b, aa, bb
<1> QED
  BY <1>2, <1>3, <1>5, <1>6, <1>7

(* Where no job is on its way, what arrives in an interval is no more than *)
(* Demand counts.                                                          *)
Bounded ==
  \A now \in Nat, I \in Nat :
    /\ BasicInv /\ order # << >>
    /\ \A t \in Thread : Rest(t) = 0 /\ Release(t) >= now
    => /\ Load(now + I) \in Nat /\ Demand(I) \in Nat
       /\ Load(now + I) <= Demand(I)

LEMMA DemandBounds == Bounded
<1> SUFFICES ASSUME NEW now \in Nat, NEW I \in Nat, BasicInv, order # << >>,
                    \A t \in Thread : Rest(t) = 0 /\ Release(t) >= now
             PROVE  /\ Load(now + I) \in Nat /\ Demand(I) \in Nat
                    /\ Load(now + I) <= Demand(I)
  BY DEF Bounded
<1>1. OptionsTypeOK /\ rate \in Rates /\ MaxX > 1
  BY DEF BasicInv, TypeOK, Staged
<1>2. ASSUME NEW t \in Thread
      PROVE  /\ Owed(t, now + I) \in Nat
             /\ Owed(t, now + I) <= Arrivals(I, Period(t)) * Work(t)
  <2>1. /\ Release(t) \in Nat /\ Until(t, now + I) \in Nat
        /\ Until(t, now + I) * Work(t) \in Nat /\ Owed(t, now + I) \in Nat
    <3>1. now + I \in Nat
      OBVIOUS
    <3> QED
      BY <3>1, OwedTyped
  <2>2. Period(t) \in Nat \ {0} /\ Work(t) \in Nat
    BY <1>1, Asked, Works
  <2>3. Arrivals(I, Period(t)) \in Nat
    BY <2>2, ArrivalsNat
  <2>4. Until(t, now + I) <= Arrivals(I, Period(t))
    <3>1. CASE now + I <= Release(t)
      BY <2>3, <3>1 DEF Until
    <3>2. CASE ~(now + I <= Release(t))
      <4>1. (now + I) - Release(t) \in Nat /\ (now + I) - Release(t) <= I
        BY <2>1, <3>2
      <4>2. Until(t, now + I) = Arrivals((now + I) - Release(t), Period(t))
        BY <3>2 DEF Until
      <4> QED
        BY <2>2, <4>1, <4>2, LongerInterval
    <3> QED
      BY <3>1, <3>2
  <2>5. Until(t, now + I) * Work(t) <= Arrivals(I, Period(t)) * Work(t)
    BY <2>1, <2>2, <2>3, <2>4, Products
  <2>6. Owed(t, now + I) = Until(t, now + I) * Work(t)
    BY <2>1 DEF Owed
  <2> QED
    BY <2>1, <2>5, <2>6
<1> DEFINE draws == Arrivals(I, PlotPeriod) * DrawTime
           fills == Arrivals(I, FillingTime) * (CopyTime + FillTime)
           reads == Arrivals(I, SampPeriod) * ReadTime
           each == draws + fills
<1>3. draws \in Nat /\ fills \in Nat /\ reads \in Nat /\ each \in Nat
  <2>1. /\ Arrivals(I, PlotPeriod) \in Nat /\ Arrivals(I, FillingTime) \in Nat
        /\ Arrivals(I, SampPeriod) \in Nat
    BY <1>1, Periods, ArrivalsNat
  <2>2. DrawTime \in Nat /\ CopyTime + FillTime \in Nat /\ ReadTime \in Nat
    BY LaunchAssumption
  <2>3. draws \in Nat /\ fills \in Nat /\ reads \in Nat
    BY <2>1, <2>2, Products
  <2> HIDE DEF draws, fills, reads
  <2> QED
    BY <2>3
<1>4. Owed(Sampling, now + I) \in Nat /\ Owed(Sampling, now + I) <= reads
  <2>1. Sampling \in Thread /\ Period(Sampling) = SampPeriod
        /\ Work(Sampling) = ReadTime
    BY <1>1, Members, Asked, Works
  <2> QED
    BY <1>2, <2>1
<1>5. ASSUME NEW d
      PROVE  /\ OfDisplay(d, now + I) \in Nat
             /\ OfDisplay(d, now + I) <= IF d \in opts.show THEN each ELSE 0
  <2>1. CASE d \in opts.show
    <3>1. /\ Plotter(d) \in Thread /\ Period(Plotter(d)) = PlotPeriod
          /\ Work(Plotter(d)) = DrawTime
          /\ Show(d) \in Thread /\ Period(Show(d)) = FillingTime
          /\ Work(Show(d)) = CopyTime + FillTime
      BY <1>1, <2>1, Members, Asked, Works
    <3>2. Owed(Plotter(d), now + I) \in Nat /\ Owed(Plotter(d), now + I) <= draws
      BY <1>2, <3>1
    <3>3. Owed(Show(d), now + I) \in Nat /\ Owed(Show(d), now + I) <= fills
      BY <1>2, <3>1
    <3>4. OfDisplay(d, now + I)
            = Owed(Plotter(d), now + I) + Owed(Show(d), now + I)
      BY <2>1 DEF OfDisplay
    <3> HIDE DEF draws, fills
    <3> QED
      BY <1>3, <2>1, <3>2, <3>3, <3>4
  <2>2. CASE d \notin opts.show
    BY <2>2 DEF OfDisplay
  <2> QED
    BY <2>1, <2>2
<1>6. Demand(I) = reads + Cardinality(opts.show) * each
  BY DEF Demand
<1>7. Cardinality(opts.show) * each
        = (IF "spectrum" \in opts.show THEN each ELSE 0)
            + (IF "signal" \in opts.show THEN each ELSE 0)
  <2>1. Cardinality(opts.show) =
          (IF "spectrum" \in opts.show THEN 1 ELSE 0)
            + (IF "signal" \in opts.show THEN 1 ELSE 0)
    BY <1>1, Counts
  <2>2. each \in Nat
    BY <1>3
  <2> HIDE DEF each
  <2>3. 0 * each = 0 /\ 1 * each = each /\ 2 * each = each + each
    BY <2>2
  <2> QED
    BY <2>1, <2>2, <2>3
<1>8. Load(now + I) = Owed(Sampling, now + I)
                        + OfDisplay("spectrum", now + I)
                        + OfDisplay("signal", now + I)
  BY DEF Load
<1>9. /\ OfDisplay("spectrum", now + I) \in Nat
      /\ OfDisplay("spectrum", now + I)
           <= IF "spectrum" \in opts.show THEN each ELSE 0
      /\ OfDisplay("signal", now + I) \in Nat
      /\ OfDisplay("signal", now + I)
           <= IF "signal" \in opts.show THEN each ELSE 0
  BY <1>5
<1>10. now + I \in Nat /\ Load(now + I) \in Nat
  BY LoadTyped
<1> HIDE DEF reads, each, draws, fills
<1> QED
  BY <1>3, <1>4, <1>6, <1>7, <1>8, <1>9, <1>10

-----------------------------------------------------------------------------
(* A command line that leaves room.                                        *)

(* When no thread can run, all those that were created are asleep, and no  *)
(* activation is due.                                                      *)
LEMMA Asleep ==
  ASSUME BasicInv, stage \in {"start", "run"}, Runnable = {},
         NEW t \in Thread, phase[t] # "none"
  PROVE  phase[t] = "asleep" /\ due[t] > clock
<1>1. OptionsTypeOK /\ clock \in Nat
  BY UnderWay
<1>2. t \in AnyThread
  BY <1>1, Members
<1>3. due[t] \in Nat
      /\ phase[t] \in {"none", "asleep", "locking", "critical", "working"}
  BY <1>2 DEF BasicInv, TypeOK
<1>4. ~Held
  <2> SUFFICES ASSUME NEW u \in AnyThread, phase[u] = "critical" PROVE FALSE
    BY DEF Held
  <2>1. u \in Thread
    BY DEF BasicInv, InOrder
  <2> QED
    BY <2>1 DEF Runnable
<1>5. ~(phase[t] = "asleep" /\ clock >= due[t]) /\ phase[t] # "locking"
      /\ phase[t] \notin {"critical", "working"}
  BY <1>4 DEF Runnable
<1> QED
  BY <1>1, <1>3, <1>5

(* Once main sleeps, all the threads exist.                                *)
LEMMA AllCreated ==
  ASSUME BasicInv, stage = "run"
  PROVE  \A t \in Thread : phase[t] # "none"
<1> SUFFICES ASSUME NEW t \in Thread PROVE phase[t] # "none"
  OBVIOUS
<1>1. OptionsTypeOK /\ Sorted
  BY UnderWay
<1>2. Rank(t) \in 1 .. Len(order) /\ order[Rank(t)] = t /\ Len(order) \in Nat
      /\ DOMAIN order = 1 .. Len(order)
  BY <1>1, Order
<1>3. position = Len(order) + 1
  BY DEF BasicInv, Staged
<1>4. ~(Rank(t) >= position)
  BY <1>2, <1>3
<1> QED
  BY <1>2, <1>4 DEF BasicInv, InOrder

(* A processor that is left over belongs to main while it starts threads.  *)
LEMMA IdleTick ==
  ASSUME BasicInv, Tick, Runnable = {}
  PROVE  stage = "run"
<1>1. stage \in {"start", "run"} /\ ~(MainRuns /\ stage = "start")
  BY DEF Tick
<1>2. MainRuns
  BY <1>1, Scheduling, FS_EmptySet DEF MainRuns
<1> QED
  BY <1>1, <1>2

(* The date stays while somebody runs, and moves when nobody does.         *)
LEMMA OnTimeKept ==
  ASSUME BasicInv, NEW I \in Nat \ {0}, OnTime(I), [Next]_vars
  PROVE  OnTime(I)'
<1> SUFFICES ASSUME stage' \in {"start", "run"}, Demand(I)' < I
             PROVE  \E end \in clock' + 1 .. clock' + I :
                      /\ Load(end)' <= end - 1 - clock'
                      /\ \A t \in Thread' :
                           jobs'[t] = 0 => end - I <= started' + Delay(t)'
  BY DEF OnTime
<1>1. Bounded'
  BY DemandBounds, PTL
<1>2. BasicInv' /\ clock \in Nat /\ OptionsTypeOK
  <2>1. BasicInv'
    BY BasicKept
  <2>2. clock \in Nat /\ OptionsTypeOK
    BY LaunchAssumption DEF BasicInv, TypeOK
  <2> QED
    BY <2>1, <2>2
<1>3. CASE StartPool
  <2>1. /\ opts' = opts /\ rate' = rate /\ started' = clock /\ clock' = clock
        /\ UNCHANGED <<phase, left, due, jobs, missed>>
        /\ order = << >> /\ rate \in Rates /\ MaxX > 1
    BY <1>3 DEF StartPool, optionVars, threadVars, BasicInv, Staged
  <2>2. order' # << >>
    BY <1>2 DEF BasicInv, Staged
  <2>3. /\ Thread' = Thread /\ Demand(I)' = Demand(I)
        /\ \A t : Delay(t)' = Delay(t)
    BY <2>1, SameOptions
  <2>4. ASSUME NEW t \in Thread
        PROVE  Fresh(t) /\ Delay(t) \in Nat
    BY <1>2, <2>1, Members, Asked, Periods DEF BasicInv, InOrder
  <2>5. PICK now \in Nat : now = clock
    BY <1>2
  <2>6. \A t \in Thread : Rest(t)' = 0 /\ Release(t)' >= now
    BY <2>1, <2>3, <2>4, <2>5 DEF Rest, Release, Arrived, Later, Fresh
  <2>7. /\ Load(now + I)' \in Nat /\ Demand(I)' \in Nat
        /\ Load(now + I)' <= Demand(I)'
    BY <1>1, <1>2, <2>2, <2>3, <2>6 DEF Bounded
  <2>8. now + I \in clock' + 1 .. clock' + I
        /\ Load(now + I)' <= (now + I) - 1 - clock'
    BY <2>1, <2>5, <2>7
  <2>9. \A t \in Thread' : (now + I) - I <= started' + Delay(t)'
    BY <2>1, <2>3, <2>4, <2>5
  <2> QED
    BY <2>8, <2>9
<1>4. CASE CreateThread \/ \E t \in AnyThread : Run(t)
  <2>1. /\ opts' = opts /\ rate' = rate /\ started' = started /\ clock' = clock
        /\ stage \in {"start", "run"}
    BY <1>4 DEF CreateThread, Run, optionVars, mainVars
  <2>2. /\ Thread' = Thread /\ Demand(I)' = Demand(I)
        /\ \A t : Delay(t)' = Delay(t)
    BY <2>1, SameOptions
  <2>3. PICK end \in clock + 1 .. clock + I :
          /\ Load(end) <= end - 1 - clock
          /\ \A t \in Thread : jobs[t] = 0 => end - I <= started + Delay(t)
    BY <2>1, <2>2 DEF OnTime
  <2>4. Load(end)' = Load(end)
    BY <1>2, <1>4, <2>3, LoadByStep
  <2>5. ASSUME NEW t \in Thread, jobs'[t] = 0
        PROVE  jobs[t] = 0
    <3>1. t \in AnyThread
      BY <1>2, Members
    <3>2. jobs[t] \in Nat
      BY <3>1 DEF BasicInv, TypeOK
    <3>3. CASE CreateThread
      BY <2>5, <3>3 DEF CreateThread
    <3>4. ASSUME NEW u \in AnyThread, Run(u) PROVE jobs[t] = 0
      <4>1. Others(u) /\ (jobs'[u] = jobs[u] \/ jobs'[u] = jobs[u] + 1)
        BY <3>4, Steps DEF Arrives, Locks, Unlocks, Finishes
      <4> QED
        BY <2>5, <3>1, <3>2, <4>1 DEF Others
    <3> QED
      BY <1>4, <3>3, <3>4
  <2> QED
    BY <2>1, <2>2, <2>3, <2>4, <2>5
<1>5. CASE Tick
  <2>1. /\ opts' = opts /\ rate' = rate /\ started' = started /\ jobs' = jobs
        /\ clock' = clock + 1 /\ due' = due /\ phase' = phase /\ order' = order
        /\ stage \in {"start", "run"}
    BY <1>5 DEF Tick, optionVars, mainVars
  <2>2. /\ Thread' = Thread /\ Demand(I)' = Demand(I)
        /\ \A t : Delay(t)' = Delay(t)
    BY <2>1, SameOptions
  <2>3. PICK end \in clock + 1 .. clock + I :
          /\ Load(end) <= end - 1 - clock
          /\ \A t \in Thread : jobs[t] = 0 => end - I <= started + Delay(t)
    BY <2>1, <2>2 DEF OnTime
  <2>4. CASE Runnable # {}
    <3>1. end \in Nat /\ order # << >> /\ Running # {}
      BY <1>2, <2>1, <2>3, <2>4, Scheduling, UnderWay
    <3>2. Load(end) \in Nat /\ Load(end)' \in Nat /\ Load(end)' <= Load(end) - 1
      BY <1>5, <3>1, LoadByTick, LoadTyped
    <3>3. end \in clock' + 1 .. clock' + I /\ Load(end)' <= end - 1 - clock'
      BY <1>2, <2>1, <2>3, <3>2
    <3> QED
      BY <2>1, <2>2, <2>3, <3>3
  <2>5. CASE Runnable = {}
    <3>1. stage = "run" /\ order # << >> /\ rate \in Rates /\ MaxX > 1
          /\ started \in Nat
      BY <1>5, <2>1, <2>5, IdleTick, UnderWay
    <3>2. ASSUME NEW t \in Thread
          PROVE  /\ phase[t] = "asleep" /\ due[t] > clock
                 /\ jobs[t] = 0 => due[t] = started + Delay(t)
                 /\ due[t] \in Nat /\ Delay(t) \in Nat
      <4>1. phase[t] = "asleep" /\ due[t] > clock
        BY <2>5, <3>1, AllCreated, Asleep
      <4>2. Timely(t) /\ t \in AnyThread /\ Delay(t) \in Nat
        BY <1>2, <3>1, Members, Asked, Periods DEF BasicInv, Timed
      <4> QED
        BY <4>1, <4>2 DEF Timely, BasicInv, TypeOK
    <3>3. PICK now \in Nat : now = clock + 1
      BY <1>2
    <3>4. ASSUME NEW t \in Thread
          PROVE  Rest(t)' = 0 /\ Release(t)' >= now
      <4>1. Rest(t)' = 0
        BY <2>1, <3>2 DEF Rest
      <4>2. Release(t)' = IF jobs[t] > 0 THEN due[t]
                          ELSE Later(clock + 1, started + Delay(t))
        BY <2>1, <2>2, <3>2 DEF Release, Arrived, Later
      <4> QED
        BY <1>2, <3>1, <3>2, <3>3, <4>1, <4>2 DEF Later
    <3>5. /\ Load(now + I)' \in Nat /\ Demand(I)' \in Nat
          /\ Load(now + I)' <= Demand(I)'
      BY <1>1, <1>2, <2>1, <2>2, <3>1, <3>4 DEF Bounded
    <3>6. now + I \in clock' + 1 .. clock' + I
          /\ Load(now + I)' <= (now + I) - 1 - clock'
      BY <1>2, <2>1, <3>3, <3>5
    <3>7. ASSUME NEW t \in Thread, jobs[t] = 0
          PROVE  (now + I) - I <= started + Delay(t)
      BY <1>2, <3>1, <3>2, <3>3, <3>7
    <3> QED
      BY <2>1, <2>2, <3>6, <3>7
  <2> QED
    BY <2>4, <2>5
<1>6. CASE UNCHANGED vars
  <2>1. /\ UNCHANGED <<opts, rate, stage, clock, order, started>>
        /\ UNCHANGED <<phase, left, due, jobs>>
    BY <1>6 DEF vars, optionVars, mainVars, threadVars
  <2>2. /\ Thread' = Thread /\ Demand(I)' = Demand(I)
        /\ \A t : Delay(t)' = Delay(t) /\ Period(t)' = Period(t)
        /\ \A t : Work(t)' = Work(t)
    BY <2>1, SameOptions
  <2>3. \A end, t : Owed(t, end)' = Owed(t, end)
    <3>1. \A t : Release(t)' = Release(t)
      BY <2>1, <2>2, Zenon DEF Release, Arrived, Later
    <3>2. \A end, t : Until(t, end)' = Until(t, end)
      BY <2>2, <3>1, Zenon DEF Until, Arrivals
    <3>3. \A t : Rest(t)' = Rest(t)
      BY <2>1, <2>2, Zenon DEF Rest
    <3> QED
      BY <2>2, <3>2, <3>3, Zenon DEF Owed
  <2>4. \A end : Load(end)' = Load(end)
    BY <2>1, <2>3, Zenon DEF Load, OfDisplay
  <2> QED
    BY <2>1, <2>2, <2>4 DEF OnTime
<1>7. CASE \/ Parse \/ OpenSoundCard \/ NoSoundCard \/ PlotRefused
           \/ PriorityRefused \/ TimeUp \/ \E t \in AnyThread : PlotOverrun(t)
  <2>1. CASE NoSoundCard \/ PlotRefused \/ PriorityRefused \/ TimeUp
               \/ \E t \in AnyThread : PlotOverrun(t)
    BY <2>1, MainSteps DEF MainOnly
  <2>2. CASE Parse
    <3>1. order' = order /\ stage' \in {"refused", "sound", stage}
      BY <2>2 DEF Parse
    <3>2. verdict = "parsing"
      BY <2>2 DEF Parse, ParseStep, SetNumber, SetMinprio, MinprioTooHigh,
                  SetShown, Unreadable, NothingToShow, Accept, Takes
    <3> QED
      BY <3>1, <3>2 DEF BasicInv, Staged
  <2>3. CASE OpenSoundCard
    BY <2>3 DEF OpenSoundCard
  <2> QED
    BY <1>7, <2>1, <2>2, <2>3
<1> QED
  BY <1>3, <1>4, <1>5, <1>6, <1>7 DEF Next

AlwaysOnTime == \A I \in Nat \ {0} : OnTime(I)

(* startup is not refused a priority.                                      *)
LEMMA RoomForPriorities ==
  ASSUME BasicInv, stage = "start", Sound
  PROVE  Priority(position) \in SchedMin .. SchedMax
<1>1. /\ OptionsTypeOK /\ Sorted
  BY UnderWay
<1>2. position \in 1 .. Len(order) + 1 /\ position <= Len(order)
  BY DEF BasicInv, TypeOK, Staged
<1> DEFINE n == Cardinality(Thread)
           m == opts.minprio + SchedMin
<1>3. Len(order) = n /\ n \in Nat \ {0} /\ position \in 1 .. n
  <2>1. Len(order) = n /\ n \in Nat \ {0}
    BY <1>1, Order, FiniteThreads
  <2> HIDE DEF n
  <2> QED
    BY <1>2, <2>1
<1>4. /\ opts.minprio \in Nat /\ SchedMin \in Nat /\ SchedMax \in Nat
      /\ SchedMax <= IntMax
  BY <1>1, Widths, OptionsAssumption DEF Sound, OptionsTypeOK
<1>5. m + n - 1 <= SchedMax
  BY <1>4 DEF Sound
<1> HIDE DEF n
<1>6. m \in 0 .. IntMax
  BY <1>3, <1>4, <1>5, Widths
<1>7. m % UintSize = m
  <2>1. m \in 0 .. UintSize - 1
    BY <1>6, Widths
  <2> HIDE DEF m
  <2> QED
    BY <2>1, Widths, SmallRemainder
<1>8. FirstPriority = m
  BY <1>6, <1>7 DEF FirstPriority, ToInt
<1>9. Priority(position) = m + position - 1
  BY <1>8 DEF Priority
<1>10. m >= SchedMin
  BY <1>4
<1> HIDE DEF m
<1> QED
  BY <1>3, <1>4, <1>5, <1>6, <1>9, <1>10

(* Nor is plot_new or plot_graphic_set refused a position.                 *)
LEMMA RoomForPlots ==
  ASSUME OptionsTypeOK, Sound
  PROVE  MaxX = BufLen /\ MaxX > 1
<1>1. BufLen \in 2 .. UintSize - 1
  BY DEF Sound
<1>2. BufLen % UintSize = BufLen
  <2> DEFINE b == BufLen
  <2>1. b \in 2 .. UintSize - 1
    BY <1>1
  <2> HIDE DEF b
  <2>2. b % UintSize = b
    BY <2>1, Widths
  <2> QED
    BY <2>2 DEF b
<1> QED
  BY <1>1, <1>2, Widths DEF MaxX

(* When main wakes up, each thread has done a job.                         *)
LEMMA RoomForJobs ==
  ASSUME BasicInv, AlwaysOnTime, Sound, SleepOver, MainRuns
  PROVE  \A t \in Thread : jobs[t] > 0
<1>1. stage = "run" /\ opts.run_for > 0 /\ clock >= wake
  BY DEF SleepOver
<1>2. /\ OptionsTypeOK /\ rate \in Rates /\ MaxX > 1
      /\ started \in Nat /\ clock \in Nat
  BY <1>1, UnderWay
<1> DEFINE time == opts.run_for * Second
<1>3. time \in Nat /\ clock >= started + time
  <2>1. time \in Nat
    <3>1. opts.run_for \in Nat /\ Second \in Nat
      BY <1>2, Widths, LaunchAssumption DEF OptionsTypeOK
    <3> QED
      BY <3>1
  <2>2. wake >= started + time /\ wake \in Nat
    BY <1>1 DEF BasicInv, Staged
  <2> HIDE DEF time
  <2> QED
    BY <1>1, <1>2, <2>1, <2>2
<1>4. FillingTime \in Nat
  BY <1>2, Periods
<1> SUFFICES ASSUME NEW t \in Thread, jobs[t] = 0
             PROVE  FALSE
  <2>1. \A t \in Thread : jobs[t] \in Nat
    BY <1>2, Members DEF BasicInv, TypeOK
  <2> QED
    BY <2>1
<1>5. t \in AnyThread /\ Timely(t) /\ Delay(t) \in 0 .. FillingTime
  BY <1>2, Members, Asked DEF BasicInv, Timed
<1>6. CASE cpus = 1 /\ time >= FillingTime
  <2>1. phase[t] = "asleep" /\ due[t] > clock
    BY <1>1, <1>6, Scheduling, AllCreated, Asleep
  <2>2. due[t] = started + Delay(t)
    BY <1>5, <2>1 DEF Timely
  <2> HIDE DEF time
  <2> QED
    BY <1>2, <1>3, <1>4, <1>5, <1>6, <2>1, <2>2
<1>7. ASSUME NEW I \in 1 .. time - FillingTime, Demand(I) < I
      PROVE  FALSE
  <2>1. I \in Nat \ {0} /\ I <= time - FillingTime
    <3> HIDE DEF time
    <3> QED
      BY <1>3, <1>4, <1>7
  <2>2. PICK end \in clock + 1 .. clock + I :
          \A u \in Thread : jobs[u] = 0 => end - I <= started + Delay(u)
    BY <1>1, <1>7, <2>1 DEF AlwaysOnTime, OnTime
  <2>3. end - I <= started + Delay(t)
    BY <2>2
  <2> HIDE DEF time
  <2> QED
    BY <1>2, <1>3, <1>4, <1>5, <2>1, <2>2, <2>3
<1> QED
  BY <1>1, <1>2, <1>6, <1>7, Widths DEF Sound, OptionsTypeOK

Workable == BasicInv /\ AlwaysOnTime /\ SoundOptionsWork

LEMMA WorkableAtFirst == Init => Workable
<1> SUFFICES ASSUME Init PROVE Workable
  OBVIOUS
<1>1. BasicInv /\ stage = "options"
  BY AtFirst DEF Init
<1> QED
  BY <1>1 DEF Workable, AlwaysOnTime, OnTime, SoundOptionsWork

LEMMA WorkableKept == Workable /\ [Next]_vars => Workable'
<1> SUFFICES ASSUME Workable, [Next]_vars PROVE Workable'
  OBVIOUS
<1>1. BasicInv /\ AlwaysOnTime /\ SoundOptionsWork /\ OptionsTypeOK
  BY DEF Workable, BasicInv, TypeOK
<1>2. BasicInv'
  BY <1>1, BasicKept
<1>3. AlwaysOnTime'
  BY <1>1, OnTimeKept DEF AlwaysOnTime
<1>4. SoundOptionsWork'
  <2> SUFFICES ASSUME Created', Sound', stage' \in {"aborted", "crashed"}
               PROVE  FALSE
    BY DEF SoundOptionsWork
  <2>1. ASSUME opts' = opts, rate' = rate, cpus' = cpus, Sound' PROVE Sound
    <3>1. /\ Thread' = Thread /\ BufLen' = BufLen /\ FillingTime' = FillingTime
          /\ \A I : Demand(I)' = Demand(I)
      BY <2>1, SameOptions
    <3> QED
      BY <2>1, <3>1 DEF Sound
  <2>2. CASE PlotRefused
    <3>1. opts' = opts /\ rate' = rate /\ cpus' = cpus /\ MaxX <= 1
      BY <2>2 DEF PlotRefused, optionVars
    <3>2. MaxX = BufLen /\ BufLen \in 2 .. UintSize - 1
      BY <1>1, <2>1, <3>1, RoomForPlots DEF Sound
    <3> QED
      BY <3>1, <3>2, Widths
  <2>3. CASE PriorityRefused
    <3>1. opts' = opts /\ rate' = rate /\ cpus' = cpus /\ stage = "start"
          /\ Priority(position) \notin SchedMin .. SchedMax
      BY <2>3 DEF PriorityRefused, optionVars
    <3> QED
      BY <1>1, <2>1, <3>1, RoomForPriorities
  <2>4. CASE TimeUp
    <3>1. opts' = opts /\ rate' = rate /\ cpus' = cpus /\ SleepOver /\ MainRuns
      BY <2>4 DEF TimeUp, optionVars
    <3>2. \A t \in Thread : jobs[t] > 0
      BY <1>1, <2>1, <3>1, RoomForJobs
    <3>3. stage' = "over"
      BY <2>4, <3>2 DEF TimeUp
    <3> QED
      BY <3>3
  <2>5. ASSUME NEW t \in AnyThread, PlotOverrun(t) PROVE FALSE
    <3>1. opts' = opts /\ rate' = rate /\ cpus' = cpus /\ MaxX < BufLen
      BY <2>5 DEF PlotOverrun, optionVars
    <3>2. MaxX = BufLen /\ BufLen \in 2 .. UintSize - 1
      BY <1>1, <2>1, <3>1, RoomForPlots DEF Sound
    <3> QED
      BY <3>1, <3>2, Widths
  <2>6. CASE UNCHANGED vars
    <3>1. opts' = opts /\ rate' = rate /\ cpus' = cpus /\ stage' = stage
      BY <2>6 DEF vars, optionVars, mainVars
    <3> QED
      BY <1>1, <2>1, <3>1 DEF SoundOptionsWork, Created
  <2>7. CASE Parse
    <3>1. stage' \in {"refused", "sound", stage} /\ verdict = "parsing"
      BY <2>7 DEF Parse, ParseStep, SetNumber, SetMinprio, MinprioTooHigh,
                  SetShown, Unreadable, NothingToShow, Accept, Takes
    <3>2. stage = "options"
      BY <1>1, <3>1 DEF BasicInv, Staged
    <3> QED
      BY <3>1, <3>2
  <2>8. CASE NoSoundCard \/ OpenSoundCard \/ StartPool \/ CreateThread \/ Tick
               \/ \E t \in AnyThread : Run(t)
    BY <2>8 DEF NoSoundCard, OpenSoundCard, StartPool, CreateThread, Tick, Run,
                mainVars
  <2> QED
    BY <2>2, <2>3, <2>4, <2>5, <2>6, <2>7, <2>8 DEF Next
<1> QED
  BY <1>2, <1>3, <1>4 DEF Workable

(* A command line that leaves room for the priorities, the plots and one   *)
(* job of each thread never ends the program in an assertion of plot_new,  *)
(* plot_graphic_set or startup, nor in the division of show_statistics,    *)
(* whatever the periods, the execution times and the number of processors. *)
THEOREM LaunchSoundOptions == Spec => []SoundOptionsWork
<1>1. Workable => SoundOptionsWork
  BY DEF Workable
<1> QED
  BY <1>1, WorkableAtFirst, WorkableKept, PTL DEF Spec

-----------------------------------------------------------------------------
(* The first snapshot.                                                     *)

(* The date of the arrival that the sampling thread has not yet served.    *)
Unfinished ==
  CASE ~Arrived(Sampling) -> clock
    [] Arrived(Sampling) /\ phase[Sampling] = "asleep" -> due[Sampling]
    [] OTHER -> due[Sampling] - SampPeriod

(* A show thread has taken a snapshot.                                     *)
Taken(t) == phase[t] \in {"critical", "working"} \/ jobs[t] > 0

(* With a processor that no plotter takes from it, and no show thread that *)
(* holds the mutex before the first snapshot, the sampling thread is       *)
(* served as soon as it is due.                                            *)
Prompt ==
  /\ order # << >> /\ Cardinality(Plotters) < cpus /\ ReadTime <= SampPeriod
  /\ \A t \in Shows : ~Taken(t)
  => /\ phase[Sampling] = "asleep" /\ jobs[Sampling] > 0 => due[Sampling] >= clock
     /\ phase[Sampling] = "locking" => due[Sampling] = clock + SampPeriod
     /\ phase[Sampling] = "critical" => due[Sampling] >= clock + left[Sampling]

(* When a snapshot has been taken, the sampling thread has served all that *)
(* arrived while the buffer was filled.                                    *)
Filled ==
  /\ order # << >> /\ Cardinality(Plotters) < cpus /\ ReadTime <= SampPeriod
  /\ \E t \in Shows : Taken(t)
  => Unfinished >= started + FillingTime

(* While the threads are started and run, and when main is done with them. *)
LEMMA OrderedStage ==
  ASSUME BasicInv, order # << >>
  PROVE  /\ OptionsTypeOK /\ rate \in Rates /\ MaxX > 1 /\ Sorted
         /\ started \in Nat /\ clock \in Nat
         /\ Sampling \in Thread /\ Sampling \in AnyThread /\ Timely(Sampling)
         /\ SampPeriod \in Nat \ {0}
         /\ due[Sampling] \in Nat /\ jobs[Sampling] \in Nat /\ left[Sampling] \in Nat
         /\ phase[Sampling] \in {"none", "asleep", "locking", "critical"}
         /\ Period(Sampling) = SampPeriod /\ Delay(Sampling) = StartupDelay
         /\ StartupDelay \in Nat
<1>1. OptionsTypeOK /\ rate \in Rates /\ MaxX > 1 /\ Sorted
      /\ started \in Nat /\ clock \in Nat
  BY LaunchAssumption DEF BasicInv, Staged, TypeOK
<1>2. Sampling \in Thread /\ Sampling \in AnyThread
  BY <1>1, Members
<1>3. Timely(Sampling)
  BY <1>2 DEF BasicInv, Timed
<1>4. due[Sampling] \in Nat /\ jobs[Sampling] \in Nat /\ left[Sampling] \in Nat
      /\ phase[Sampling] \in {"none", "asleep", "locking", "critical", "working"}
  BY <1>2 DEF BasicInv, TypeOK
<1>5. phase[Sampling] # "working"
  BY <1>3 DEF Timely
<1> QED
  BY <1>1, <1>2, <1>3, <1>4, <1>5, Periods, Asked, LaunchAssumption

(* A step that moves no thread.                                            *)
Untouched ==
  /\ UNCHANGED <<opts, cpus, rate, order, started, clock>>
  /\ UNCHANGED <<phase, left, due, jobs, missed>>
  /\ stage' = stage \/ stage' \notin {"start", "run"}

(* What a step does once the threads are in order.                         *)
LEMMA OrderedSteps ==
  ASSUME BasicInv, [Next]_vars, order' # << >>
  PROVE  \/ StartPool /\ order = << >>
         \/ order # << >> /\ CreateThread
         \/ order # << >> /\ \E t \in AnyThread : Run(t)
         \/ order # << >> /\ Tick
         \/ order # << >> /\ Untouched
<1>1. CASE NoSoundCard \/ PlotRefused \/ PriorityRefused \/ TimeUp
             \/ \E t \in AnyThread : PlotOverrun(t)
  BY <1>1, MainSteps DEF MainOnly, Untouched, optionVars, threadVars
<1>2. CASE UNCHANGED vars
  BY <1>2 DEF vars, Untouched, optionVars, mainVars, threadVars
<1>3. CASE Parse
  <2>1. order' = order /\ verdict = "parsing"
    BY <1>3 DEF Parse, ParseStep, SetNumber, SetMinprio, MinprioTooHigh,
                SetShown, Unreadable, NothingToShow, Accept, Takes
  <2> QED
    BY <2>1 DEF BasicInv, Staged
<1>4. CASE OpenSoundCard
  BY <1>4 DEF OpenSoundCard, BasicInv, Staged
<1>5. CASE StartPool
  BY <1>5 DEF StartPool, BasicInv, Staged
<1>6. CASE CreateThread \/ Tick \/ \E t \in AnyThread : Run(t)
  BY <1>6, UnderWay DEF CreateThread, Tick, Run
<1> QED
  BY <1>1, <1>2, <1>3, <1>4, <1>5, <1>6 DEF Next

(* Nothing is undone of a snapshot that was taken.                         *)
LEMMA StillTaken ==
  ASSUME BasicInv, [Next]_vars, order' # << >>, NEW s \in Shows, Taken(s)
  PROVE  Taken(s)'
<1>1. OptionsTypeOK
  BY DEF BasicInv, TypeOK
<1>2. s \in Thread /\ s \in AnyThread /\ s # Sampling /\ s \notin Plotters
  BY <1>1, Members
<1>3. phase[s] \in {"none", "asleep", "locking", "critical", "working"}
      /\ jobs[s] \in Nat
  BY <1>2 DEF BasicInv, TypeOK
<1>4. CASE StartPool /\ order = << >>
  BY <1>2, <1>4 DEF BasicInv, InOrder, Fresh, Taken
<1>5. CASE CreateThread
  <2>1. /\ jobs' = jobs
        /\ phase'[s] = phase[s] \/ phase[s] = "none"
    BY <1>2, <1>5, Creates
  <2>2. Timely(s)
    BY <1>2 DEF BasicInv, Timed
  <2> QED
    BY <1>3, <2>1, <2>2 DEF Taken, Timely
<1>6. ASSUME NEW t \in AnyThread, Run(t) PROVE Taken(s)'
  <2>1. Others(t) /\ (Arrives(t) \/ Locks(t) \/ Unlocks(t) \/ Finishes(t))
    BY <1>6, Steps
  <2>2. CASE t # s
    BY <1>2, <2>1, <2>2 DEF Others, Taken
  <2>3. CASE t = s
    BY <1>2, <1>3, <2>1, <2>3
       DEF Taken, Arrives, Locks, Unlocks, Finishes, Became
  <2> QED
    BY <2>2, <2>3
<1>7. CASE Tick \/ Untouched
  BY <1>7 DEF Tick, Untouched, Taken
<1> QED
  BY <1>4, <1>5, <1>6, <1>7, OrderedSteps

(* Until the first snapshot the sampling thread stays in time.             *)
LEMMA PromptKept ==
  ASSUME BasicInv, Prompt, [Next]_vars
  PROVE  Prompt'
<1> DEFINE S == Sampling
<1> SUFFICES ASSUME order' # << >>, (Cardinality(Plotters) < cpus)',
                    (ReadTime <= SampPeriod)', \A t \in Shows' : ~Taken(t)'
             PROVE  /\ phase'[S] = "asleep" /\ jobs'[S] > 0 => due'[S] >= clock'
                    /\ phase'[S] = "locking" => due'[S] = clock' + SampPeriod'
                    /\ phase'[S] = "critical" => due'[S] >= clock' + left'[S]
  BY DEF Prompt
<1>1. CASE StartPool /\ order = << >>
  <2>1. Fresh(S) /\ phase' = phase
    BY <1>1, Kinds DEF StartPool, threadVars, BasicInv, InOrder
  <2> QED
    BY <2>1 DEF Fresh
<1>2. ASSUME order # << >>, UNCHANGED <<opts, cpus, rate, order>>
      PROVE  /\ Cardinality(Plotters) < cpus /\ ReadTime <= SampPeriod
             /\ SampPeriod' = SampPeriod
             /\ \A t \in Shows : ~Taken(t)
             /\ phase[S] = "asleep" /\ jobs[S] > 0 => due[S] >= clock
             /\ phase[S] = "locking" => due[S] = clock + SampPeriod
             /\ phase[S] = "critical" => due[S] >= clock + left[S]
  <2>1. Plotters' = Plotters /\ SampPeriod' = SampPeriod /\ Shows' = Shows
    BY <1>2, SameOptions
  <2>2. \A t \in Shows : ~Taken(t)
    BY <2>1, StillTaken
  <2> QED
    BY <1>2, <2>1, <2>2 DEF Prompt
<1>3. ASSUME order # << >>
      PROVE  /\ clock \in Nat /\ Timely(S) /\ SampPeriod \in Nat \ {0}
             /\ S \in Thread /\ S \in AnyThread
             /\ due[S] \in Nat /\ jobs[S] \in Nat /\ left[S] \in Nat
             /\ phase[S] \in {"none", "asleep", "locking", "critical"}
             /\ Period(S) = SampPeriod
  BY <1>3, OrderedStage
<1>4. CASE order # << >> /\ CreateThread
  <2>1. UNCHANGED <<opts, cpus, rate, order, clock, left, jobs>>
        /\ \/ phase'[S] = phase[S] /\ due'[S] = due[S]
           \/ phase[S] = "none" /\ phase'[S] = "asleep"
    BY <1>3, <1>4, Creates
  <2>2. phase[S] = "none" => jobs[S] = 0
    BY <1>3, <1>4 DEF Timely
  <2> QED
    BY <1>2, <1>3, <1>4, <2>1, <2>2
<1>5. ASSUME order # << >>, NEW t \in AnyThread, Run(t)
      PROVE  /\ phase'[S] = "asleep" /\ jobs'[S] > 0 => due'[S] >= clock'
             /\ phase'[S] = "locking" => due'[S] = clock' + SampPeriod'
             /\ phase'[S] = "critical" => due'[S] >= clock' + left'[S]
  <2>1. /\ UNCHANGED <<opts, cpus, rate, order, clock>>
        /\ Others(t)
        /\ Arrives(t) \/ Locks(t) \/ Unlocks(t) \/ Finishes(t)
    BY <1>5, Steps
  <2>2. CASE t # S
    BY <1>2, <1>3, <1>5, <2>1, <2>2 DEF Others
  <2>3. CASE t = S
    <3>1. S \notin Shows /\ S \notin Plotters
      BY <1>5, Members, OrderedStage
    <3>2. ReadTime \in Nat
      BY LaunchAssumption
    <3>3. CASE Arrives(S)
      BY <1>2, <1>3, <1>5, <2>1, <3>1, <3>3 DEF Arrives, Became
    <3>4. CASE Locks(S)
      BY <1>2, <1>3, <1>5, <2>1, <3>2, <3>4 DEF Locks, Became
    <3>5. CASE Finishes(S)
      BY <1>2, <1>3, <1>5, <2>1, <3>5 DEF Finishes, Became
    <3> QED
      BY <2>1, <2>3, <3>1, <3>3, <3>4, <3>5 DEF Unlocks
  <2> QED
    BY <2>2, <2>3
<1>6. CASE order # << >> /\ Tick
  <2>1. /\ UNCHANGED <<opts, cpus, rate, order, phase, due, jobs>>
        /\ clock' = clock + 1 /\ stage \in {"start", "run"}
        /\ \A t \in Running : left[t] > 0
        /\ left'[S] = IF S \in Running THEN left[S] - 1 ELSE left[S]
    BY <1>3, <1>6 DEF Tick, optionVars, mainVars
  <2>2. S \in Runnable => S \in Running
    BY <1>2, <1>6, <2>1, Scheduling
  <2>3. phase[S] \in {"asleep", "locking"} => S \notin Runnable
    BY <1>3, <1>6, <2>1, <2>2 DEF Timely
  <2>4. phase[S] = "asleep" => due[S] > clock
    BY <1>3, <1>6, <2>3 DEF Runnable
  <2>5. phase[S] # "locking"
    <3> SUFFICES ASSUME phase[S] = "locking" PROVE FALSE
      OBVIOUS
    <3>1. Held
      BY <1>3, <1>6, <2>3 DEF Runnable
    <3>2. PICK u \in AnyThread : phase[u] = "critical"
      BY <3>1 DEF Held
    <3>3. u \in Thread
      BY <3>2 DEF BasicInv, InOrder
    <3>4. u \notin Plotters
      BY <3>2, <3>3 DEF BasicInv, Timed, Timely
    <3>5. u \in Shows
      BY <1>6, <3>2, <3>3, <3>4, Members, OrderedStage
    <3> QED
      BY <1>2, <1>6, <2>1, <3>2, <3>5 DEF Taken
  <2>6. phase[S] = "critical" => S \in Running
    BY <1>3, <1>6, <2>2 DEF Runnable
  <2> QED
    BY <1>2, <1>3, <1>6, <2>1, <2>4, <2>5, <2>6
<1>7. CASE order # << >> /\ Untouched
  BY <1>2, <1>3, <1>7 DEF Untouched
<1> QED
  BY <1>1, <1>4, <1>5, <1>6, <1>7, OrderedSteps

(* What the sampling thread has done never becomes less.                   *)
LEMMA UnfinishedGrows ==
  ASSUME BasicInv, order # << >>,
         CreateThread \/ Tick \/ Untouched \/ \E t \in AnyThread : Run(t)
  PROVE  Unfinished \in Int /\ Unfinished' \in Int /\ Unfinished' >= Unfinished
<1> DEFINE S == Sampling
<1>1. /\ clock \in Nat /\ Timely(S) /\ SampPeriod \in Nat \ {0}
      /\ S \in Thread /\ S \in AnyThread
      /\ due[S] \in Nat /\ jobs[S] \in Nat /\ left[S] \in Nat
      /\ phase[S] \in {"none", "asleep", "locking", "critical"}
      /\ Period(S) = SampPeriod
  BY OrderedStage
<1>2. SampPeriod' = SampPeriod
  BY SameOptions DEF CreateThread, Tick, Untouched, Run, optionVars, mainVars
<1>3. Unfinished =
        IF phase[S] \in {"none", "asleep"} /\ jobs[S] = 0 THEN clock
        ELSE IF phase[S] = "asleep" THEN due[S]
        ELSE due[S] - SampPeriod
  BY <1>1 DEF Unfinished, Arrived, Timely
<1>4. ASSUME jobs'[S] \in Nat, phase'[S] # "none" \/ jobs'[S] = 0
      PROVE  Unfinished' =
               IF phase'[S] \in {"none", "asleep"} /\ jobs'[S] = 0 THEN clock'
               ELSE IF phase'[S] = "asleep" THEN due'[S]
               ELSE due'[S] - SampPeriod
  BY <1>2, <1>4 DEF Unfinished, Arrived
<1>5. CASE CreateThread
  <2>1. UNCHANGED <<clock, jobs>>
        /\ \/ phase'[S] = phase[S] /\ due'[S] = due[S]
           \/ phase[S] = "none" /\ phase'[S] = "asleep"
    BY <1>1, <1>5, Creates
  <2>2. phase[S] = "none" => jobs[S] = 0
    BY <1>1 DEF Timely
  <2> QED
    BY <1>1, <1>3, <1>4, <2>1, <2>2
<1>6. ASSUME NEW t \in AnyThread, Run(t)
      PROVE  /\ Unfinished \in Int /\ Unfinished' \in Int
             /\ Unfinished' >= Unfinished
  <2>1. /\ clock' = clock
        /\ Others(t)
        /\ Arrives(t) \/ Locks(t) \/ Unlocks(t) \/ Finishes(t)
    BY <1>6, Steps
  <2>2. CASE t # S
    BY <1>1, <1>3, <1>4, <2>1, <2>2 DEF Others, Timely
  <2>3. CASE t = S
    <3>1. S \notin Shows /\ S \notin Plotters
      BY Members, OrderedStage
    <3>2. CASE Arrives(S)
      BY <1>1, <1>3, <1>4, <2>1, <3>1, <3>2 DEF Arrives, Became
    <3>3. CASE Locks(S)
      BY <1>1, <1>3, <1>4, <2>1, <3>3 DEF Locks, Became
    <3>4. CASE Finishes(S)
      BY <1>1, <1>3, <1>4, <2>1, <3>4 DEF Finishes, Became
    <3> QED
      BY <2>1, <2>3, <3>1, <3>2, <3>3, <3>4 DEF Unlocks
  <2> QED
    BY <2>2, <2>3
<1>7. CASE Tick \/ Untouched
  <2>1. UNCHANGED <<phase, due, jobs>> /\ clock' \in {clock, clock + 1}
    BY <1>7 DEF Tick, Untouched
  <2> QED
    BY <1>1, <1>3, <1>4, <2>1 DEF Timely
<1> QED
  BY <1>5, <1>6, <1>7

(* The first snapshot is not taken before the buffer is filled.            *)
LEMMA FilledKept ==
  ASSUME BasicInv, Prompt, Filled, [Next]_vars
  PROVE  Filled'
<1> DEFINE S == Sampling
<1> SUFFICES ASSUME order' # << >>, (ReadTime <= SampPeriod)',
                    (Cardinality(Plotters) < cpus)',
                    \E t \in Shows' : Taken(t)'
             PROVE  Unfinished' >= started' + FillingTime'
  BY DEF Filled
<1>1. PICK s \in Shows' : Taken(s)'
  OBVIOUS
<1>2. CASE StartPool /\ order = << >>
  <2>1. s \in AnyThread /\ Fresh(s) /\ phase' = phase /\ jobs' = jobs
    <3>1. opts' = opts /\ rate' = rate /\ phase' = phase /\ jobs' = jobs
      BY <1>2 DEF StartPool, optionVars, threadVars
    <3>2. s \in Thread /\ OptionsTypeOK
      BY <1>1, <3>1, SameOptions, Members DEF BasicInv, TypeOK
    <3> QED
      BY <1>2, <3>1, <3>2, Members DEF BasicInv, InOrder
  <2> QED
    BY <1>1, <2>1 DEF Fresh, Taken
<1>3. CASE /\ order # << >>
           /\ CreateThread \/ Tick \/ Untouched \/ \E t \in AnyThread : Run(t)
  <2>1. UNCHANGED <<opts, cpus, rate, order, started>>
    BY <1>3 DEF CreateThread, Tick, Untouched, Run, optionVars, mainVars
  <2>2. /\ Plotters' = Plotters /\ SampPeriod' = SampPeriod /\ Shows' = Shows
        /\ FillingTime' = FillingTime
    BY <2>1, SameOptions
  <2>3. ReadTime <= SampPeriod /\ Cardinality(Plotters) < cpus
    BY <2>1, <2>2
  <2>4. /\ Unfinished \in Int /\ Unfinished' \in Int /\ Unfinished' >= Unfinished
        /\ started \in Nat /\ FillingTime \in Nat /\ clock \in Nat
    BY <1>3, UnfinishedGrows, OrderedStage, Periods
  <2>5. CASE \E t \in Shows : Taken(t)
    <3>1. Unfinished >= started + FillingTime
      BY <1>3, <2>3, <2>5 DEF Filled
    <3> QED
      BY <2>1, <2>2, <2>4, <3>1
  <2>6. CASE \A t \in Shows : ~Taken(t)
    <3>1. /\ s \in Thread /\ s \in AnyThread /\ s # S /\ ~Taken(s) /\ S \in Thread
          /\ OptionsTypeOK /\ rate \in Rates /\ MaxX > 1 /\ Sorted
      BY <1>1, <1>3, <2>2, <2>6, Members, OrderedStage
    <3>2. PICK t \in AnyThread : Run(t)
      <4>1. CASE CreateThread
        <5>1. /\ jobs' = jobs
              /\ phase'[s] = phase[s] \/ phase'[s] = "asleep"
          BY <3>1, <4>1, Creates
        <5> QED
          BY <1>1, <3>1, <5>1 DEF Taken
      <4>2. CASE Tick \/ Untouched
        BY <1>1, <3>1, <4>2 DEF Taken, Tick, Untouched
      <4> QED
        BY <1>3, <4>1, <4>2
    <3>3. /\ stage \in {"start", "run"} /\ t \in Running
          /\ Others(t)
          /\ Arrives(t) \/ Locks(t) \/ Unlocks(t) \/ Finishes(t)
      BY <3>2, Steps
    <3>4. t = s
      BY <1>1, <3>1, <3>3 DEF Others, Taken
    <3>5. Locks(s)
      <4>1. s \notin Plotters /\ jobs[s] \in Nat
        BY <1>1, <2>2, <3>1, Members DEF BasicInv, TypeOK
      <4> QED
        BY <1>1, <3>1, <3>3, <3>4, <4>1
           DEF Arrives, Unlocks, Finishes, Became, Taken
    <3>6. clock >= started + FillingTime
      <4>1. Timely(s) /\ Delay(s) = FillingTime
        BY <1>1, <2>2, <3>1, Asked DEF BasicInv, Timed
      <4> QED
        BY <3>5, <4>1 DEF Locks, Became, Timely, Arrived
    <3>7. /\ Timely(S) /\ SampPeriod \in Nat \ {0}
          /\ due[S] \in Nat /\ jobs[S] \in Nat /\ left[S] \in Nat
          /\ phase[S] \in {"none", "asleep", "locking", "critical"}
      BY <1>3, OrderedStage
    <3>8. Unfinished =
            IF phase[S] \in {"none", "asleep"} /\ jobs[S] = 0 THEN clock
            ELSE IF phase[S] = "asleep" THEN due[S]
            ELSE due[S] - SampPeriod
      BY <3>7 DEF Unfinished, Arrived, Timely
    <3>9. phase[S] # "critical"
      BY <3>1, <3>5, Members DEF Locks, Held
    <3>10. Unfinished >= clock
      <4>1. /\ phase[S] = "asleep" /\ jobs[S] > 0 => due[S] >= clock
            /\ phase[S] = "locking" => due[S] = clock + SampPeriod
        BY <1>3, <2>3, <2>6 DEF Prompt
      <4>2. phase[S] = "none" => jobs[S] = 0
        BY <3>7 DEF Timely
      <4> QED
        BY <2>4, <3>7, <3>8, <3>9, <4>1, <4>2
    <3> QED
      BY <2>1, <2>2, <2>4, <3>6, <3>10
  <2> QED
    BY <2>5, <2>6
<1> QED
  BY <1>2, <1>3, OrderedSteps

(* The arrivals of the sampling thread so far.                             *)
Begun ==
  IF phase[Sampling] = "asleep" THEN jobs[Sampling] ELSE jobs[Sampling] + 1

(* With a processor that no plotter takes from them, main starts all the   *)
(* threads at once and the sampling thread is activated when its delay is  *)
(* over, and then one period after another.                                *)
Regular ==
  order # << >> /\ Cardinality(Plotters) < cpus
  => /\ stage = "start" => clock = started
     /\ ~Arrived(Sampling) => clock <= started + StartupDelay
     /\ Arrived(Sampling) =>
          due[Sampling] = started + StartupDelay + Begun * SampPeriod

(* While the clock is where main found it only plotters can run.           *)
LEMMA OnlyPlotters ==
  ASSUME BasicInv, order # << >>, clock = started
  PROVE  Runnable \subseteq Plotters
<1> SUFFICES ASSUME NEW t \in Runnable, t \notin Plotters PROVE FALSE
  OBVIOUS
<1>1. /\ OptionsTypeOK /\ rate \in Rates /\ MaxX > 1
      /\ started \in Nat /\ clock \in Nat
  BY OrderedStage
<1>2. t \in Thread /\ t \in AnyThread /\ t \in {Sampling} \cup Shows
  BY <1>1, Members DEF Runnable
<1>3. Delay(t) \in Nat \ {0}
  BY <1>1, <1>2, Asked, Periods
<1>4. Timely(t)
  BY <1>2 DEF BasicInv, Timed
<1>5. due[t] \in Nat /\ jobs[t] \in Nat
  BY <1>2 DEF BasicInv, TypeOK
<1>6. ~Arrived(t)
  BY <1>1, <1>3, <1>4 DEF Timely
<1>7. phase[t] \in {"none", "asleep"} /\ jobs[t] = 0
  BY <1>5, <1>6 DEF Arrived
<1>8. phase[t] = "asleep" => due[t] > clock
  BY <1>1, <1>3, <1>4, <1>5, <1>7 DEF Timely
<1> QED
  BY <1>1, <1>5, <1>7, <1>8 DEF Runnable

(* The clock stays while main starts the threads.                          *)
LEMMA StartsAtOnce ==
  ASSUME BasicInv, order # << >>, Cardinality(Plotters) < cpus, Tick,
         stage = "start" => clock = started
  PROVE  stage = "run"
<1> SUFFICES ASSUME stage = "start" PROVE FALSE
  BY DEF Tick
<1>1. Runnable \subseteq Plotters /\ OptionsTypeOK
  BY OnlyPlotters, OrderedStage
<1>2. /\ IsFiniteSet(Plotters) /\ Cardinality(Plotters) \in Nat
      /\ Cardinality(Runnable) \in Nat
      /\ Cardinality(Runnable) <= Cardinality(Plotters)
  BY <1>1, Counts, FS_Subset, FS_CardinalityType
<1>3. cpus \in Nat
  BY LaunchAssumption DEF BasicInv, TypeOK
<1>4. MainRuns
  BY <1>2, <1>3 DEF MainRuns
<1> QED
  BY <1>4 DEF Tick

LEMMA RegularKept ==
  ASSUME BasicInv, Regular, [Next]_vars
  PROVE  Regular'
<1> DEFINE S == Sampling
           arrived == phase[S] \notin {"none", "asleep"} \/ jobs[S] > 0
           begun == IF phase[S] = "asleep" THEN jobs[S] ELSE jobs[S] + 1
<1> SUFFICES ASSUME order' # << >>, (Cardinality(Plotters) < cpus)'
             PROVE  /\ stage' = "start" => clock' = started'
                    /\ ~arrived' => clock' <= started' + StartupDelay
                    /\ arrived' =>
                         due'[S] = started' + StartupDelay + begun' * SampPeriod'
  BY DEF Regular, Arrived, Begun
<1>1. CASE StartPool /\ order = << >>
  <2>1. Fresh(S) /\ phase' = phase /\ jobs' = jobs
    BY <1>1, Kinds DEF StartPool, threadVars, BasicInv, InOrder
  <2>2. clock' = clock /\ started' = clock
    BY <1>1 DEF StartPool
  <2>3. clock \in Nat /\ StartupDelay \in Nat
    BY LaunchAssumption DEF BasicInv, TypeOK
  <2> QED
    BY <2>1, <2>2, <2>3 DEF Fresh
<1>2. ASSUME order # << >>, UNCHANGED <<opts, cpus, rate, order>>
      PROVE  /\ Cardinality(Plotters) < cpus
             /\ SampPeriod' = SampPeriod
             /\ stage = "start" => clock = started
             /\ ~arrived => clock <= started + StartupDelay
             /\ arrived => due[S] = started + StartupDelay + begun * SampPeriod
  <2>1. Plotters' = Plotters /\ SampPeriod' = SampPeriod
    BY <1>2, SameOptions
  <2> QED
    BY <1>2, <2>1 DEF Regular, Arrived, Begun
<1>3. ASSUME order # << >>
      PROVE  /\ clock \in Nat /\ started \in Nat /\ StartupDelay \in Nat
             /\ Timely(S) /\ SampPeriod \in Nat \ {0}
             /\ S \in Thread /\ S \in AnyThread
             /\ due[S] \in Nat /\ jobs[S] \in Nat
             /\ phase[S] \in {"none", "asleep", "locking", "critical"}
             /\ Period(S) = SampPeriod /\ Delay(S) = StartupDelay
  BY <1>3, OrderedStage
<1>4. CASE order # << >> /\ CreateThread
  <2>1. /\ UNCHANGED <<opts, cpus, rate, order, clock, started, left, jobs>>
        /\ stage = "start"
        /\ \/ phase'[S] = phase[S] /\ due'[S] = due[S]
           \/ phase[S] = "none" /\ phase'[S] = "asleep"
    BY <1>3, <1>4, Creates DEF CreateThread
  <2>2. phase[S] = "none" => jobs[S] = 0
    BY <1>3, <1>4 DEF Timely
  <2>3. /\ SampPeriod' = SampPeriod /\ clock = started
        /\ arrived => due[S] = started + StartupDelay + begun * SampPeriod
    BY <1>2, <1>4, <2>1
  <2> QED
    BY <1>3, <1>4, <2>1, <2>2, <2>3
<1>5. ASSUME order # << >>, NEW t \in AnyThread, Run(t)
      PROVE  /\ stage' = "start" => clock' = started'
             /\ ~arrived' => clock' <= started' + StartupDelay
             /\ arrived' =>
                  due'[S] = started' + StartupDelay + begun' * SampPeriod'
  <2>1. /\ UNCHANGED <<opts, cpus, rate, order, clock, started, stage>>
        /\ Others(t)
        /\ stage \in {"start", "run"} /\ t \in Running
        /\ Arrives(t) \/ Locks(t) \/ Unlocks(t) \/ Finishes(t)
    BY <1>5, Steps
  <2>2. /\ SampPeriod' = SampPeriod
        /\ stage = "start" => clock = started
        /\ ~arrived => clock <= started + StartupDelay
        /\ arrived => due[S] = started + StartupDelay + begun * SampPeriod
    BY <1>2, <1>5, <2>1
  <2>3. CASE t # S
    BY <1>3, <1>5, <2>1, <2>2, <2>3 DEF Others
  <2>4. CASE t = S
    <3>1. S \notin Shows /\ S \notin Plotters
      BY <1>5, Members, OrderedStage
    <3>2. CASE Arrives(S)
      <4>1. /\ phase[S] = "asleep" /\ phase'[S] = "locking" /\ jobs'[S] = jobs[S]
            /\ clock >= due[S]
        BY <1>3, <1>5, <2>1, <3>1, <3>2 DEF Arrives, Became
      <4>2. (1 + jobs[S]) * SampPeriod = SampPeriod + jobs[S] * SampPeriod
            /\ jobs[S] * SampPeriod \in Nat /\ 1 + jobs[S] = jobs[S] + 1
        BY <1>3, <1>5, Products
      <4>3. CASE jobs[S] = 0
        <5>1. due[S] = started + StartupDelay
          BY <1>3, <1>5, <4>1, <4>3 DEF Timely
        <5>2. clock = started + StartupDelay
          BY <1>3, <1>5, <2>2, <4>1, <4>3, <5>1
        <5>3. due'[S] = clock + SampPeriod
          BY <1>3, <1>5, <3>2, <5>1, <5>2 DEF Arrives
        <5>4. jobs[S] * SampPeriod = 0
          BY <1>3, <1>5, <4>3
        <5> QED
          BY <1>3, <1>5, <2>1, <2>2, <4>1, <4>2, <5>2, <5>3, <5>4
      <4>4. CASE jobs[S] > 0
        <5>1. due[S] = started + StartupDelay + jobs[S] * SampPeriod
          BY <2>2, <4>1, <4>4
        <5>2. due'[S] = due[S] + SampPeriod
          BY <1>3, <1>5, <3>2, <4>4 DEF Arrives
        <5> QED
          BY <1>3, <1>5, <2>1, <2>2, <4>1, <4>2, <5>1, <5>2
      <4> QED
        BY <1>3, <1>5, <4>3, <4>4
    <3>3. CASE Locks(S)
      BY <1>3, <1>5, <2>1, <2>2, <3>3 DEF Locks, Became
    <3>4. CASE Finishes(S)
      BY <1>3, <1>5, <2>1, <2>2, <3>1, <3>4 DEF Finishes, Became
    <3> QED
      BY <2>1, <2>4, <3>1, <3>2, <3>3, <3>4 DEF Unlocks
  <2> QED
    BY <2>3, <2>4
<1>6. CASE order # << >> /\ Tick
  <2>1. /\ UNCHANGED <<opts, cpus, rate, order, phase, due, jobs, started, stage>>
        /\ clock' = clock + 1 /\ stage \in {"start", "run"}
        /\ \A t \in Running : left[t] > 0
    BY <1>3, <1>6 DEF Tick, optionVars, mainVars
  <2>2. /\ Cardinality(Plotters) < cpus
        /\ SampPeriod' = SampPeriod
        /\ stage = "start" => clock = started
        /\ ~arrived => clock <= started + StartupDelay
        /\ arrived => due[S] = started + StartupDelay + begun * SampPeriod
    BY <1>2, <1>6, <2>1
  <2>3. stage = "run"
    BY <1>6, <2>2, StartsAtOnce
  <2>4. ASSUME ~arrived PROVE clock < started + StartupDelay
    <3>1. phase[S] = "asleep" /\ jobs[S] = 0
      BY <1>3, <1>6, <2>3, <2>4, AllCreated
    <3>2. due[S] = started + StartupDelay
      BY <1>3, <1>6, <3>1 DEF Timely
    <3>3. S \notin Runnable
      <4>1. left[S] = 0
        BY <1>3, <1>6, <3>1 DEF Timely
      <4> QED
        BY <2>1, <2>2, <4>1, Scheduling
    <3> QED
      BY <1>3, <1>6, <3>1, <3>2, <3>3 DEF Runnable
  <2> QED
    BY <1>3, <1>6, <2>1, <2>2, <2>3, <2>4
<1>7. CASE order # << >> /\ Untouched
  <2>1. /\ SampPeriod' = SampPeriod
        /\ stage = "start" => clock = started
        /\ ~arrived => clock <= started + StartupDelay
        /\ arrived => due[S] = started + StartupDelay + begun * SampPeriod
    BY <1>2, <1>7 DEF Untouched
  <2> QED
    BY <1>7, <2>1 DEF Untouched
<1> QED
  BY <1>1, <1>4, <1>5, <1>6, <1>7, OrderedSteps

Filling == BasicInv /\ Prompt /\ Filled /\ Regular

(* When a show thread takes its first snapshot, every slot of the buffer   *)
(* has been through a job of the sampling thread, if the plotters leave it *)
(* a processor: for all the options, the wrapped scales included.          *)
THEOREM LaunchBufferFilled == Spec => []BufferFilled
<1>1. Init => Filling
  BY AtFirst DEF Init, Filling, Prompt, Filled, Regular
<1>2. Filling /\ [Next]_vars => Filling'
  BY BasicKept, PromptKept, FilledKept, RegularKept DEF Filling
<1>3. Filling => BufferFilled
  <2> DEFINE S == Sampling
             scale == opts.buffer_scale
  <2> SUFFICES ASSUME Filling, NEW t \in Shows,
                      phase[t] \in {"critical", "working"} \/ jobs[t] > 0,
                      ReadTime <= SampPeriod, cpus > Cardinality(Plotters)
               PROVE  jobs[S] >= scale
    BY DEF BufferFilled
  <2>1. order # << >>
    <3> SUFFICES ASSUME order = << >> PROVE FALSE
      OBVIOUS
    <3>1. t \in AnyThread
      BY Members DEF Filling, BasicInv, TypeOK
    <3> QED
      BY <3>1 DEF Filling, BasicInv, InOrder, Fresh
  <2>2. /\ Timely(S) /\ SampPeriod \in Nat \ {0} /\ StartupDelay \in Nat
        /\ due[S] \in Nat /\ jobs[S] \in Nat /\ clock \in Nat /\ started \in Nat
        /\ phase[S] \in {"none", "asleep", "locking", "critical"}
        /\ OptionsTypeOK /\ rate \in Rates /\ MaxX > 1
    BY <2>1, OrderedStage DEF Filling
  <2>3. Cardinality(Plotters) < cpus
    <3>1. Cardinality(Plotters) \in Nat /\ cpus \in Nat
      BY <2>2, Counts, FS_CardinalityType, LaunchAssumption
         DEF Filling, BasicInv, TypeOK
    <3> QED
      BY <3>1
  <2>4. Unfinished >= started + FillingTime
    BY <2>1, <2>3 DEF Filling, Filled, Taken
  <2> DEFINE fill == scale * SampPeriod
             done == jobs[S] * SampPeriod
  <2>5. /\ fill \in Nat /\ done \in Nat /\ scale \in Nat /\ fill > 0
        /\ FillingTime \in Nat /\ FillingTime >= StartupDelay + fill
        /\ (1 + jobs[S]) * SampPeriod = SampPeriod + done
        /\ 1 + jobs[S] = jobs[S] + 1
    BY <2>2, Periods, Products
  <2>6. /\ ~Arrived(S) => clock <= started + StartupDelay
        /\ Arrived(S) => due[S] = started + StartupDelay + Begun * SampPeriod
    BY <2>1, <2>3 DEF Filling, Regular
  <2>7. Begun * SampPeriod =
          IF phase[S] = "asleep" THEN done ELSE SampPeriod + done
    BY <2>2, <2>5 DEF Begun
  <2>8. Arrived(S)
    BY <2>2, <2>4, <2>5, <2>6 DEF Unfinished
  <2>9. done >= fill
    <3> HIDE DEF done, fill
    <3> QED
      BY <2>2, <2>4, <2>5, <2>6, <2>7, <2>8 DEF Unfinished
  <2>10. ASSUME jobs[S] < scale PROVE FALSE
    <3>1. (1 + jobs[S]) * SampPeriod <= fill
      BY <2>2, <2>5, <2>10, Products
    <3> QED
      BY <2>2, <2>5, <2>9, <3>1
  <2> QED
    BY <2>2, <2>5, <2>10
<1> QED
  BY <1>1, <1>2, <1>3, PTL DEF Spec

-----------------------------------------------------------------------------
(* The response of the sampling thread, on one processor.                  *)

(* A plotter delays the sampling thread when it outranks it, or when it    *)
(* outranks the show thread that holds the mutex.                          *)
Interferes(p) ==
  \/ MoreUrgent(p, Sampling)
  \/ \E s \in Shows : phase[s] = "critical" /\ MoreUrgent(p, s)

Interference(d, end) ==
  IF d \in opts.show /\ Interferes(Plotter(d)) THEN Owed(Plotter(d), end) ELSE 0

(* What is left of the copy that holds the mutex.                          *)
Blocking(d) ==
  IF d \in opts.show /\ phase[Show(d)] = "critical" THEN left[Show(d)] ELSE 0

(* All the ticks that may pass before the sampling thread is done with its *)
(* jobs up to a date.                                                      *)
Ahead(end) ==
  Owed(Sampling, end)
    + (Interference("spectrum", end) + Interference("signal", end))
    + (Blocking("spectrum") + Blocking("signal"))

(* A show thread above the one that holds the mutex is not at work.        *)
NoOvertaking ==
  cpus = 1 /\ order # << >> =>
    \A s, u \in Shows :
      phase[s] = "critical" /\ MoreUrgent(u, s) => phase[u] # "working"

(* There is a date, the deadline of the sampling thread at the latest,     *)
(* until which what is ahead of it leaves a tick to spare.                 *)
Response ==
  /\ stage \in {"start", "run"} /\ cpus = 1 /\ Affordable
  /\ phase[Sampling] # "none"
  => \E end \in clock + 1 .. clock + SampPeriod + 1 :
       /\ IF phase[Sampling] = "asleep"
            THEN end <= Release(Sampling) + SampPeriod
            ELSE end <= due[Sampling]
       /\ Ahead(end) <= end - 1 - clock

(* What is ahead is a number of ticks.                                     *)
LEMMA AheadTyped ==
  ASSUME BasicInv, order # << >>, NEW end \in Nat
  PROVE  /\ \A d : Interference(d, end) \in Nat /\ Blocking(d) \in Nat
         /\ Ahead(end) \in Nat
<1>1. OptionsTypeOK
  BY DEF BasicInv, TypeOK
<1>2. ASSUME NEW d PROVE Interference(d, end) \in Nat /\ Blocking(d) \in Nat
  <2>1. CASE d \in opts.show
    <3>1. /\ Plotter(d) \in Thread /\ Show(d) \in Thread
          /\ Show(d) \in AnyThread
      BY <1>1, <2>1, Members
    <3>2. Owed(Plotter(d), end) \in Nat /\ left[Show(d)] \in Nat
      BY <3>1, OwedTyped DEF BasicInv, TypeOK
    <3> QED
      BY <3>2 DEF Interference, Blocking
  <2>2. CASE d \notin opts.show
    BY <2>2 DEF Interference, Blocking
  <2> QED
    BY <2>1, <2>2
<1>3. Owed(Sampling, end) \in Nat
  BY LoadTyped
<1>4. /\ Interference("spectrum", end) \in Nat /\ Interference("signal", end) \in Nat
      /\ Blocking("spectrum") \in Nat /\ Blocking("signal") \in Nat
  BY <1>2
<1> QED
  BY <1>2, <1>3, <1>4 DEF Ahead

(* As long as no show thread takes the mutex, what is ahead of the end of  *)
(* the sampling thread's job does not grow, and whatever work is done of   *)
(* it makes it less.                                                       *)
LEMMA AheadShrinks ==
  ASSUME BasicInv, order # << >>, opts' = opts, rate' = rate, order' = order,
         NEW end \in Nat,
         \A u \in Thread : Owed(u, end)' \in Nat /\ Owed(u, end)' <= Owed(u, end),
         \A s \in Shows : phase'[s] = "critical" =>
           phase[s] = "critical" /\ left'[s] \in Nat /\ left'[s] <= left[s]
  PROVE  /\ Ahead(end)' \in Nat
         /\ Ahead(end)' <= Ahead(end)
         /\ Owed(Sampling, end)' <= Owed(Sampling, end) - 1
              => Ahead(end)' <= Ahead(end) - 1
         /\ (\E p \in Plotters : Interferes(p) /\ Owed(p, end)' <= Owed(p, end) - 1)
              => Ahead(end)' <= Ahead(end) - 1
         /\ (\E s \in Shows : /\ phase[s] = "critical" /\ left[s] > 0
                                /\ left'[s] \in Nat /\ left'[s] <= left[s] - 1)
              => Ahead(end)' <= Ahead(end) - 1
<1>1. /\ OptionsTypeOK /\ opts.show \subseteq {"spectrum", "signal"}
      /\ Sampling \in Thread /\ Shows' = Shows
      /\ \A t, u : MoreUrgent(t, u)' = MoreUrgent(t, u)
  BY Members, Frozen DEF BasicInv, TypeOK, OptionsTypeOK, Displays
<1>2. \A p : Interferes(p)' => Interferes(p)
  BY <1>1 DEF Interferes
<1>3. /\ \A d : Interference(d, end) \in Nat /\ Blocking(d) \in Nat
      /\ Ahead(end) \in Nat
  BY AheadTyped
<1>4. ASSUME NEW d
      PROVE  /\ Interference(d, end)' \in Nat
             /\ Interference(d, end)' <= Interference(d, end)
             /\ d \in opts.show /\ Interferes(Plotter(d))
                  /\ Owed(Plotter(d), end)' <= Owed(Plotter(d), end) - 1
                => Interference(d, end)' <= Interference(d, end) - 1
  <2>1. CASE d \in opts.show
    <3>1. Plotter(d) \in Thread
      BY <1>1, <2>1, Members
    <3>2. /\ Owed(Plotter(d), end) \in Nat /\ Owed(Plotter(d), end)' \in Nat
          /\ Owed(Plotter(d), end)' <= Owed(Plotter(d), end)
      BY <3>1, OwedTyped
    <3>3. /\ Interference(d, end) =
               IF Interferes(Plotter(d)) THEN Owed(Plotter(d), end) ELSE 0
          /\ Interference(d, end)' =
               IF Interferes(Plotter(d))' THEN Owed(Plotter(d), end)' ELSE 0
      BY <2>1 DEF Interference
    <3>4. CASE Interferes(Plotter(d))
      <4>1. Owed(Plotter(d), end)' <= Owed(Plotter(d), end) - 1
              => 0 <= Owed(Plotter(d), end) - 1
        BY <3>2
      <4> QED
        BY <3>2, <3>3, <3>4, <4>1
    <3>5. CASE ~Interferes(Plotter(d))
      BY <1>2, <3>2, <3>3, <3>5
    <3> QED
      BY <3>4, <3>5
  <2>2. CASE d \notin opts.show
    BY <2>2 DEF Interference
  <2> QED
    BY <2>1, <2>2
<1>5. ASSUME NEW d
      PROVE  /\ Blocking(d)' \in Nat
             /\ Blocking(d)' <= Blocking(d)
             /\ d \in opts.show /\ phase[Show(d)] = "critical"
                  /\ left[Show(d)] > 0 /\ left'[Show(d)] \in Nat
                  /\ left'[Show(d)] <= left[Show(d)] - 1
                => Blocking(d)' <= Blocking(d) - 1
  <2>1. CASE d \in opts.show
    <3>1. Show(d) \in Shows /\ Show(d) \in AnyThread
      BY <1>1, <2>1, Members
    <3>2. left[Show(d)] \in Nat
      BY <3>1 DEF BasicInv, TypeOK
    <3> QED
      BY <2>1, <3>1, <3>2 DEF Blocking
  <2>2. CASE d \notin opts.show
    BY <2>2 DEF Blocking
  <2> QED
    BY <2>1, <2>2
<1> DEFINE a == Interference("spectrum", end)
           b == Interference("signal", end)
           x == Blocking("spectrum")
           y == Blocking("signal")
           aa == Interference("spectrum", end)'
           bb == Interference("signal", end)'
           xx == Blocking("spectrum")'
           yy == Blocking("signal")'
<1>6. /\ a \in Nat /\ aa \in Nat /\ aa <= a /\ b \in Nat /\ bb \in Nat /\ bb <= b
      /\ x \in Nat /\ xx \in Nat /\ xx <= x /\ y \in Nat /\ yy \in Nat /\ yy <= y
  BY <1>3, <1>4, <1>5
<1>7. /\ Ahead(end) = Owed(Sampling, end) + (a + b) + (x + y)
      /\ Ahead(end)' = Owed(Sampling, end)' + (aa + bb) + (xx + yy)
  BY DEF Ahead
<1>8. ASSUME NEW p \in Plotters, Interferes(p),
             Owed(p, end)' <= Owed(p, end) - 1
      PROVE  aa <= a - 1 \/ bb <= b - 1
  <2>1. PICK d \in opts.show : p = Plotter(d)
    BY DEF Plotters
  <2>2. Interference(d, end)' <= Interference(d, end) - 1
    BY <1>4, <1>8, <2>1
  <2> QED
    BY <1>1, <2>1, <2>2
<1>9. ASSUME NEW s \in Shows, phase[s] = "critical", left[s] > 0,
             left'[s] \in Nat, left'[s] <= left[s] - 1
      PROVE  xx <= x - 1 \/ yy <= y - 1
  <2>1. PICK d \in opts.show : s = Show(d)
    BY DEF Shows
  <2>2. Blocking(d)' <= Blocking(d) - 1
    BY <1>5, <1>9, <2>1
  <2> QED
    BY <1>1, <2>1, <2>2
<1>10. /\ Owed(Sampling, end) \in Nat /\ Owed(Sampling, end)' \in Nat
       /\ Owed(Sampling, end)' <= Owed(Sampling, end)
  BY <1>1, OwedTyped
<1> DEFINE o == Owed(Sampling, end)
           oo == Owed(Sampling, end)'
<1>11. o \in Nat /\ oo \in Nat /\ oo <= o
  BY <1>10
<1>12. Ahead(end) = o + (a + b) + (x + y) /\ Ahead(end)' = oo + (aa + bb) + (xx + yy)
  BY <1>7
<1> HIDE DEF a, b, x, y, aa, bb, xx, yy, o, oo
<1> DEFINE i == a + b
           ii == aa + bb
           k == x + y
           kk == xx + yy
<1>13. /\ i \in Nat /\ ii \in Nat /\ ii <= i
       /\ aa <= a - 1 \/ bb <= b - 1 => ii <= i - 1
  BY <1>6
<1>14. /\ k \in Nat /\ kk \in Nat /\ kk <= k
       /\ xx <= x - 1 \/ yy <= y - 1 => kk <= k - 1
  BY <1>6
<1>15. Ahead(end) = o + i + k /\ Ahead(end)' = oo + ii + kk
  BY <1>12
<1> HIDE DEF i, ii, k, kk
<1>16. Ahead(end)' \in Nat /\ Ahead(end)' <= Ahead(end)
  BY <1>11, <1>13, <1>14, <1>15
<1>17. oo <= o - 1 \/ ii <= i - 1 \/ kk <= k - 1 => Ahead(end)' <= Ahead(end) - 1
  BY <1>11, <1>13, <1>14, <1>15
<1> QED
  BY <1>8, <1>9, <1>13, <1>14, <1>16, <1>17 DEF o, oo

(* When nothing that matters to the sampling thread is on its way, its     *)
(* next job will be done within a period.                                  *)
Calm(end) ==
  /\ BasicInv /\ order # << >>
  /\ Rest(Sampling) = 0 /\ end <= Release(Sampling) + SampPeriod
  /\ \A p \in Plotters : Interferes(p) =>
       Rest(p) = 0 /\ end <= Release(p) + SampPeriod + 1

Redraws == Cardinality(Plotters) * (SampPeriod \div PlotPeriod + 1) * DrawTime

Calmed ==
  \A end \in Nat : Calm(end) =>
    /\ Ahead(end) \in Nat /\ Redraws \in Nat
    /\ Blocking("spectrum") \in Nat /\ Blocking("signal") \in Nat
    /\ Ahead(end) <=
         ReadTime + Redraws + (Blocking("spectrum") + Blocking("signal"))

LEMMA Calms == Calmed
<1> SUFFICES ASSUME NEW end \in Nat, Calm(end)
             PROVE  /\ Ahead(end) \in Nat /\ Redraws \in Nat
                    /\ Blocking("spectrum") \in Nat /\ Blocking("signal") \in Nat
                    /\ Ahead(end) <=
                         ReadTime + Redraws
                           + (Blocking("spectrum") + Blocking("signal"))
  BY DEF Calmed
<1>1. BasicInv /\ order # << >>
  BY DEF Calm
<1>2. /\ OptionsTypeOK /\ rate \in Rates /\ MaxX > 1
      /\ Sampling \in Thread /\ SampPeriod \in Nat \ {0}
      /\ PlotPeriod \in Nat \ {0}
      /\ ReadTime \in Nat /\ DrawTime \in Nat
  BY <1>1, OrderedStage, LaunchAssumption
<1> DEFINE k == SampPeriod \div PlotPeriod + 1
           w == k * DrawTime
<1>3. k \in Nat /\ w \in Nat
  <2>1. k \in Nat
    BY <1>2
  <2> HIDE DEF k
  <2> QED
    BY <1>2, <2>1, Products
<1>4. Owed(Sampling, end) \in Nat /\ Owed(Sampling, end) <= ReadTime
  <2> DEFINE n == Until(Sampling, end)
  <2>1. Release(Sampling) \in Nat /\ n \in Nat /\ Owed(Sampling, end) \in Nat
    BY <1>1, <1>2, OwedTyped
  <2>2. Period(Sampling) = SampPeriod /\ Work(Sampling) = ReadTime
    BY <1>2, Asked, Works
  <2>3. n = 0 \/ n = 1
    <3>1. CASE end <= Release(Sampling)
      BY <3>1 DEF Until
    <3>2. CASE ~(end <= Release(Sampling))
      <4>1. end - Release(Sampling) \in 1 .. SampPeriod
        BY <1>2, <2>1, <3>2 DEF Calm
      <4> QED
        BY <1>2, <2>2, <3>2, <4>1, AtMostOne DEF Until
    <3> QED
      BY <3>1, <3>2
  <2>4. Owed(Sampling, end) = n * ReadTime
    BY <1>2, <2>1, <2>2, Products DEF Owed, Calm
  <2> HIDE DEF n
  <2> QED
    BY <1>2, <2>1, <2>3, <2>4
<1>5. ASSUME NEW d
      PROVE  /\ Interference(d, end) \in Nat /\ Blocking(d) \in Nat
             /\ Interference(d, end) <= IF d \in opts.show THEN w ELSE 0
  <2>1. CASE d \in opts.show /\ Interferes(Plotter(d))
    <3> DEFINE p == Plotter(d)
               n == Until(p, end)
    <3>1. p \in Thread /\ p \in Plotters
      BY <1>2, <2>1, Members
    <3>2. Period(p) = PlotPeriod /\ Work(p) = DrawTime
      BY <1>2, <3>1, Asked, Works
    <3>3. Release(p) \in Nat /\ n \in Nat /\ Owed(p, end) \in Nat
      BY <1>1, <3>1, OwedTyped
    <3>4. Rest(p) = 0 /\ end <= Release(p) + SampPeriod + 1
      BY <2>1, <3>1 DEF Calm
    <3>5. n <= k
      <4>1. CASE end <= Release(p)
        BY <1>3, <4>1 DEF Until
      <4>2. CASE ~(end <= Release(p))
        <5>1. end - Release(p) \in Nat /\ end - Release(p) <= SampPeriod + 1
          BY <1>2, <3>3, <3>4, <4>2
        <5>2. n = Arrivals(end - Release(p), PlotPeriod)
          BY <3>2, <4>2 DEF Until
        <5>3. Arrivals(SampPeriod + 1, PlotPeriod) <= k
          BY <1>2, OneTickLonger
        <5>4. n <= Arrivals(SampPeriod + 1, PlotPeriod)
          BY <1>2, <5>1, <5>2, LongerInterval
        <5>5. Arrivals(SampPeriod + 1, PlotPeriod) \in Nat
          BY <1>2, ArrivalsNat
        <5> HIDE DEF n, k
        <5> QED
          BY <1>3, <3>3, <5>3, <5>4, <5>5
      <4> QED
        BY <4>1, <4>2
    <3>6. Owed(p, end) = n * DrawTime
      BY <1>2, <3>2, <3>3, <3>4, Products DEF Owed
    <3>7. n * DrawTime <= k * DrawTime
      <4> HIDE DEF n, k
      <4> QED
        BY <1>2, <1>3, <3>3, <3>5, Products
    <3>8. Interference(d, end) = Owed(p, end)
      BY <2>1 DEF Interference
    <3> QED
      BY <1>1, <2>1, <3>6, <3>7, <3>8, AheadTyped
  <2>2. CASE ~(d \in opts.show /\ Interferes(Plotter(d)))
    <3>1. Interference(d, end) = 0
      BY <2>2 DEF Interference
    <3>2. Blocking(d) \in Nat
      BY <1>1, AheadTyped
    <3> HIDE DEF w, k
    <3> QED
      BY <1>3, <3>1, <3>2
  <2> QED
    BY <2>1, <2>2
<1>6. Redraws = (IF "spectrum" \in opts.show THEN w ELSE 0)
                  + (IF "signal" \in opts.show THEN w ELSE 0)
  <2>1. Cardinality(Plotters) =
          (IF "spectrum" \in opts.show THEN 1 ELSE 0)
            + (IF "signal" \in opts.show THEN 1 ELSE 0)
    BY <1>2, Counts
  <2>2. Redraws = (Cardinality(Plotters) * k) * DrawTime
    BY DEF Redraws
  <2> HIDE DEF k
  <2>3. /\ 0 * k = 0 /\ 1 * k = k /\ 2 * k = k + k /\ 0 * DrawTime = 0
        /\ (k + k) * DrawTime = k * DrawTime + k * DrawTime
    BY <1>2, <1>3
  <2>4. Cardinality(Plotters) \in {0, 1, 2}
    BY <2>1
  <2>5. Redraws = IF Cardinality(Plotters) = 0 THEN 0
                  ELSE IF Cardinality(Plotters) = 1 THEN w ELSE w + w
    BY <2>2, <2>3, <2>4
  <2> HIDE DEF w
  <2> QED
    BY <1>3, <2>1, <2>5
<1>7. /\ Interference("spectrum", end) \in Nat /\ Blocking("spectrum") \in Nat
      /\ Interference("spectrum", end) <= IF "spectrum" \in opts.show THEN w ELSE 0
      /\ Interference("signal", end) \in Nat /\ Blocking("signal") \in Nat
      /\ Interference("signal", end) <= IF "signal" \in opts.show THEN w ELSE 0
  BY <1>5
<1>8. Ahead(end) = Owed(Sampling, end)
                     + (Interference("spectrum", end) + Interference("signal", end))
                     + (Blocking("spectrum") + Blocking("signal"))
  BY DEF Ahead
<1> HIDE DEF w, k
<1> QED
  BY <1>2, <1>3, <1>4, <1>6, <1>7, <1>8

(* Nothing changes of what is owed when no thread moves.                   *)
LEMMA OwedUntouched ==
  ASSUME Untouched, NEW end, NEW t
  PROVE  Owed(t, end)' = Owed(t, end) /\ Release(t)' = Release(t)
<1>1. /\ UNCHANGED <<opts, rate, clock, started>>
      /\ UNCHANGED <<phase, left, due, jobs>>
  BY DEF Untouched
<1>2. /\ Delay(t)' = Delay(t) /\ Period(t)' = Period(t) /\ Work(t)' = Work(t)
  BY <1>1, SameOptions
<1>3. Release(t)' = Release(t)
  BY <1>1, <1>2, Zenon DEF Release, Arrived, Later
<1>4. Until(t, end)' = Until(t, end)
  BY <1>2, <1>3, Zenon DEF Until, Arrivals
<1>5. Rest(t)' = Rest(t)
  BY <1>1, <1>2, Zenon DEF Rest
<1> QED
  BY <1>2, <1>3, <1>4, <1>5, Zenon DEF Owed

(* With all the show threads that may hold the mutex one after another,    *)
(* the whole is done within a period when the load is affordable.          *)
Renewed ==
  \A end \in Nat :
    /\ Calm(end) /\ Affordable
    /\ \A s \in Shows : phase[s] = "critical" => left[s] = CopyTime
    => /\ Ahead(end) \in Nat /\ Ahead(end) <= SampPeriod
       /\ (\A s \in Shows : phase[s] # "critical") => Ahead(end) <= SampPeriod - 1

LEMMA Renews == Renewed
<1> SUFFICES ASSUME NEW end \in Nat, Calm(end), Affordable,
                    \A s \in Shows : phase[s] = "critical" => left[s] = CopyTime
             PROVE  /\ Ahead(end) \in Nat /\ Ahead(end) <= SampPeriod
                    /\ (\A s \in Shows : phase[s] # "critical")
                         => Ahead(end) <= SampPeriod - 1
  BY DEF Renewed
<1>1. /\ Ahead(end) \in Nat /\ Redraws \in Nat
      /\ Blocking("spectrum") \in Nat /\ Blocking("signal") \in Nat
      /\ Ahead(end) <=
           ReadTime + Redraws + (Blocking("spectrum") + Blocking("signal"))
  BY Calms DEF Calmed
<1>2. /\ BasicInv /\ order # << >> /\ opts.show # {}
      /\ OptionsTypeOK /\ SampPeriod \in Nat
      /\ ReadTime \in Nat /\ CopyTime \in Nat \ {0}
  BY OrderedStage, LaunchAssumption DEF Calm, BasicInv, Staged
<1> DEFINE n == Cardinality(Shows) * CopyTime
<1>3. n \in Nat /\ n >= CopyTime
  <2>1. Cardinality(Shows) \in {1, 2}
    BY <1>2, Counts DEF OptionsTypeOK, Displays
  <2> QED
    BY <1>2, <2>1
<1>4. ReadTime + n + Redraws <= SampPeriod
  <2>1. ReadTime + n + Redraws < SampPeriod
    BY DEF Affordable, Redraws
  <2> HIDE DEF n
  <2> QED
    BY <1>1, <1>2, <1>3, <2>1
<1>5. Blocking("spectrum") + Blocking("signal") \in {0, CopyTime}
  <2>1. ASSUME NEW d
        PROVE  Blocking(d) = IF d \in opts.show /\ phase[Show(d)] = "critical"
                               THEN CopyTime ELSE 0
    BY DEF Blocking, Shows
  <2>2. ~(/\ "spectrum" \in opts.show /\ phase[Show("spectrum")] = "critical"
          /\ "signal" \in opts.show /\ phase[Show("signal")] = "critical")
    <3>1. /\ Show("spectrum") \in AnyThread /\ Show("signal") \in AnyThread
          /\ Show("spectrum") # Show("signal")
      BY DEF AnyThread, Displays, Show
    <3> QED
      BY <1>2, <3>1 DEF BasicInv, Exclusive
  <2> QED
    BY <1>2, <2>1, <2>2
<1>6. ASSUME \A s \in Shows : phase[s] # "critical"
      PROVE  Blocking("spectrum") = 0 /\ Blocking("signal") = 0
  BY <1>6 DEF Blocking, Shows
<1> HIDE DEF n
<1> QED
  BY <1>1, <1>2, <1>3, <1>4, <1>5, <1>6

(* A thread with nothing to do is released now at the earliest.            *)
Idle(t) ==
  \/ phase[t] = "none"
  \/ phase[t] = "asleep" /\ (jobs[t] = 0 \/ due[t] >= clock)

Relaxed ==
  BasicInv /\ order # << >> =>
    \A t \in Thread :
      /\ Release(t) \in Nat
      /\ Idle(t) => Rest(t) = 0 /\ Release(t) >= clock
      /\ phase[t] = "asleep" /\ due[t] > clock => Release(t) > clock

LEMMA Relaxes == Relaxed
<1> SUFFICES ASSUME BasicInv, order # << >>, NEW t \in Thread
             PROVE  /\ Release(t) \in Nat
                    /\ Idle(t) => Rest(t) = 0 /\ Release(t) >= clock
                    /\ phase[t] = "asleep" /\ due[t] > clock => Release(t) > clock
  BY DEF Relaxed
<1>1. OptionsTypeOK /\ rate \in Rates /\ MaxX > 1 /\ clock \in Nat
      /\ started \in Nat
  BY OrderedStage
<1>2. Timely(t) /\ t \in AnyThread /\ Delay(t) \in Nat
  BY <1>1, Members, Asked, Periods DEF BasicInv, Timed
<1>3. due[t] \in Nat /\ jobs[t] \in Nat
  BY <1>2 DEF BasicInv, TypeOK
<1>4. Idle(t) => Rest(t) = 0
  BY DEF Idle, Rest
<1> QED
  BY <1>1, <1>2, <1>3, <1>4 DEF Idle, Release, Later, Arrived, Timely

(* On one processor a show thread that holds the mutex has not been        *)
(* overtaken: one that is more urgent would have to wait for it.           *)
LEMMA NoOvertakingKept ==
  ASSUME BasicInv, NoOvertaking, [Next]_vars
  PROVE  NoOvertaking'
<1> SUFFICES ASSUME cpus' = 1, order' # << >>, NEW s \in Shows', NEW u \in Shows',
                    phase'[s] = "critical", MoreUrgent(u, s)', phase'[u] = "working"
             PROVE  FALSE
  BY DEF NoOvertaking
<1>1. CASE StartPool /\ order = << >>
  <2>1. Shows' = Shows
    BY <1>1, SameOptions DEF StartPool, optionVars
  <2>2. s \in AnyThread
    BY <2>1, Members DEF BasicInv, TypeOK
  <2> QED
    BY <1>1, <2>2 DEF StartPool, threadVars, BasicInv, InOrder, Fresh
<1>2. ASSUME order # << >>, UNCHANGED <<opts, cpus, rate, order>>,
             phase'[s] = "critical" => phase[s] = "critical",
             phase'[u] = "working" => phase[u] = "working"
      PROVE  FALSE
  BY <1>2, Frozen DEF NoOvertaking
<1>3. CASE order # << >> /\ CreateThread
  <2>1. UNCHANGED <<opts, cpus, rate, order>> /\ Shows' = Shows
    BY <1>3, SameOptions DEF CreateThread, optionVars
  <2>2. s \in AnyThread /\ u \in AnyThread
    BY <2>1, Members DEF BasicInv, TypeOK
  <2>3. /\ phase'[s] = "critical" => phase[s] = "critical"
        /\ phase'[u] = "working" => phase[u] = "working"
    BY <1>3, <2>2, Creates
  <2> QED
    BY <1>2, <1>3, <2>1, <2>3
<1>4. ASSUME order # << >>, NEW t \in AnyThread, Run(t) PROVE FALSE
  <2>1. /\ t \in Running /\ t \in Thread /\ stage \in {"start", "run"}
        /\ UNCHANGED <<opts, cpus, rate, order>>
        /\ Others(t)
        /\ Arrives(t) \/ Locks(t) \/ Unlocks(t) \/ Finishes(t)
    BY <1>4, Steps
  <2>2. /\ Shows' = Shows /\ MoreUrgent(u, s)
    BY <2>1, Frozen
  <2>3. /\ OptionsTypeOK /\ rate \in Rates /\ MaxX > 1 /\ Sorted
        /\ s \in Thread /\ u \in Thread
        /\ s \in AnyThread /\ u \in AnyThread /\ u \notin Plotters /\ u # Sampling
    BY <2>1, <2>2, UnderWay, Members
  <2>4. CASE t = s
    <3>1. u # s
      BY <2>2, <2>3, Urgency
    <3>2. u \in Runnable
      BY <2>1, <2>3, <2>4, <3>1 DEF Others, Runnable
    <3>3. t \in Runnable
      BY <2>1 DEF Running
    <3> QED
      BY <2>1, <2>2, <2>4, <3>2, <3>3, Scheduling
  <2>5. CASE t = u
    <3>1. u # s
      BY <2>2, <2>3, Urgency
    <3>2. phase[u] = "critical"
      BY <2>1, <2>3, <2>5 DEF Arrives, Locks, Unlocks, Finishes, Became
    <3>3. phase[s] = "critical"
      BY <2>1, <2>3, <2>5, <3>1 DEF Others
    <3> QED
      BY <2>3, <3>1, <3>2, <3>3 DEF BasicInv, Exclusive
  <2>6. CASE t # s /\ t # u
    BY <1>2, <1>4, <2>1, <2>3, <2>6 DEF Others
  <2> QED
    BY <2>4, <2>5, <2>6
<1>5. CASE order # << >> /\ Tick
  BY <1>2, <1>5 DEF Tick, optionVars, mainVars
<1>6. CASE order # << >> /\ Untouched
  BY <1>2, <1>6 DEF Untouched
<1> QED
  BY <1>1, <1>3, <1>4, <1>5, <1>6, OrderedSteps

(* A quiet instant: the sampling thread and the plotters that could        *)
(* interfere with it have nothing to do, and no show thread has the mutex. *)
Quiet ==
  /\ BasicInv /\ order # << >> /\ Affordable
  /\ Idle(Sampling) /\ \A p \in Plotters : Interferes(p) => Idle(p)
  /\ \A s \in Shows : phase[s] # "critical"

Quieted ==
  Quiet => \E end \in clock + 1 .. clock + SampPeriod + 1 :
             end <= Release(Sampling) + SampPeriod /\ Ahead(end) <= end - 1 - clock

LEMMA Quietens == Quieted
<1> SUFFICES ASSUME Quiet
             PROVE  \E end \in clock + 1 .. clock + SampPeriod + 1 :
                      /\ end <= Release(Sampling) + SampPeriod
                      /\ Ahead(end) <= end - 1 - clock
  BY DEF Quieted
<1>1. /\ BasicInv /\ order # << >> /\ OptionsTypeOK /\ Sampling \in Thread
      /\ clock \in Nat /\ SampPeriod \in Nat \ {0}
  BY OrderedStage DEF Quiet
<1>2. PICK end \in Nat : end = clock + SampPeriod
  BY <1>1
<1>3. ASSUME NEW t \in Thread, Idle(t)
      PROVE  Rest(t) = 0 /\ Release(t) >= clock /\ Release(t) \in Nat
  BY <1>1, <1>3, Relaxes, OwedTyped DEF Relaxed
<1>4. Calm(end)
  <2>1. ASSUME NEW p \in Plotters, Interferes(p)
        PROVE  Rest(p) = 0 /\ end <= Release(p) + SampPeriod + 1
    <3>1. p \in Thread /\ Idle(p)
      BY <1>1, <2>1, Members DEF Quiet
    <3> QED
      BY <1>1, <1>2, <1>3, <3>1
  <2>2. Rest(Sampling) = 0 /\ end <= Release(Sampling) + SampPeriod
    BY <1>1, <1>2, <1>3 DEF Quiet
  <2> QED
    BY <1>1, <2>1, <2>2 DEF Calm
<1>5. Ahead(end) \in Nat /\ Ahead(end) <= SampPeriod - 1
  BY <1>4, Renews DEF Renewed, Quiet
<1>6. end \in clock + 1 .. clock + SampPeriod + 1 /\ Ahead(end) <= end - 1 - clock
  BY <1>1, <1>2, <1>5
<1> QED
  BY <1>4, <1>6 DEF Calm

Punctual ==
  /\ stage \in {"start", "run"} /\ cpus = 1 /\ Affordable
  /\ phase[Sampling] # "none"

(* The options and the rate decide what is affordable.                     *)
LEMMA SameLoad ==
  ASSUME opts' = opts, rate' = rate
  PROVE  Affordable' = Affordable
BY SameOptions, Zenon DEF Affordable

(* main creates a thread when nobody else has anything to do.              *)
LEMMA ResponseByCreate ==
  ASSUME BasicInv, CreateThread, Punctual'
  PROVE  Response'
<1>1. /\ UNCHANGED <<opts, cpus, rate, order, started, clock, left, jobs>>
      /\ stage = "start" /\ MainRuns /\ cpus = 1
  BY DEF CreateThread, optionVars, Punctual
<1>2. /\ OptionsTypeOK /\ order # << >> /\ Sampling \in Thread /\ Runnable = {}
  BY <1>1, UnderWay, Scheduling, Members
<1>3. /\ Plotters' = Plotters /\ Shows' = Shows /\ Thread' = Thread
      /\ \A t \in Thread : t \in AnyThread
  BY <1>1, <1>2, SameOptions, Members
<1>4. \A t \in Thread :
        phase[t] = "none" \/ (phase[t] = "asleep" /\ due[t] > clock)
  BY <1>1, <1>2, Asleep
<1>5. ASSUME NEW t \in Thread
      PROVE  Idle(t)' /\ phase'[t] # "critical"
  <2>1. Timely(t) /\ clock \in Nat /\ due[t] \in Nat /\ t \in AnyThread
    BY <1>1, <1>3, UnderWay DEF BasicInv, Timed, TypeOK
  <2>2. \/ phase'[t] = phase[t] /\ due'[t] = due[t]
        \/ phase[t] = "none" /\ phase'[t] = "asleep"
    BY <2>1, Creates
  <2> QED
    BY <1>1, <1>4, <2>1, <2>2 DEF Idle, Timely
<1>6. Quiet'
  <2>1. BasicInv' /\ order' # << >> /\ Affordable'
    BY <1>1, <1>2, BasicKept DEF Punctual, Next
  <2>2. Idle(Sampling)' /\ \A p \in Plotters' : Idle(p)'
    BY <1>2, <1>3, <1>5, Members
  <2>3. \A s \in Shows' : phase'[s] # "critical"
    BY <1>2, <1>3, <1>5, Members
  <2> QED
    BY <2>1, <2>2, <2>3 DEF Quiet
<1>7. Quieted'
  BY Quietens, PTL
<1>8. phase'[Sampling] = "asleep"
  BY <1>2, <1>5 DEF Idle, Punctual
<1> QED
  BY <1>6, <1>7, <1>8 DEF Quieted, Response

(* A show thread takes the mutex when the sampling thread has no use for   *)
(* it, and what pre-empts the show thread is not due.                      *)
LEMMA ResponseByLock ==
  ASSUME BasicInv, NEW t \in Shows, Run(t), Locks(t), Punctual'
  PROVE  Response'
<1>1. /\ t \in Running /\ t \in Runnable /\ t \in Thread /\ t \in AnyThread
      /\ stage \in {"start", "run"}
      /\ UNCHANGED <<opts, cpus, rate, order, started, clock>>
      /\ Others(t)
  <2>1. t \in AnyThread
    BY Members DEF BasicInv, TypeOK
  <2> QED
    BY <2>1, Steps
<1>2. /\ OptionsTypeOK /\ rate \in Rates /\ MaxX > 1 /\ Sorted /\ order # << >>
      /\ Sampling \in Thread /\ Sampling \in AnyThread /\ clock \in Nat
      /\ SampPeriod \in Nat \ {0} /\ cpus = 1
      /\ \A u \in Thread : u \in AnyThread
  BY <1>1, UnderWay, OrderedStage, Members DEF Punctual
<1>3. /\ Plotters' = Plotters /\ Shows' = Shows /\ Thread' = Thread
      /\ SampPeriod' = SampPeriod
      /\ \A u, v : MoreUrgent(u, v)' = MoreUrgent(u, v)
  BY <1>1, Frozen
<1>4. ASSUME NEW u \in Thread, MoreUrgent(u, t)
      PROVE  /\ u # t /\ phase'[u] = phase[u] /\ due'[u] = due[u] /\ jobs'[u] = jobs[u]
             /\ \/ phase[u] = "none"
                \/ phase[u] = "asleep" /\ due[u] > clock
  <2>1. u # t
    BY <1>1, <1>2, <1>4, Urgency
  <2>2. u \notin Runnable
    BY <1>1, <1>2, <1>4, Scheduling
  <2>3. due[u] \in Nat
        /\ phase[u] \in {"none", "asleep", "locking", "critical", "working"}
    BY <1>2 DEF BasicInv, TypeOK
  <2> QED
    BY <1>1, <1>2, <2>1, <2>2, <2>3 DEF Runnable, Locks, Others
<1>5. MoreUrgent(Sampling, t)
  BY <1>2, Urgency
<1>6. PICK end \in Nat : end = clock + 1 + SampPeriod
  BY <1>2
<1>7. BasicInv' /\ order' # << >> /\ Affordable'
  BY <1>1, <1>2, BasicKept DEF Punctual, Next
<1>8. Relaxed' /\ Renewed'
  BY Relaxes, Renews, PTL
<1>9. /\ Rest(Sampling)' = 0 /\ phase'[Sampling] = "asleep"
      /\ Release(Sampling)' > clock
  <2>1. phase'[Sampling] = "asleep" /\ due'[Sampling] > clock'
    BY <1>1, <1>2, <1>4, <1>5 DEF Punctual
  <2>2. due'[Sampling] >= clock' /\ due'[Sampling] > clock'
    BY <1>1, <1>2, <1>4, <1>5, <2>1 DEF BasicInv, TypeOK
  <2> QED
    BY <1>1, <1>2, <1>3, <1>7, <1>8, <2>1, <2>2 DEF Relaxed, Idle
<1>10. ASSUME NEW p \in Plotters, Interferes(p)'
       PROVE  Rest(p)' = 0 /\ end <= Release(p)' + SampPeriod + 1
  <2>1. p \in Thread /\ p \in AnyThread
    BY <1>2, Members
  <2>2. MoreUrgent(p, t)
    <3>1. CASE MoreUrgent(p, Sampling)
      BY <1>1, <1>2, <1>5, <2>1, <3>1, Urgency
    <3>2. CASE ~MoreUrgent(p, Sampling)
      <4>1. PICK s \in Shows : phase'[s] = "critical" /\ MoreUrgent(p, s)
        BY <1>3, <1>10, <3>2 DEF Interferes
      <4>2. s \in AnyThread
        BY <1>2, Members
      <4>3. s = t
        BY <1>1, <4>1, <4>2 DEF Others, Locks, Held
      <4> QED
        BY <4>1, <4>3
    <3> QED
      BY <3>1, <3>2
  <2>3. Idle(p)'
    <3>1. due[p] \in Nat
      BY <2>1 DEF BasicInv, TypeOK
    <3> QED
      BY <1>1, <1>2, <1>4, <2>1, <2>2, <3>1 DEF Idle
  <2>4. Rest(p)' = 0 /\ Release(p)' >= clock' /\ Release(p)' \in Nat
    BY <1>3, <1>7, <1>8, <2>1, <2>3 DEF Relaxed
  <2> QED
    BY <1>1, <1>2, <1>6, <2>4
<1>11. end <= Release(Sampling)' + SampPeriod
  <2>1. Release(Sampling)' \in Nat
    BY <1>2, <1>3, <1>7, <1>8 DEF Relaxed
  <2> QED
    BY <1>2, <1>6, <1>9, <2>1
<1>12. Calm(end)'
  BY <1>3, <1>7, <1>9, <1>10, <1>11 DEF Calm
<1>13. \A s \in Shows' : phase'[s] = "critical" => left'[s] = CopyTime
  <2> SUFFICES ASSUME NEW s \in Shows, phase'[s] = "critical"
               PROVE  left'[s] = CopyTime
    BY <1>3
  <2>1. s \in AnyThread /\ t # Sampling
    BY <1>2, Members
  <2>2. s = t
    BY <1>1, <2>1 DEF Others, Locks, Held
  <2> QED
    BY <2>1, <2>2 DEF Locks
<1>14. Ahead(end)' <= SampPeriod
  BY <1>3, <1>7, <1>8, <1>12, <1>13 DEF Renewed
<1>15. end \in clock' + 1 .. clock' + SampPeriod' + 1
  BY <1>1, <1>2, <1>3, <1>6
<1>16. Ahead(end)' <= end - 1 - clock'
  BY <1>1, <1>2, <1>6, <1>14
<1> QED
  BY <1>3, <1>9, <1>11, <1>15, <1>16 DEF Response

(* Whatever else the threads do leaves the end of the job where it was.    *)
LEMMA ResponseByRun ==
  ASSUME BasicInv, Response, NEW t \in AnyThread, Run(t),
         ~(t \in Shows /\ Locks(t)), Punctual'
  PROVE  Response'
<1> DEFINE S == Sampling
<1>1. /\ t \in Running /\ t \in Thread /\ stage \in {"start", "run"}
      /\ UNCHANGED <<opts, cpus, rate, order, started, clock>>
      /\ Others(t)
      /\ Arrives(t) \/ Locks(t) \/ Unlocks(t) \/ Finishes(t)
      /\ left' \in [AnyThread -> Nat]
      /\ t \in Runnable
  BY Steps
<1>2. /\ OptionsTypeOK /\ rate \in Rates /\ MaxX > 1 /\ Sorted /\ order # << >>
      /\ S \in Thread /\ S \in AnyThread /\ Timely(S)
      /\ clock \in Nat /\ started \in Nat
      /\ SampPeriod \in Nat \ {0} /\ due[S] \in Nat /\ jobs[S] \in Nat
      /\ Period(S) = SampPeriod /\ Delay(S) = StartupDelay /\ StartupDelay \in Nat
  BY <1>1, UnderWay, OrderedStage
<1>3. /\ SampPeriod' = SampPeriod /\ Delay(S)' = Delay(S) /\ Affordable' = Affordable
      /\ Shows' = Shows
  BY <1>1, SameOptions, SameLoad
<1>4. phase[S] # "none"
  BY <1>1, <1>2 DEF Others, Arrives, Locks, Unlocks, Finishes, Became, Punctual
<1>5. PICK end \in clock + 1 .. clock + SampPeriod + 1 :
        /\ IF phase[S] = "asleep" THEN end <= Release(S) + SampPeriod
                                  ELSE end <= due[S]
        /\ Ahead(end) <= end - 1 - clock
  BY <1>1, <1>3, <1>4 DEF Response, Punctual
<1>6. end \in Nat /\ clock < end
  BY <1>2, <1>5
<1>7. Ahead(end)' \in Nat /\ Ahead(end)' <= Ahead(end)
  <2>1. ASSUME NEW u \in Thread
        PROVE  Owed(u, end)' \in Nat /\ Owed(u, end)' <= Owed(u, end)
    BY <1>2, <1>6, OwedByRun, OwedTyped
  <2>2. ASSUME NEW s \in Shows, phase'[s] = "critical"
        PROVE  phase[s] = "critical" /\ left'[s] \in Nat /\ left'[s] <= left[s]
    <3>1. s \in AnyThread /\ s # S /\ s \notin Plotters
      BY <1>2, Members
    <3>2. left[s] \in Nat /\ left'[s] \in Nat
      BY <1>1, <3>1 DEF BasicInv, TypeOK
    <3>3. s # t
      BY <1>1, <2>2, <3>1 DEF Arrives, Locks, Unlocks, Finishes, Became
    <3> QED
      BY <1>1, <2>2, <3>1, <3>2, <3>3 DEF Others
  <2> QED
    BY <1>1, <1>2, <1>6, <2>1, <2>2, AheadShrinks
<1>8. IF phase'[S] = "asleep" THEN end <= Release(S)' + SampPeriod
                              ELSE end <= due'[S]
  <2>1. CASE t # S
    <3>1. phase'[S] = phase[S] /\ due'[S] = due[S] /\ jobs'[S] = jobs[S]
      BY <1>1, <1>2, <2>1 DEF Others
    <3>2. Release(S)' = Release(S)
      BY <1>1, <1>3, <3>1 DEF Release, Arrived, Later
    <3> QED
      BY <1>5, <3>1, <3>2
  <2>2. CASE t = S /\ Arrives(t)
    <3>1. /\ phase[S] = "asleep" /\ phase'[S] = "locking" /\ clock >= due[S]
          /\ due'[S] = (IF jobs[S] = 0 THEN clock ELSE due[S]) + SampPeriod
      BY <1>2, <2>2, Members DEF Arrives, Became
    <3>2. Release(S) = IF jobs[S] = 0 THEN clock ELSE due[S]
      BY <1>2, <3>1 DEF Release, Arrived, Later, Timely
    <3> QED
      BY <1>5, <3>1, <3>2
  <2>3. CASE t = S /\ Locks(t)
    BY <1>5, <2>3 DEF Locks, Became
  <2>4. CASE t = S /\ Finishes(t)
    <3>1. /\ phase[S] = "critical" /\ phase'[S] = "asleep"
          /\ due'[S] = due[S] /\ jobs'[S] = jobs[S] + 1
      BY <2>4 DEF Finishes, Became
    <3>2. Release(S)' = due[S]
      BY <1>2, <3>1 DEF Release, Arrived
    <3> QED
      BY <1>2, <1>5, <1>6, <3>1, <3>2
  <2>5. ~(t = S /\ Unlocks(t))
    BY <1>2, Members DEF Unlocks
  <2> QED
    BY <1>1, <2>1, <2>2, <2>3, <2>4, <2>5
<1>9. Ahead(end)' <= end - 1 - clock'
  <2>1. Ahead(end) \in Nat
    BY <1>2, <1>6, AheadTyped
  <2> QED
    BY <1>1, <1>2, <1>5, <1>6, <1>7, <2>1
<1> QED
  BY <1>1, <1>3, <1>5, <1>8, <1>9 DEF Response

(* While time passes, either the one that runs is ahead of the end of the  *)
(* job, and less is left of it, or the instant is quiet.                   *)
LEMMA ResponseByTick ==
  ASSUME BasicInv, NoOvertaking, Response, Tick, Punctual'
  PROVE  Response'
<1> DEFINE S == Sampling
<1>1. /\ stage \in {"start", "run"} /\ clock' = clock + 1
      /\ \A u \in Running : left[u] > 0
      /\ UNCHANGED <<opts, cpus, rate, order, started, phase, due, jobs>>
      /\ left' = [u \in AnyThread |-> IF u \in Running THEN left[u] - 1 ELSE left[u]]
      /\ cpus = 1 /\ phase[S] # "none"
  BY DEF Tick, optionVars, mainVars, Punctual
<1>2. /\ OptionsTypeOK /\ rate \in Rates /\ MaxX > 1 /\ Sorted /\ order # << >>
      /\ S \in Thread /\ S \in AnyThread /\ Timely(S)
      /\ clock \in Nat /\ started \in Nat
      /\ SampPeriod \in Nat \ {0} /\ due[S] \in Nat /\ jobs[S] \in Nat
      /\ Delay(S) = StartupDelay /\ StartupDelay \in Nat
      /\ phase[S] \in {"none", "asleep", "locking", "critical"}
      /\ \A u \in Thread : u \in AnyThread
  BY <1>1, UnderWay, OrderedStage, Members
<1>3. /\ SampPeriod' = SampPeriod /\ Delay(S)' = Delay(S) /\ Affordable' = Affordable
      /\ Shows' = Shows /\ Plotters' = Plotters
      /\ \A u, v : MoreUrgent(u, v)' = MoreUrgent(u, v)
  BY <1>1, Frozen, SameLoad
<1>4. ASSUME NEW u \in AnyThread
      PROVE  /\ left[u] \in Nat /\ left'[u] \in Nat /\ left'[u] <= left[u]
             /\ u \in Running => left'[u] <= left[u] - 1
  <2>1. left[u] \in Nat
    BY DEF BasicInv, TypeOK
  <2>2. left'[u] = IF u \in Running THEN left[u] - 1 ELSE left[u]
    BY <1>1
  <2> QED
    BY <1>1, <2>1, <2>2
<1> DEFINE Ahead1(u) == \/ u = S
                        \/ u \in Plotters /\ Interferes(u)
                        \/ u \in Shows /\ phase[u] = "critical"
<1>5. CASE \E u \in Running : Ahead1(u)
  <2>1. PICK u \in Running : Ahead1(u)
    BY <1>5
  <2>2. PICK end \in clock + 1 .. clock + SampPeriod + 1 :
          /\ IF phase[S] = "asleep" THEN end <= Release(S) + SampPeriod
                                    ELSE end <= due[S]
          /\ Ahead(end) <= end - 1 - clock
    BY <1>1, <1>3 DEF Response, Punctual
  <2>3. end \in Nat /\ u \in Thread /\ u \in AnyThread
    BY <1>1, <1>2, <2>2, Scheduling
  <2>4. ASSUME NEW v \in Thread
        PROVE  /\ Owed(v, end)' \in Nat /\ Owed(v, end)' <= Owed(v, end)
               /\ v \in Running => Owed(v, end)' <= Owed(v, end) - 1
    BY <2>3, OwedByTick
  <2>5. \A s \in Shows : phase'[s] = "critical" =>
          phase[s] = "critical" /\ left'[s] \in Nat /\ left'[s] <= left[s]
    BY <1>1, <1>2, <1>4, Members
  <2>6. Ahead(end)' \in Nat /\ Ahead(end)' <= Ahead(end) - 1
    <3>1. /\ Ahead(end)' \in Nat
          /\ Owed(S, end)' <= Owed(S, end) - 1 => Ahead(end)' <= Ahead(end) - 1
          /\ (\E p \in Plotters : Interferes(p) /\ Owed(p, end)' <= Owed(p, end) - 1)
               => Ahead(end)' <= Ahead(end) - 1
          /\ (\E s \in Shows : /\ phase[s] = "critical" /\ left[s] > 0
                                 /\ left'[s] \in Nat /\ left'[s] <= left[s] - 1)
               => Ahead(end)' <= Ahead(end) - 1
      BY <1>1, <1>2, <2>3, <2>4, <2>5, AheadShrinks
    <3>2. CASE u = S
      BY <1>2, <2>1, <2>4, <3>1, <3>2
    <3>3. CASE u \in Plotters /\ Interferes(u)
      BY <2>1, <2>3, <2>4, <3>1, <3>3
    <3>4. CASE u \in Shows /\ phase[u] = "critical"
      <4>1. left[u] > 0 /\ left'[u] \in Nat /\ left'[u] <= left[u] - 1
        BY <1>1, <1>4, <2>1, <2>3
      <4> QED
        BY <3>1, <3>4, <4>1
    <3> QED
      BY <2>1, <3>2, <3>3, <3>4
  <2>7. Ahead(end) \in Nat
    BY <1>2, <2>3, AheadTyped
  <2>8. end \in clock' + 1 .. clock' + SampPeriod' + 1
        /\ Ahead(end)' <= end - 1 - clock'
    BY <1>1, <1>2, <1>3, <2>2, <2>6, <2>7
  <2>9. IF phase'[S] = "asleep" THEN end <= Release(S)' + SampPeriod
                                ELSE end <= due'[S]
    <3>1. Release(S) \in Nat /\ Release(S)' \in Nat /\ Release(S) <= Release(S)'
      BY <1>1, <1>2, <1>3 DEF Release, Arrived, Later
    <3> QED
      BY <1>1, <1>2, <2>2, <2>3, <3>1
  <2> QED
    BY <1>3, <2>8, <2>9 DEF Response
<1>6. CASE ~\E u \in Running : Ahead1(u)
  <2>1. ASSUME NEW v \in Thread, v \notin Runnable
        PROVE  \/ phase[v] = "none"
               \/ phase[v] = "asleep" /\ due[v] > clock
               \/ phase[v] = "locking" /\ Held
    <3>1. due[v] \in Nat
          /\ phase[v] \in {"none", "asleep", "locking", "critical", "working"}
      BY <1>2 DEF BasicInv, TypeOK
    <3> QED
      BY <1>2, <2>1, <3>1 DEF Runnable
  <2>2. ASSUME NEW u \in Running, NEW v \in Thread, MoreUrgent(v, u)
        PROVE  v \notin Runnable
    BY <1>1, <2>2, Scheduling
  <2>3. ASSUME NEW s \in Shows PROVE phase[s] # "critical"
    <3> SUFFICES ASSUME phase[s] = "critical" PROVE FALSE
      OBVIOUS
    <3>1. s \in Thread /\ s \in Runnable
      BY <1>2, Members DEF Runnable
    <3>2. PICK u \in Running : TRUE
      BY <1>1, <3>1, Scheduling
    <3>3. u \in Thread /\ u \in Runnable
      BY <1>1, Scheduling
    <3>4. MoreUrgent(u, s)
      BY <1>2, <1>6, <2>2, <3>1, <3>3, Urgency
    <3>5. CASE u \in Plotters
      BY <1>6, <3>4, <3>5 DEF Interferes
    <3>6. CASE u \in Shows
      <4>1. phase[u] # "working"
        BY <1>1, <1>2, <3>4, <3>6 DEF NoOvertaking
      <4>2. phase[u] # "critical"
        BY <1>6, <3>6
      <4>3. Timely(u) /\ left[u] > 0
        BY <1>1, <3>3 DEF BasicInv, Timed
      <4>4. phase[u] \in {"none", "asleep", "locking", "critical", "working"}
        BY <1>2, <3>3 DEF BasicInv, TypeOK
      <4> QED
        BY <4>1, <4>2, <4>3, <4>4 DEF Timely
    <3> QED
      BY <1>2, <1>6, <3>3, <3>5, <3>6, Members
  <2>4. S \notin Runnable
    <3> SUFFICES ASSUME S \in Runnable PROVE FALSE
      OBVIOUS
    <3>1. PICK u \in Running : TRUE
      BY <1>1, Scheduling
    <3>2. u \in Thread /\ u \in Runnable /\ ~MoreUrgent(S, u) /\ u # S
      BY <1>1, <1>2, <1>6, <2>2, Scheduling
    <3>3. MoreUrgent(u, S)
      BY <1>2, <3>2, Urgency
    <3>4. u \in Plotters
      BY <1>2, <3>2, <3>3, Members, Urgency
    <3> QED
      BY <1>6, <3>3, <3>4 DEF Interferes
  <2>5. ~Held
    <3> SUFFICES ASSUME NEW v \in AnyThread, phase[v] = "critical" PROVE FALSE
      BY DEF Held
    <3>1. v \in Thread
      BY DEF BasicInv, InOrder
    <3>2. Timely(v) /\ v \in Runnable
      BY <3>1 DEF BasicInv, Timed, Runnable
    <3>3. v \notin Plotters
      BY <3>2 DEF Timely
    <3> QED
      BY <1>2, <2>3, <2>4, <3>1, <3>2, <3>3, Members
  <2>6. phase[S] = "asleep" /\ due[S] > clock
    BY <1>1, <1>2, <2>1, <2>4, <2>5
  <2>7. ASSUME NEW p \in Plotters, Interferes(p)
        PROVE  p \notin Runnable
    <3> SUFFICES ASSUME p \in Runnable PROVE FALSE
      OBVIOUS
    <3>1. p \in Thread /\ MoreUrgent(p, S)
      BY <1>2, <2>3, <2>7, Members DEF Interferes
    <3>2. PICK u \in Running : TRUE
      BY <1>1, Scheduling
    <3>3. u \in Thread /\ u # p /\ u # S
      BY <1>1, <1>6, <2>7, Scheduling
    <3>4. MoreUrgent(u, p)
      BY <1>2, <2>2, <3>1, <3>2, <3>3, Urgency
    <3>5. MoreUrgent(u, S)
      BY <1>2, <3>1, <3>3, <3>4, Urgency
    <3>6. u \in Plotters
      BY <1>2, <3>3, <3>5, Members, Urgency
    <3> QED
      BY <1>6, <3>5, <3>6 DEF Interferes
  <2>8. Quiet'
    <3>1. BasicInv' /\ order' # << >> /\ Affordable'
      BY <1>1, <1>2, BasicKept DEF Punctual, Next
    <3>2. Idle(S)'
      BY <1>1, <1>2, <2>6 DEF Idle
    <3>3. ASSUME NEW p \in Plotters', Interferes(p)' PROVE Idle(p)'
      <4>1. p \in Plotters /\ p \in Thread
        BY <1>2, <1>3, Members
      <4>2. Interferes(p)
        BY <1>1, <1>3, <3>3 DEF Interferes
      <4>3. phase[p] = "none" \/ (phase[p] = "asleep" /\ due[p] > clock)
        BY <2>1, <2>5, <2>7, <4>1, <4>2
      <4>4. due[p] \in Nat
        BY <1>2, <4>1 DEF BasicInv, TypeOK
      <4> QED
        BY <1>1, <1>2, <4>3, <4>4 DEF Idle
    <3>4. \A s \in Shows' : phase'[s] # "critical"
      BY <1>1, <1>3, <2>3
    <3> QED
      BY <3>1, <3>2, <3>3, <3>4 DEF Quiet
  <2>9. Quieted'
    BY Quietens, PTL
  <2> QED
    BY <1>1, <2>6, <2>8, <2>9 DEF Quieted, Response
<1> QED
  BY <1>5, <1>6

(* Whatever happens, there is such a date again.                           *)
LEMMA ResponseKept ==
  ASSUME BasicInv, NoOvertaking, Response, [Next]_vars
  PROVE  Response'
<1> SUFFICES ASSUME Punctual' PROVE Response'
  BY DEF Response, Punctual
<1>1. order' # << >>
  BY BasicKept DEF Punctual, BasicInv, Staged
<1>2. CASE StartPool /\ order = << >>
  <2>1. phase'[Sampling] = "none"
    BY <1>2, Kinds DEF StartPool, threadVars, BasicInv, InOrder, Fresh
  <2> QED
    BY <2>1 DEF Punctual
<1>3. CASE order # << >> /\ CreateThread
  BY <1>3, ResponseByCreate
<1>4. ASSUME NEW t \in AnyThread, Run(t) PROVE Response'
  BY <1>4, ResponseByRun, ResponseByLock
<1>5. CASE order # << >> /\ Tick
  BY <1>5, ResponseByTick
<1>6. CASE order # << >> /\ Untouched
  <2>1. /\ UNCHANGED <<opts, cpus, rate, order, started, clock>>
        /\ UNCHANGED <<phase, left, due, jobs>>
        /\ stage \in {"start", "run"}
    BY <1>6 DEF Untouched, Punctual
  <2>2. /\ SampPeriod' = SampPeriod /\ Affordable' = Affordable
    BY <2>1, SameOptions, SameLoad
  <2>3. /\ clock \in Nat /\ SampPeriod \in Nat \ {0} /\ OptionsTypeOK
    BY <1>6, OrderedStage
  <2>4. PICK end \in clock + 1 .. clock + SampPeriod + 1 :
          /\ IF phase[Sampling] = "asleep" THEN end <= Release(Sampling) + SampPeriod
                                           ELSE end <= due[Sampling]
          /\ Ahead(end) <= end - 1 - clock
    BY <2>1, <2>2 DEF Response, Punctual
  <2>5. end \in Nat
    BY <2>3, <2>4
  <2>6. ASSUME NEW u \in Thread
        PROVE  Owed(u, end)' \in Nat /\ Owed(u, end)' <= Owed(u, end)
    <3>1. Owed(u, end)' = Owed(u, end)
      BY <1>6, OwedUntouched
    <3>2. Owed(u, end) \in Nat
      BY <1>6, <2>5, OwedTyped
    <3> QED
      BY <3>1, <3>2
  <2>7. ASSUME NEW s \in Shows, phase'[s] = "critical"
        PROVE  phase[s] = "critical" /\ left'[s] \in Nat /\ left'[s] <= left[s]
    <3>1. left[s] \in Nat
      BY <2>3, Members DEF BasicInv, TypeOK
    <3> QED
      BY <2>1, <2>7, <3>1
  <2>8. Ahead(end)' \in Nat /\ Ahead(end)' <= Ahead(end) /\ Ahead(end) \in Nat
    BY <1>6, <2>1, <2>5, <2>6, <2>7, AheadShrinks, AheadTyped
  <2>9. Ahead(end)' <= end - 1 - clock'
    BY <2>1, <2>3, <2>4, <2>5, <2>8
  <2>10. Release(Sampling)' = Release(Sampling)
    BY <1>6, OwedUntouched
  <2> QED
    BY <2>1, <2>2, <2>4, <2>9, <2>10 DEF Response
<1> QED
  BY <1>1, <1>2, <1>3, <1>4, <1>5, <1>6, OrderedSteps

MeetsDeadlines == cpus = 1 => SamplingMeetsDeadlines

(* A job that ends before that date is not late.                           *)
LEMMA MeetsDeadlinesKept ==
  ASSUME BasicInv, Response, MeetsDeadlines, [Next]_vars
  PROVE  MeetsDeadlines'
<1> SUFFICES ASSUME cpus' = 1, Affordable' PROVE Sampling \notin missed'
  BY DEF MeetsDeadlines, SamplingMeetsDeadlines
<1>1. CASE order' = << >>
  BY <1>1, BasicKept DEF BasicInv, InOrder
<1>2. CASE StartPool /\ order = << >>
  BY <1>2 DEF StartPool, threadVars, BasicInv, InOrder
<1>3. ASSUME order # << >>, UNCHANGED <<opts, cpus, rate>>
      PROVE  Sampling \notin missed /\ Affordable /\ cpus = 1
  <2>1. Affordable /\ cpus = 1
    BY <1>3, SameLoad
  <2>2. Created
    <3>1. rate \in Rates
      BY <1>3, OrderedStage
    <3>2. rate > 0
      BY <3>1, LaunchAssumption
    <3> QED
      BY <1>3, <3>2 DEF Created, BasicInv, Staged
  <2> QED
    BY <2>1, <2>2 DEF MeetsDeadlines, SamplingMeetsDeadlines
<1>4. CASE order # << >> /\ (CreateThread \/ Tick \/ Untouched)
  BY <1>3, <1>4 DEF CreateThread, Tick, Untouched, optionVars, mainVars
<1>5. ASSUME order # << >>, NEW t \in AnyThread, Run(t)
      PROVE  Sampling \notin missed'
  <2>1. /\ stage \in {"start", "run"} /\ UNCHANGED <<opts, cpus, rate>>
        /\ Arrives(t) \/ Locks(t) \/ Unlocks(t) \/ Finishes(t)
    BY <1>5, Steps
  <2>2. Sampling \notin missed /\ Affordable /\ cpus = 1
    BY <1>3, <1>5, <2>1
  <2>3. CASE t = Sampling /\ Finishes(t)
    <3>1. phase[Sampling] = "critical"
      BY <2>3 DEF Finishes, Became
    <3>2. PICK end \in clock + 1 .. clock + SampPeriod + 1 : end <= due[Sampling]
      BY <2>1, <2>2, <3>1 DEF Response
    <3>3. clock \in Nat /\ SampPeriod \in Nat /\ due[Sampling] \in Nat
      BY <1>5, OrderedStage
    <3>4. ~(clock >= due[Sampling])
      BY <3>2, <3>3
    <3> QED
      BY <2>2, <2>3, <3>4 DEF Finishes
  <2>4. CASE ~(t = Sampling /\ Finishes(t))
    BY <2>1, <2>2, <2>4 DEF Arrives, Locks, Unlocks, Finishes
  <2> QED
    BY <2>3, <2>4
<1> QED
  BY <1>1, <1>2, <1>4, <1>5, OrderedSteps

Responsive == BasicInv /\ NoOvertaking /\ Response /\ MeetsDeadlines

(* Priority inversion is bounded on one processor: whatever the plotters   *)
(* and the holders of the mutex do, an affordable load never makes the     *)
(* sampling thread miss a deadline.                                        *)
THEOREM LaunchMeetsDeadlines == Spec => [](cpus = 1 => SamplingMeetsDeadlines)
<1>1. Init => Responsive
  <2> SUFFICES ASSUME Init PROVE Responsive
    OBVIOUS
  <2>1. BasicInv
    BY AtFirst
  <2>2. NoOvertaking /\ Response /\ MeetsDeadlines
    BY DEF Init, NoOvertaking, Response, MeetsDeadlines, SamplingMeetsDeadlines
  <2> QED
    BY <2>1, <2>2 DEF Responsive
<1>2. Responsive /\ [Next]_vars => Responsive'
  BY BasicKept, NoOvertakingKept, ResponseKept, MeetsDeadlinesKept DEF Responsive
<1>3. Responsive => (cpus = 1 => SamplingMeetsDeadlines)
  BY DEF Responsive, MeetsDeadlines
<1> QED
  BY <1>1, <1>2, <1>3, PTL DEF Spec

=============================================================================
