----------------------------- MODULE SotoProofs -----------------------------
(***************************************************************************)
(* Proofs about the whole program, for any displays and whatever thread    *)
(* exit_handler runs in.                                                   *)
(*                                                                         *)
(* The argument: all the threads created but the last one are marked alive *)
(* (Marked), so thrd_destroy has waited for all those it has passed        *)
(* (Passed), and those that are left still find everything they use        *)
(* (Equipped).  A handle is popped once and a thread only ends on request  *)
(* (Requested), so requests only go through live handles and GenThrd is    *)
(* implemented; the sampling thread's handle is popped last (Order).       *)
(***************************************************************************)
EXTENDS Soto, FiniteSets, FiniteSetTheorems, TLAPS

GP == INSTANCE GenThrdProofs WITH MayStop <- {}, faulted <- (mpc = "stray")

-----------------------------------------------------------------------------
(* The inductive invariant.                                                *)

Ending == GP!Ending

(* Threads that are waited for, go on and may use what main has given them.*)
Busy == {t \in Waited : tpc[t] \notin Ending}

(* Before the threads are sorted, pool and handles follow Subscriptions.   *)
Subscribed ==
  mpc = "setup" =>
    /\ Created = {}
    /\ \A t \in Thread : ~cancel[t]
    /\ Len(pool) <= Len(Subscriptions)
    /\ pool # << >> => alsa = "live"
    /\ \A i \in 1 .. Len(pool) :
         Subscriptions[i] \in Plotters => plot[Subscriptions[i][2]] = "live"
    /\ \A i \in 1 .. Len(stack) :
         \E j \in 1 .. Len(pool) : stack[i] = Subscriptions[j]

(* Positions of the loop of thrd_start, and who it has created.            *)
Starting ==
  /\ mpc \in {"create", "mark"} => position <= Len(pool)
  /\ mpc \in {"setup", "create", "mark", "run"} => runner = Main
  /\ Created \subseteq Range(pool)

(* A handle is on the stack once and has had no request; a thread that is  *)
(* ending has had one.                                                     *)
Requested ==
  /\ \A i, j \in 1 .. Len(stack) : stack[i] = stack[j] => i = j
  /\ \A i \in 1 .. Len(stack) : ~cancel[stack[i]]
  /\ \A t \in Thread : tpc[t] \in Ending => cancel[t]

(* Only the thread that thrd_start is creating is not marked.              *)
Marked ==
  /\ alive \subseteq Created
  /\ mpc \in {"setup", "create", "run"} => Created \subseteq alive
  /\ mpc = "mark" => /\ Created \subseteq alive \cup {pool[position]}
                     /\ pool[position] \in Created
  /\ \A t, u \in Created \ alive : t = u

(* What thrd_destroy has passed is released, and was waited for.           *)
Passed ==
  /\ released \subseteq Range(pool)
  /\ mpc \in {"setup", "create", "mark", "run", "kill", "stats"} => released = {}
  /\ mpc = "stats" => position = 1
  /\ mpc = "join" =>
       \A i \in 1 .. position - 1 :
         pool[i] \in released /\ (pool[i] \in Waited => tpc[pool[i]] = "exited")
  /\ mpc \in {"alsa", "plots", "gone"} =>
       released = Range(pool) /\ \A t \in Waited : tpc[t] = "exited"

Equipped ==
  /\ mpc \in {"create", "mark", "run"} \/ Busy # {} =>
       alsa = "live" /\ \A d \in Display : plot[d] = "live"
  /\ released \cap Busy = {}
  /\ mpc \in {"plots", "gone"} => alsa # "live"
  /\ mpc = "gone" => \A d \in Display : plot[d] # "live"

(* Every handle of a program with threads is on the stack or was popped,   *)
(* that of the sampling thread after all the others.                       *)
Popped(t) == cancel[t] \/ t \in unheard

Order ==
  /\ mpc = "setup" =>
       /\ Len(stack) = Len(pool)
       /\ \A j \in 1 .. Len(pool) :
            \E i \in 1 .. Len(stack) : stack[i] = Subscriptions[j]
  /\ (mpc \in {"create", "mark", "run"} \/ Created # {}) /\ mpc # "stray" =>
       \A t \in Thread : Popped(t) \/ \E i \in 1 .. Len(stack) : stack[i] = t
  /\ stack # << >> => stack[Len(stack)] = Sampling
  /\ \A t \in Thread : active[t] => t \in Created
  /\ cancel[Sampling] => \A t \in Shows : Popped(t)

Rest == Marked /\ Passed /\ Equipped /\ Order

IInv ==
  /\ TypeOK /\ G!Protected
  /\ Subscribed /\ Starting /\ Requested
  /\ Rest

-----------------------------------------------------------------------------
(* Facts about what is subscribed.                                         *)

LEMMA DisplayCases ==
  Display = {"signal"} \/ Display = {"spectrum"}
    \/ Display = {"spectrum", "signal"}
BY SotoAssumption

(* A list made of an element and two lists, as Subscriptions is.           *)
LEMMA Listed ==
  ASSUME NEW S, NEW a \in S, NEW r \in Seq(S), NEW s \in Seq(S)
  PROVE  /\ <<a>> \o r \o s \in Seq(S)
         /\ Len(<<a>> \o r \o s) = 1 + Len(r) + Len(s)
         /\ (<<a>> \o r \o s)[1] = a
         /\ \A i \in 1 .. Len(r) : (<<a>> \o r \o s)[i + 1] = r[i]
         /\ \A i \in 1 .. Len(s) : (<<a>> \o r \o s)[i + 1 + Len(r)] = s[i]
<1>1. <<a>> \in Seq(S) /\ Len(<<a>>) = 1 /\ <<a>>[1] = a
  OBVIOUS
<1>2. <<a>> \o r \in Seq(S) /\ Len(<<a>> \o r) = 1 + Len(r)
      /\ (<<a>> \o r)[1] = a
      /\ \A i \in 1 .. Len(r) : (<<a>> \o r)[i + 1] = r[i]
  BY <1>1
<1> QED
  BY <1>2

(* What main subscribes for one display, if it is shown.                   *)
LEMMA ForDisplayFacts ==
  ASSUME NEW d
  PROVE  /\ ForDisplay(d) \in Seq(Thread)
         /\ d \in Display => /\ Len(ForDisplay(d)) = 2
                            /\ ForDisplay(d)[1] = Plotter(d)
                            /\ ForDisplay(d)[2] = Show(d)
         /\ d \notin Display => Len(ForDisplay(d)) = 0
<1>1. CASE d \in Display
  <2>1. Plotter(d) \in Thread /\ Show(d) \in Thread
    BY <1>1 DEF Thread, Plotters, Shows
  <2> QED
    BY <1>1, <2>1 DEF ForDisplay
<1>2. CASE d \notin Display
  BY <1>2 DEF ForDisplay
<1> QED
  BY <1>1, <1>2

(* Each thread is subscribed, once, and the sampling thread first.         *)
LEMMA SubscriptionsFacts ==
  /\ Subscriptions \in Seq(Thread)
  /\ \A i, j \in 1 .. Len(Subscriptions) :
       Subscriptions[i] = Subscriptions[j] => i = j
  /\ Len(Subscriptions) \in Nat /\ Subscriptions[1] = Sampling
  /\ \A t \in Thread : \E i \in 1 .. Len(Subscriptions) : Subscriptions[i] = t
<1> DEFINE r == ForDisplay("spectrum")
           s == ForDisplay("signal")
<1>1. Subscriptions = <<Sampling>> \o r \o s
  BY DEF Subscriptions
<1>2. r \in Seq(Thread) /\ s \in Seq(Thread) /\ Sampling \in Thread
  BY ForDisplayFacts DEF Thread
<1>3. /\ Subscriptions \in Seq(Thread)
      /\ Len(Subscriptions) = 1 + Len(r) + Len(s)
      /\ Subscriptions[1] = Sampling
      /\ \A i \in 1 .. Len(r) : Subscriptions[i + 1] = r[i]
      /\ \A i \in 1 .. Len(s) : Subscriptions[i + 1 + Len(r)] = s[i]
  <2> HIDE DEF r, s
  <2> QED
    BY <1>1, <1>2, Listed
<1> HIDE DEF r, s
<1>4. /\ Sampling # Plotter("spectrum") /\ Sampling # Plotter("signal")
      /\ Sampling # Show("spectrum") /\ Sampling # Show("signal")
      /\ Plotter("spectrum") # Plotter("signal")
      /\ Plotter("spectrum") # Show("signal") /\ Plotter("spectrum") # Show("spectrum")
      /\ Plotter("signal") # Show("signal") /\ Plotter("signal") # Show("spectrum")
      /\ Show("spectrum") # Show("signal")
  BY DEF Sampling, Plotter, Show
<1>5. CASE Display = {"signal"}
  <2>1. Len(r) = 0 /\ Len(s) = 2 /\ s[1] = Plotter("signal") /\ s[2] = Show("signal")
    BY <1>5, ForDisplayFacts DEF r, s
  <2>2. /\ Len(Subscriptions) = 3
        /\ Subscriptions[2] = Plotter("signal")
        /\ Subscriptions[3] = Show("signal")
    BY <2>1, <1>3
  <2>3. \A i, j \in 1 .. 3 : Subscriptions[i] = Subscriptions[j] => i = j
    BY <1>3, <1>4, <2>2
  <2>4. \A t \in Thread : \E i \in 1 .. 3 : Subscriptions[i] = t
    <3>1. Thread = {Sampling, Plotter("signal"), Show("signal")}
      BY <1>5 DEF Thread, Plotters, Shows
    <3> QED
      BY <1>3, <2>2, <3>1
  <2>5. \A i, j \in 1 .. Len(Subscriptions) :
          Subscriptions[i] = Subscriptions[j] => i = j
    BY <2>2, <2>3
  <2>6. \A t \in Thread : \E i \in 1 .. Len(Subscriptions) : Subscriptions[i] = t
    BY <2>2, <2>4
  <2> QED
    BY <1>3, <2>5, <2>6
<1>6. CASE Display = {"spectrum"}
  <2>1. Len(s) = 0 /\ Len(r) = 2 /\ r[1] = Plotter("spectrum") /\ r[2] = Show("spectrum")
    BY <1>6, ForDisplayFacts DEF r, s
  <2>2. /\ Len(Subscriptions) = 3
        /\ Subscriptions[2] = Plotter("spectrum")
        /\ Subscriptions[3] = Show("spectrum")
    BY <2>1, <1>3
  <2>3. \A i, j \in 1 .. 3 : Subscriptions[i] = Subscriptions[j] => i = j
    BY <1>3, <1>4, <2>2
  <2>4. \A t \in Thread : \E i \in 1 .. 3 : Subscriptions[i] = t
    <3>1. Thread = {Sampling, Plotter("spectrum"), Show("spectrum")}
      BY <1>6 DEF Thread, Plotters, Shows
    <3> QED
      BY <1>3, <2>2, <3>1
  <2>5. \A i, j \in 1 .. Len(Subscriptions) :
          Subscriptions[i] = Subscriptions[j] => i = j
    BY <2>2, <2>3
  <2>6. \A t \in Thread : \E i \in 1 .. Len(Subscriptions) : Subscriptions[i] = t
    BY <2>2, <2>4
  <2> QED
    BY <1>3, <2>5, <2>6
<1>7. CASE Display = {"spectrum", "signal"}
  <2>1. /\ Len(s) = 2 /\ s[1] = Plotter("signal") /\ s[2] = Show("signal")
        /\ Len(r) = 2 /\ r[1] = Plotter("spectrum") /\ r[2] = Show("spectrum")
    BY <1>7, ForDisplayFacts DEF r, s
  <2>2. /\ Len(Subscriptions) = 5
        /\ Subscriptions[2] = Plotter("spectrum") /\ Subscriptions[3] = Show("spectrum")
        /\ Subscriptions[4] = Plotter("signal") /\ Subscriptions[5] = Show("signal")
    BY <2>1, <1>3
  <2>3. \A i, j \in 1 .. 5 : Subscriptions[i] = Subscriptions[j] => i = j
    BY <1>3, <1>4, <2>2
  <2>4. \A t \in Thread : \E i \in 1 .. 5 : Subscriptions[i] = t
    <3>1. Thread = {Sampling, Plotter("spectrum"), Show("spectrum"),
                    Plotter("signal"), Show("signal")}
      BY <1>7 DEF Thread, Plotters, Shows
    <3> QED
      BY <1>3, <2>2, <3>1
  <2>5. \A i, j \in 1 .. Len(Subscriptions) :
          Subscriptions[i] = Subscriptions[j] => i = j
    BY <2>2, <2>3
  <2>6. \A t \in Thread : \E i \in 1 .. Len(Subscriptions) : Subscriptions[i] = t
    BY <2>2, <2>4
  <2> QED
    BY <1>3, <2>5, <2>6
<1> QED
  BY <1>5, <1>6, <1>7, DisplayCases

(* The result of a sort is a list of threads, and not an empty one.        *)
LEMMA SortedPool ==
  ASSUME NEW order \in SetToSeqs(Thread)
  PROVE  order \in Seq(Thread) /\ Len(order) \in Nat \ {0}
<1>1. IsFiniteSet(Thread)
  <2> DEFINE A == {Sampling, Plotter("signal"), Show("signal"),
                   Plotter("spectrum"), Show("spectrum")}
  <2>1. IsFiniteSet(A)
    <3>1. IsFiniteSet({} \cup {Sampling})
      BY FS_EmptySet, FS_AddElement
    <3>2. IsFiniteSet({Sampling} \cup {Plotter("signal")})
      BY <3>1, FS_AddElement
    <3>3. IsFiniteSet({Sampling, Plotter("signal")} \cup {Show("signal")})
      BY <3>2, FS_AddElement
    <3>4. IsFiniteSet({Sampling, Plotter("signal"), Show("signal")}
                        \cup {Plotter("spectrum")})
      BY <3>3, FS_AddElement
    <3>5. IsFiniteSet({Sampling, Plotter("signal"), Show("signal"),
                       Plotter("spectrum")} \cup {Show("spectrum")})
      BY <3>4, FS_AddElement
    <3> QED
      BY <3>5
  <2>2. Thread \subseteq A
    BY SotoAssumption DEF Thread, Plotters, Shows
  <2> QED
    BY <2>1, <2>2, FS_Subset
<1>2. Cardinality(Thread) \in Nat /\ Cardinality(Thread) # 0
  BY <1>1, FS_CardinalityType, FS_EmptySet DEF Thread
<1>3. order \in [1 .. Cardinality(Thread) -> Thread]
  BY DEF SetToSeqs
<1> QED
  BY <1>2, <1>3

(* GP is G with the facts that are proved of it.                           *)
LEMMA SameThreads ==
  /\ G!ThreadTypeOK <=> GP!ThreadTypeOK
  /\ G!Protected <=> GP!Protected
  /\ G!ThreadTypeOK' <=> GP!ThreadTypeOK'
  /\ G!Protected' <=> GP!Protected'
  /\ \A t \in Thread : /\ G!Create(t) <=> GP!Create(t)
                       /\ G!ThreadStep(t) <=> GP!ThreadStep(t)
                       /\ G!SendKill(t) <=> GP!SendKill(t)
<1>1. (G!ThreadTypeOK <=> GP!ThreadTypeOK) /\ (G!Protected <=> GP!Protected)
      /\ (G!ThreadTypeOK' <=> GP!ThreadTypeOK') /\ (G!Protected' <=> GP!Protected')
  BY Zenon DEF G!ThreadTypeOK, GP!ThreadTypeOK, G!Protected, GP!Protected
<1>2. ASSUME NEW t \in Thread
      PROVE  /\ G!Create(t) <=> GP!Create(t)
             /\ G!ThreadStep(t) <=> GP!ThreadStep(t)
             /\ G!SendKill(t) <=> GP!SendKill(t)
  BY Zenon
     DEF G!Create, GP!Create, G!Moves, GP!Moves, G!cancelVars, GP!cancelVars,
         G!handleVars, GP!handleVars, G!SendKill, GP!SendKill, G!ThreadStep,
         GP!ThreadStep, G!DisableCancel, GP!DisableCancel, G!Activate, GP!Activate,
         G!Identify, GP!Identify, G!WakeUp, GP!WakeUp, G!CallbackDone,
         GP!CallbackDone, G!CallbackStops, GP!CallbackStops, G!NotCancelled,
         GP!NotCancelled, G!Cancelled, GP!Cancelled, G!CancellationPoint,
         GP!CancellationPoint, G!Finish, GP!Finish, G!FreeContext, GP!FreeContext
<1> QED
  BY <1>1, <1>2

(* exit_handler and main leave the threads alone unless they say so.       *)
LEMMA ThreadsUnchanged ==
  ASSUME IInv, UNCHANGED threadVars
  PROVE  /\ G!ThreadTypeOK' /\ G!Protected'
         /\ Created' = Created
         /\ UNCHANGED <<runner, alive>> => Busy' = Busy /\ Waited' = Waited
         /\ UNCHANGED killVars /\ mpc # "setup"
              /\ (mpc' \in {"create", "mark", "run"} => mpc \in {"create", "mark", "run"})
              /\ (mpc = "stray" => mpc' = "stray") /\ mpc' # "setup" => Order'
<1>1. G!ThreadTypeOK'
  <2>1. (mpc' = "stray") \in BOOLEAN
    BY Zenon
  <2> QED
    BY <2>1 DEF IInv, TypeOK, threadVars, G!ThreadTypeOK
<1>2. G!Protected'
  BY DEF IInv, threadVars, G!Protected
<1>3. Created' = Created
  BY DEF threadVars, Created
<1>4. UNCHANGED <<runner, alive>> => Busy' = Busy /\ Waited' = Waited
  BY DEF threadVars, Busy, Waited
<1>5. ASSUME UNCHANGED killVars, mpc # "setup", mpc' # "setup",
             mpc' \in {"create", "mark", "run"} => mpc \in {"create", "mark", "run"},
             mpc = "stray" => mpc' = "stray"
      PROVE  Order'
  BY <1>3, <1>5 DEF IInv, Rest, Order, Popped, threadVars, killVars
<1> QED
  BY <1>1, <1>2, <1>3, <1>4, <1>5

LEMMA MainIsNoThread == Main \notin Thread
BY DEF Main, Thread, Plotters, Shows, Sampling, Plotter, Show

-----------------------------------------------------------------------------
(* The invariant is inductive.                                             *)

LEMMA InitIInv == Init => IInv
<1> SUFFICES ASSUME Init PROVE IInv
  OBVIOUS
<1>1. G!ThreadTypeOK /\ G!Protected
  <2>1. (mpc = "stray") \in BOOLEAN
    BY Zenon
  <2> QED
    BY <2>1 DEF Init, G!ThreadInit, G!ThreadTypeOK, G!Protected
<1>2. Created = {}
  BY DEF Init, G!ThreadInit, Created
<1>3. \A t \in Thread : ~cancel[t]
  BY DEF Init, G!ThreadInit
<1>4. Busy = {} /\ \A t \in Thread : tpc[t] \notin Ending
  BY <1>2 DEF Busy, Waited, Init, G!ThreadInit, Ending, GP!Ending
<1>5. TypeOK
  <2>1. stack \in Seq(Thread) /\ pool \in Seq(Thread)
        /\ position \in 1 .. Len(pool) + 1
    BY DEF Init
  <2>2. mpc = "setup" /\ success \in BOOLEAN /\ runner \in Thread \cup {Main}
        /\ held = {}
    BY DEF Init
  <2>3. plot \in [Display -> {"none", "live", "freed"}]
        /\ alsa \in {"none", "live", "freed"}
    BY DEF Init
  <2>4. alive = {} /\ released = {} /\ served = {} /\ executed = {}
        /\ unheard = {}
    BY DEF Init
  <2> QED
    BY <1>1, <2>1, <2>2, <2>3, <2>4 DEF TypeOK
<1>6. Subscribed
  BY <1>2, <1>3 DEF Init, Subscribed
<1>7. Starting /\ Requested
  BY <1>2, <1>4 DEF Init, Starting, Requested
<1>8. Marked /\ Passed /\ Equipped
  BY <1>2, <1>4 DEF Init, Marked, Passed, Equipped, Exiting
<1>9. Order
  <2>1. \A t \in Thread : ~active[t] /\ ~cancel[t]
    BY DEF Init, G!ThreadInit
  <2>2. Sampling \in Thread
    BY DEF Thread
  <2> QED
    BY <1>2, <2>1, <2>2 DEF Init, Order
<1> QED
  BY <1>1, <1>5, <1>6, <1>7, <1>8, <1>9 DEF IInv, Rest

(* exit, wherever it is called.                                            *)
LEMMA ExitKeeps ==
  ASSUME IInv, NEW ok \in BOOLEAN, NEW t \in Thread \cup {Main}, Exit(ok, t),
         mpc \in {"setup", "create", "mark", "run"},
         held' \in {{}, {"samples"}} \cup {{d} : d \in Display},
         UNCHANGED <<threadVars, killVars, position, poolVars, deviceVars, served>>
  PROVE  IInv'
<1> USE DEF poolVars, deviceVars, killVars, Exit
<1>1. UNCHANGED threadVars /\ Created' = Created
      /\ G!ThreadTypeOK' /\ G!Protected'
  BY ThreadsUnchanged
<1>2. TypeOK'
  BY <1>1 DEF IInv, TypeOK, Exiting
<1>3. Subscribed' /\ Starting'
  BY <1>1 DEF IInv, Subscribed, Starting
<1>4. Requested'
  BY <1>1 DEF IInv, Requested, threadVars
<1>5. runner = Main /\ Waited = alive /\ alive \subseteq Thread
      /\ alive' = alive /\ Waited' \subseteq Waited
  BY MainIsNoThread DEF IInv, Starting, TypeOK, Waited
<1>6. Busy' \subseteq Busy
  BY <1>1, <1>5 DEF Busy, threadVars, Ending, GP!Ending
<1>7. Marked' /\ Passed'
  BY <1>1, <1>5 DEF IInv, Rest, Marked, Passed
<1>8. Busy # {} => mpc # "setup"
  BY <1>5 DEF IInv, Subscribed, Rest, Marked, Busy
<1>9. Equipped'
  BY <1>6, <1>8 DEF IInv, Rest, Equipped
<1>10. Order'
  <2>1. mpc = "setup" => Created = {}
    BY DEF IInv, Subscribed
  <2> QED
    BY <1>1, <2>1 DEF IInv, Rest, Order, Popped, threadVars
<1> QED
  BY <1>1, <1>2, <1>3, <1>4, <1>7, <1>9, <1>10 DEF IInv, Rest

(* main, up to the sort.                                                   *)
LEMMA SetupKeeps ==
  ASSUME IInv, OpenSoundCard \/ Subscribe
  PROVE  IInv'
<1> USE DEF poolVars, deviceVars, jobVars, exitVars, killVars
<1>1. /\ UNCHANGED <<threadVars, exitVars, position, alive, released>>
      /\ UNCHANGED jobVars
      /\ mpc = "setup" /\ mpc' = "setup"
  BY DEF OpenSoundCard, Subscribe
<1>2. /\ G!ThreadTypeOK' /\ G!Protected'
      /\ Created' = Created /\ Busy' = Busy /\ Created = {} /\ Busy = {}
      /\ alive = {} /\ Waited = {} /\ Waited' = {}
  BY <1>1, ThreadsUnchanged DEF IInv, Subscribed, Rest, Marked, Busy, Waited
<1>3. ASSUME TypeOK', Subscribed', Requested', Order',
             Range(pool) \subseteq Range(pool')
      PROVE  IInv'
  <2>1. Starting'
    BY <1>1, <1>2 DEF IInv, Starting
  <2>2. Marked' /\ Passed' /\ Equipped'
    BY <1>1, <1>2, <1>3 DEF IInv, Rest, Marked, Passed, Equipped, Exiting
  <2> QED
    BY <1>2, <1>3, <2>1, <2>2 DEF IInv, Rest
<1>4. CASE OpenSoundCard
  <2>1. TypeOK'
    BY <1>2, <1>4 DEF OpenSoundCard, IInv, TypeOK
  <2>2. Subscribed'
    BY <1>2, <1>4 DEF OpenSoundCard, IInv, Subscribed, threadVars
  <2>3. Requested'
    BY <1>1, <1>4 DEF OpenSoundCard, IInv, Requested, threadVars
  <2>4. Order'
    BY <1>1, <1>2, <1>4 DEF OpenSoundCard, IInv, Rest, Order, Popped, threadVars
  <2> QED
    BY <1>3, <1>4, <2>1, <2>2, <2>3, <2>4 DEF OpenSoundCard
<1>5. CASE Subscribe
  <2> DEFINE k == Len(pool) + 1
             t == Subscriptions[k]
  <2>1. /\ pool' = Append(pool, t) /\ stack' = <<t>> \o stack
        /\ pool \in Seq(Thread) /\ stack \in Seq(Thread)
        /\ k \in 1 .. Len(Subscriptions) /\ t \in Thread
        /\ alsa = "live" /\ alsa' = alsa /\ unheard' = unheard
    BY <1>5, SubscriptionsFacts DEF Subscribe, IInv, TypeOK
  <2>2. plot' = IF t \in Plotters THEN [plot EXCEPT ![t[2]] = "live"] ELSE plot
    BY <1>5 DEF Subscribe
  <2> HIDE DEF k, t
  <2>3. /\ pool' \in Seq(Thread) /\ Len(pool') = Len(pool) + 1
        /\ \A i \in 1 .. Len(pool) : pool'[i] = pool[i]
    BY <2>1
  <2>4. /\ stack' \in Seq(Thread) /\ Len(stack') = Len(stack) + 1
        /\ stack'[1] = t
        /\ \A i \in 2 .. Len(stack') : stack'[i] = stack[i - 1]
    BY <2>1
  <2>9. /\ plot' \in [Display -> {"none", "live", "freed"}]
        /\ \A d \in Display : plot[d] = "live" => plot'[d] = "live"
        /\ t \in Plotters => plot'[t[2]] = "live"
    <3>1. plot \in [Display -> {"none", "live", "freed"}]
      BY DEF IInv, TypeOK
    <3>2. CASE t \in Plotters
      <4>1. t[2] \in Display
        BY <3>2 DEF Plotters, Plotter
      <4>2. plot' = [plot EXCEPT ![t[2]] = "live"]
        BY <2>2, <3>2
      <4> QED
        BY <3>1, <4>1, <4>2
    <3>3. CASE t \notin Plotters
      BY <2>2, <3>1, <3>3
    <3> QED
      BY <3>2, <3>3
  <2>5. TypeOK'
    <3>1. plot' \in [Display -> {"none", "live", "freed"}]
      BY <2>9
    <3>2. position' \in 1 .. Len(pool') + 1
      BY <1>1, <2>3 DEF IInv, TypeOK
    <3> QED
      BY <1>1, <1>2, <2>1, <2>3, <2>4, <3>1, <3>2 DEF IInv, TypeOK
  <2>6. Subscribed'
    <3>1. \A i \in 1 .. Len(pool') :
            Subscriptions[i] \in Plotters => plot'[Subscriptions[i][2]] = "live"
      <4>1. \A i \in 1 .. Len(pool) :
              Subscriptions[i] \in Plotters => plot[Subscriptions[i][2]] = "live"
        BY <1>1 DEF IInv, Subscribed
      <4>2. \A u \in Plotters : u[2] \in Display
        BY DEF Plotters, Plotter
      <4>3. k = Len(pool') /\ k = Len(pool) + 1 /\ t = Subscriptions[k]
        BY <2>3 DEF k, t
      <4>4. \A i \in 1 .. Len(pool') : i \in 1 .. Len(pool) \/ i = k
        BY <2>1, <4>3
      <4> QED
        BY <2>9, <4>1, <4>2, <4>3, <4>4
    <3>2. \A i \in 1 .. Len(stack') :
            \E j \in 1 .. Len(pool') : stack'[i] = Subscriptions[j]
      <4>1. \A i \in 1 .. Len(stack) :
              \E j \in 1 .. Len(pool) : stack[i] = Subscriptions[j]
        BY <1>1 DEF IInv, Subscribed
      <4>2. k \in 1 .. Len(pool') /\ t = Subscriptions[k]
        BY <2>1, <2>3 DEF k, t
      <4>3. 1 .. Len(pool) \subseteq 1 .. Len(pool')
        BY <2>1, <2>3
      <4> SUFFICES ASSUME NEW i \in 1 .. Len(stack')
                   PROVE  \E j \in 1 .. Len(pool') : stack'[i] = Subscriptions[j]
        OBVIOUS
      <4>4. CASE i = 1
        BY <2>4, <4>2, <4>4
      <4>5. CASE i # 1
        <5>1. i \in 2 .. Len(stack') /\ i - 1 \in 1 .. Len(stack)
          BY <2>1, <2>4, <4>5
        <5> QED
          BY <2>4, <4>1, <4>3, <5>1
      <4> QED
        BY <4>4, <4>5
    <3> QED
      BY <1>1, <1>2, <2>1, <2>3, <3>1, <3>2 DEF IInv, Subscribed, threadVars, k
  <2>7. Requested'
    <3>1. \A i \in 1 .. Len(stack) : stack[i] # t
      <4>1. \A i \in 1 .. Len(stack) :
              \E j \in 1 .. Len(pool) : stack[i] = Subscriptions[j]
        BY <1>1 DEF IInv, Subscribed
      <4> QED
        BY <2>1, <4>1, SubscriptionsFacts DEF k, t
    <3>2. \A i, j \in 1 .. Len(stack') : stack'[i] = stack'[j] => i = j
      <4>1. \A i, j \in 1 .. Len(stack) : stack[i] = stack[j] => i = j
        BY DEF IInv, Requested
      <4>2. \A i \in 2 .. Len(stack') : i - 1 \in 1 .. Len(stack)
        BY <2>1, <2>4
      <4>3. \A i \in 1 .. Len(stack') : i = 1 \/ i \in 2 .. Len(stack')
        BY <2>4
      <4>4. \A i, j \in 2 .. Len(stack') : stack'[i] = stack'[j] => i = j
        BY <2>4, <4>1, <4>2
      <4>5. \A i \in 2 .. Len(stack') : stack'[i] # stack'[1]
        BY <2>4, <3>1, <4>2
      <4> QED
        BY <4>3, <4>4, <4>5
    <3>3. \A i \in 1 .. Len(stack') : ~cancel'[stack'[i]]
      BY <1>1, <2>1, <2>4 DEF IInv, Subscribed, threadVars
    <3> QED
      BY <1>1, <3>2, <3>3 DEF IInv, Requested, threadVars
  <2>8. Range(pool) \subseteq Range(pool')
    <3>1. DOMAIN pool = 1 .. Len(pool) /\ DOMAIN pool' = 1 .. Len(pool')
      BY <2>1, <2>3
    <3>2. \A i \in DOMAIN pool : i \in DOMAIN pool' /\ pool'[i] = pool[i]
      BY <2>1, <2>3, <3>1
    <3> QED
      BY <3>2 DEF Range
  <2>10. Order'
    <3>1. Len(stack) = Len(pool) /\ Len(stack') = Len(pool')
      BY <1>1, <2>1, <2>3, <2>4 DEF IInv, Rest, Order
    <3>2. \A j \in 1 .. Len(pool') :
            \E i \in 1 .. Len(stack') : stack'[i] = Subscriptions[j]
      <4> SUFFICES ASSUME NEW j \in 1 .. Len(pool')
                   PROVE  \E i \in 1 .. Len(stack') : stack'[i] = Subscriptions[j]
        OBVIOUS
      <4>1. CASE j = k
        BY <2>1, <2>4, <4>1 DEF t
      <4>2. CASE j # k
        <5>1. j \in 1 .. Len(pool)
          BY <2>1, <2>3, <4>2 DEF k
        <5>2. PICK i \in 1 .. Len(stack) : stack[i] = Subscriptions[j]
          BY <1>1, <5>1 DEF IInv, Rest, Order
        <5>3. i + 1 \in 2 .. Len(stack') /\ i + 1 \in 1 .. Len(stack')
              /\ (i + 1) - 1 = i
          BY <2>1, <2>4
        <5>4. stack'[i + 1] = stack[i]
          BY <2>4, <5>3
        <5> QED
          BY <5>2, <5>3, <5>4
      <4> QED
        BY <4>1, <4>2
    <3>3. stack'[Len(stack')] = Sampling
      <4>1. CASE stack = << >>
        <5>1. k = 1 /\ Len(stack') = 1
          BY <2>1, <2>4, <3>1, <4>1 DEF k
        <5> QED
          BY <2>4, <5>1, SubscriptionsFacts DEF t
      <4>2. CASE stack # << >>
        <5>1. Len(stack) \in Nat \ {0} /\ Len(stack') \in 2 .. Len(stack')
              /\ Len(stack') - 1 = Len(stack)
          BY <2>1, <2>4, <4>2
        <5> QED
          BY <2>4, <4>2, <5>1 DEF IInv, Rest, Order
      <4> QED
        BY <4>1, <4>2
    <3> QED
      BY <1>1, <1>2, <2>1, <3>1, <3>2, <3>3 DEF IInv, Rest, Order, Popped, threadVars
  <2> QED
    BY <1>3, <2>5, <2>6, <2>7, <2>8, <2>10
<1> QED
  BY <1>4, <1>5

(* thrd_start.                                                             *)
LEMMA SortKeeps ==
  ASSUME IInv, SortThreads
  PROVE  IInv'
<1> USE DEF poolVars, deviceVars, jobVars, exitVars, killVars
<1>1. /\ UNCHANGED <<threadVars, exitVars, killVars, alive, released, deviceVars,
                     jobVars>>
      /\ mpc = "setup" /\ mpc' = "create" /\ position' = 1
      /\ Len(pool) = Len(Subscriptions)
  BY DEF SortThreads
<1>2. pool' \in Seq(Thread) /\ Len(pool') \in Nat \ {0}
  BY SortedPool DEF SortThreads
<1>3. /\ G!ThreadTypeOK' /\ G!Protected'
      /\ Created' = Created /\ Busy' = Busy /\ Created = {} /\ Busy = {}
      /\ alive = {} /\ Waited = {} /\ Waited' = {}
  BY <1>1, ThreadsUnchanged DEF IInv, Subscribed, Rest, Marked, Busy, Waited
<1>4. TypeOK'
  <2>1. position' \in 1 .. Len(pool') + 1
    BY <1>1, <1>2
  <2> QED
    BY <1>1, <1>2, <1>3, <2>1 DEF IInv, TypeOK
<1>5. Subscribed' /\ Starting'
  BY <1>1, <1>2, <1>3 DEF IInv, Subscribed, Starting
<1>6. Requested'
  BY <1>1 DEF IInv, Requested, threadVars
<1>7. Marked' /\ Passed' /\ Equipped'
  <2>1. alsa = "live" /\ \A d \in Display : plot[d] = "live"
    <3>1. Len(Subscriptions) \in Nat \ {0}
      <4>1. Sampling \in Thread
        BY DEF Thread
      <4> QED
        BY <4>1, SubscriptionsFacts
    <3>2. pool # << >>
      BY <1>1, <3>1
    <3>3. \A d \in Display : Plotter(d) \in Plotters /\ Plotter(d)[2] = d
      BY DEF Plotters, Plotter
    <3>4. \A i \in 1 .. Len(Subscriptions) :
            Subscriptions[i] \in Plotters => plot[Subscriptions[i][2]] = "live"
      BY <1>1 DEF IInv, Subscribed
    <3>5. \A d \in Display : plot[d] = "live"
      <4>1. Plotters \subseteq Thread
        BY DEF Thread
      <4> QED
        BY <3>3, <3>4, <4>1, SubscriptionsFacts
    <3> QED
      BY <1>1, <3>2, <3>5 DEF IInv, Subscribed
  <2>2. released = {}
    BY <1>1 DEF IInv, Rest, Passed
  <2> QED
    BY <1>1, <1>3, <2>1, <2>2 DEF Marked, Passed, Equipped
<1>8. Order'
  <2>1. \A t \in Thread : \E i \in 1 .. Len(stack) : stack[i] = t
    <3> SUFFICES ASSUME NEW t \in Thread
                 PROVE  \E i \in 1 .. Len(stack) : stack[i] = t
      OBVIOUS
    <3>1. PICK j \in 1 .. Len(Subscriptions) : Subscriptions[j] = t
      BY SubscriptionsFacts
    <3>2. \A k \in 1 .. Len(pool) :
            \E i \in 1 .. Len(stack) : stack[i] = Subscriptions[k]
      BY <1>1 DEF IInv, Rest, Order
    <3> QED
      BY <1>1, <3>1, <3>2
  <2> QED
    BY <1>1, <1>3, <2>1 DEF IInv, Rest, Order, Popped, threadVars
<1> QED
  BY <1>3, <1>4, <1>5, <1>6, <1>7, <1>8 DEF IInv, Rest

LEMMA CreateKeeps ==
  ASSUME IInv, CreateThread
  PROVE  IInv'
<1> USE DEF poolVars, deviceVars, jobVars, exitVars, killVars
<1> DEFINE t == pool[position]
<1>1. /\ UNCHANGED <<exitVars, killVars, position, poolVars, deviceVars, jobVars>>
      /\ mpc = "create" /\ mpc' = "mark" /\ G!Create(t)
  BY DEF CreateThread
<1>2. position \in 1 .. Len(pool) /\ t \in Thread /\ t \in Range(pool)
  BY <1>1 DEF IInv, Starting, TypeOK, Range
<1> HIDE DEF t
<1>3. G!ThreadTypeOK' /\ G!Protected'
  <2>1. (mpc' = "stray") \in BOOLEAN
    BY Zenon
  <2> QED
    BY <1>1, <1>2, <2>1, GP!ThreadStepKeeps, SameThreads DEF IInv, TypeOK
<1>4. /\ tpc' = [tpc EXCEPT ![t] = "init"] /\ cancel' = cancel
      /\ tpc[t] = "none" /\ active' = active
      /\ tpc \in [Thread -> {"none", "init", "activate", "identify", "wait",
                             "callback", "test", "finish", "free", "exited"}]
  BY <1>1 DEF G!Create, G!Moves, G!cancelVars, G!handleVars, IInv, TypeOK,
              G!ThreadTypeOK
<1>5. Created' = Created \cup {t}
  BY <1>2, <1>4 DEF Created
<1>6. TypeOK'
  BY <1>1, <1>3 DEF IInv, TypeOK
<1>7. Subscribed' /\ Starting'
  BY <1>1, <1>2, <1>5 DEF IInv, Subscribed, Starting
<1>8. Requested'
  <2>1. \A u \in Thread : tpc'[u] \in Ending => tpc[u] \in Ending
    BY <1>2, <1>4 DEF Ending, GP!Ending
  <2> QED
    BY <1>1, <1>4, <2>1 DEF IInv, Requested, Ending, GP!Ending
<1>9. Marked'
  <2>1. Created \subseteq alive /\ alive \subseteq Created
    BY <1>1 DEF IInv, Rest, Marked
  <2> QED
    BY <1>1, <1>5, <2>1 DEF Marked, t
<1>10. Passed' /\ Equipped'
  <2>1. t \notin alive
    BY <1>4 DEF IInv, Rest, Marked, Created
  <2>2. Waited' = Waited /\ Busy' = Busy
    BY <1>1, <1>2, <1>4, <2>1 DEF Waited, Busy, IInv, TypeOK, Ending, GP!Ending
  <2>3. Passed'
    BY <1>1 DEF IInv, Rest, Passed
  <2> QED
    BY <1>1, <2>2, <2>3 DEF IInv, Rest, Equipped
<1>11. Order'
  BY <1>1, <1>4, <1>5 DEF IInv, Rest, Order, Popped
<1> QED
  BY <1>3, <1>6, <1>7, <1>8, <1>9, <1>10, <1>11 DEF IInv, Rest

LEMMA MarkKeeps ==
  ASSUME IInv, MarkAlive
  PROVE  IInv'
<1> USE DEF poolVars, deviceVars, jobVars, exitVars, killVars
<1>1. /\ UNCHANGED <<threadVars, exitVars, killVars, pool, released, deviceVars,
                     jobVars>>
      /\ mpc = "mark" /\ alive' = alive \cup {pool[position]}
      /\ position' = position + 1
      /\ mpc' = IF position = Len(pool) THEN "run" ELSE "create"
  BY DEF MarkAlive
<1>2. /\ G!ThreadTypeOK' /\ G!Protected' /\ Created' = Created /\ Order'
  BY <1>1, ThreadsUnchanged
<1>3. pool \in Seq(Thread) /\ position \in 1 .. Len(pool)
  BY <1>1 DEF IInv, TypeOK, Starting
<1>4. pool[position] \in Thread
  BY <1>3
<1>5. TypeOK'
  BY <1>1, <1>2, <1>3, <1>4 DEF IInv, TypeOK
<1>6. Subscribed' /\ Starting'
  BY <1>1, <1>2, <1>3 DEF IInv, Subscribed, Starting
<1>7. Requested'
  BY <1>1 DEF IInv, Requested, threadVars
<1>8. Marked'
  <2>1. /\ Created \subseteq alive \cup {pool[position]}
        /\ pool[position] \in Created /\ alive \subseteq Created
    BY <1>1 DEF IInv, Rest, Marked
  <2> QED
    BY <1>1, <1>2, <2>1 DEF Marked
<1>9. Passed' /\ Equipped'
  BY <1>1 DEF IInv, Rest, Passed, Equipped
<1> QED
  BY <1>2, <1>5, <1>6, <1>7, <1>8, <1>9 DEF IInv, Rest

(* The requests of exit_handler.                                           *)
LEMMA KillKeeps ==
  ASSUME IInv, KillNext
  PROVE  /\ IInv'
         /\ Head(stack) \in Thread /\ context[Head(stack)] = "live"
<1> USE DEF poolVars, deviceVars, jobVars, exitVars, killVars
<1> DEFINE t == Head(stack)
<1>1. /\ UNCHANGED <<exitVars, position, poolVars, deviceVars, jobVars>>
      /\ mpc = "kill" /\ mpc' \in {"kill", "stray"} /\ Told(t)
      /\ stack' = Tail(stack) /\ G!SendKill(t)
      /\ stack \in Seq(Thread) /\ Len(stack) \in Nat \ {0}
  BY DEF KillNext, Told, IInv, TypeOK
<1>2. /\ stack' \in Seq(Thread) /\ Len(stack') = Len(stack) - 1
      /\ \A i \in 1 .. Len(stack') : stack'[i] = stack[i + 1]
      /\ t = stack[1] /\ t \in Thread
  BY <1>1
<1> HIDE DEF t
<1>3. G!ThreadTypeOK' /\ G!Protected'
  <2>1. (mpc' = "stray") \in BOOLEAN
    BY Zenon
  <2> QED
    BY <1>1, <1>2, <2>1, GP!ThreadStepKeeps, SameThreads DEF IInv, TypeOK
<1>4. /\ tpc' = tpc /\ \A u \in Thread : u # t => cancel'[u] = cancel[u]
      /\ \A u \in Thread : cancel[u] => cancel'[u]
  BY <1>1, <1>2 DEF G!SendKill, IInv, TypeOK, G!ThreadTypeOK
<1>5. Created' = Created /\ Busy' = Busy /\ Waited' = Waited
  BY <1>1, <1>4 DEF Created, Busy, Waited
<1>6. TypeOK'
  <2>1. unheard' \subseteq Thread
    BY <1>1, <1>2 DEF Told, IInv, TypeOK
  <2> QED
    BY <1>1, <1>2, <1>3, <2>1 DEF IInv, TypeOK, Exiting, Ended
<1>7. Subscribed' /\ Starting'
  BY <1>1, <1>5 DEF IInv, Subscribed, Starting
<1>8. Requested'
  <2>1. /\ \A i, j \in 1 .. Len(stack) : stack[i] = stack[j] => i = j
        /\ \A i \in 1 .. Len(stack) : ~cancel[stack[i]]
    BY DEF IInv, Requested
  <2>2. \A i \in 1 .. Len(stack') :
          i + 1 \in 1 .. Len(stack) /\ i + 1 # 1 /\ 1 \in 1 .. Len(stack)
    BY <1>1, <1>2
  <2>3. \A i \in 1 .. Len(stack') : stack'[i] \in Thread /\ stack'[i] # t
    BY <1>1, <1>2, <2>1, <2>2
  <2>4. \A i \in 1 .. Len(stack') : ~cancel'[stack'[i]]
    BY <1>2, <1>4, <2>1, <2>2, <2>3
  <2>5. \A i, j \in 1 .. Len(stack') : stack'[i] = stack'[j] => i = j
    <3> SUFFICES ASSUME NEW i \in 1 .. Len(stack'), NEW j \in 1 .. Len(stack'),
                        stack'[i] = stack'[j]
                 PROVE  i = j
      OBVIOUS
    <3>1. stack[i + 1] = stack[j + 1] => i + 1 = j + 1
      BY <2>1, <2>2
    <3> QED
      BY <1>2, <3>1
  <2>6. \A u \in Thread : tpc'[u] \in Ending => cancel'[u]
    BY <1>4 DEF IInv, Requested
  <2> QED
    BY <2>4, <2>5, <2>6 DEF Requested, Ending, GP!Ending
<1>9. Marked' /\ Passed' /\ Equipped'
  BY <1>1, <1>5 DEF IInv, Rest, Marked, Passed, Equipped
<1>11. Order'
  <2>1. \A u \in Thread : Popped(u) => Popped(u)'
    BY <1>1, <1>4 DEF Popped, Told
  <2>2. mpc' # "stray" => cancel'[t] \/ t \in unheard'
    <3> SUFFICES ASSUME mpc' # "stray" PROVE cancel'[t] \/ t \in unheard'
      OBVIOUS
    <3>1. CASE ~active[t]
      BY <1>1, <3>1 DEF Told
    <3>2. CASE active[t]
      <4>1. self[t]
        BY <1>1, <3>2 DEF Told, G!StrayCancel
      <4>2. cancel'[t] = ((active[t] /\ self[t]) \/ cancel[t])
        BY <1>1, <1>2 DEF G!SendKill, IInv, TypeOK, G!ThreadTypeOK
      <4> QED
        BY <3>2, <4>1, <4>2
    <3> QED
      BY <3>1, <3>2
  <2>3. \A i \in 1 .. Len(stack) :
          i = 1 \/ (i - 1 \in 1 .. Len(stack') /\ stack'[i - 1] = stack[i])
    BY <1>1, <1>2
  <2>4. (Created' # {} /\ mpc' # "stray") =>
          \A u \in Thread :
            Popped(u)' \/ \E i \in 1 .. Len(stack') : stack'[i] = u
    <3> SUFFICES ASSUME Created # {}, mpc' # "stray", NEW u \in Thread, ~Popped(u)'
                 PROVE  \E i \in 1 .. Len(stack') : stack'[i] = u
      BY <1>5
    <3>1. PICK i \in 1 .. Len(stack) : stack[i] = u
      BY <1>1, <2>1 DEF IInv, Rest, Order
    <3>2. i # 1
      BY <1>2, <2>2, <3>1 DEF Popped
    <3> QED
      BY <2>3, <3>1, <3>2
  <2>5. stack' # << >> => stack'[Len(stack')] = Sampling
    <3> SUFFICES ASSUME stack' # << >> PROVE stack'[Len(stack')] = Sampling
      OBVIOUS
    <3>1. Len(stack') \in 1 .. Len(stack') /\ Len(stack') + 1 = Len(stack)
      BY <1>1, <1>2
    <3> QED
      BY <1>1, <1>2, <3>1 DEF IInv, Rest, Order
  <2>6. \A u \in Thread : active'[u] => u \in Created'
    BY <1>1, <1>5 DEF G!SendKill, G!handleVars, IInv, Rest, Order
  <2>7. cancel'[Sampling] => \A u \in Shows : Popped(u)'
    <3>1. CASE cancel[Sampling]
      BY <2>1, <3>1 DEF IInv, Rest, Order, Thread
    <3>2. CASE ~cancel[Sampling]
      <4> SUFFICES ASSUME cancel'[Sampling], NEW u \in Shows PROVE Popped(u)'
        OBVIOUS
      <4>1. Sampling \in Thread /\ u \in Thread /\ u # Sampling
        BY DEF Thread, Shows, Show, Sampling
      <4>2. t = Sampling /\ active[t]
        BY <1>1, <1>2, <1>4, <3>2, <4>1 DEF G!SendKill, IInv, TypeOK, G!ThreadTypeOK
      <4>3. Len(stack) = 1
        <5>1. stack[Len(stack)] = stack[1] /\ Len(stack) \in 1 .. Len(stack)
              /\ 1 \in 1 .. Len(stack)
          BY <1>1, <1>2, <4>2 DEF IInv, Rest, Order
        <5> QED
          BY <5>1 DEF IInv, Requested
      <4>4. Created # {}
        BY <4>1, <4>2 DEF IInv, Rest, Order
      <4>5. Popped(u) \/ \E i \in 1 .. Len(stack) : stack[i] = u
        BY <1>1, <4>1, <4>4 DEF IInv, Rest, Order
      <4>6. ~\E i \in 1 .. Len(stack) : stack[i] = u
        <5>1. stack[1] # u
          BY <1>2, <4>1, <4>2
        <5>2. \A i \in 1 .. Len(stack) : i = 1
          BY <4>3
        <5> QED
          BY <5>1, <5>2
      <4> QED
        BY <2>1, <4>1, <4>5, <4>6
    <3> QED
      BY <3>1, <3>2
  <2> QED
    BY <1>1, <2>4, <2>5, <2>6, <2>7 DEF Order
<1>10. context[t] = "live"
  <2>1. ~cancel[t]
    BY <1>1, <1>2 DEF IInv, Requested
  <2>2. tpc[t] # "exited"
    BY <1>2, <2>1 DEF IInv, Requested, Ending, GP!Ending
  <2> QED
    BY <1>2, <2>2 DEF IInv, G!Protected
<1> QED
  BY <1>2, <1>3, <1>6, <1>7, <1>8, <1>9, <1>10, <1>11 DEF IInv, Rest, t

(* The steps of exit_handler that leave the threads and the pool alone.    *)
LEMMA HandlerKeeps ==
  ASSUME IInv, AllKilled \/ ShowStatistics \/ AllJoined \/ ExitAgain
  PROVE  IInv'
<1> USE DEF poolVars, deviceVars, jobVars, exitVars, killVars
<1>1. /\ UNCHANGED <<threadVars, exitVars, killVars, pool, alive, released,
                     deviceVars, jobVars>>
      /\ mpc \in Exiting \cup {"cut"} /\ position' \in {1, position}
      /\ mpc' \in {"stats", "join", "alsa", "divided", "killed"}
  BY DEF AllKilled, ShowStatistics, AllJoined, ExitAgain, Exiting
<1>2. /\ G!ThreadTypeOK' /\ G!Protected' /\ Created' = Created /\ Busy' = Busy
      /\ Waited' = Waited /\ Order'
  BY <1>1, ThreadsUnchanged DEF Exiting
<1>3. TypeOK'
  <2>1. position' \in 1 .. Len(pool') + 1
    BY <1>1 DEF IInv, TypeOK
  <2> QED
    BY <1>1, <1>2, <2>1 DEF IInv, TypeOK, Exiting, Ended
<1>4. Subscribed' /\ Starting'
  BY <1>1, <1>2 DEF IInv, Subscribed, Starting
<1>5. Requested'
  BY <1>1 DEF IInv, Requested, threadVars
<1>6. Marked' /\ Passed' /\ Equipped'
  <2>1. Marked'
    BY <1>1, <1>2 DEF IInv, Rest, Marked
  <2>2. Equipped'
    BY <1>1, <1>2 DEF IInv, Rest, Equipped
  <2>7. /\ released' = released /\ pool' = pool /\ Waited' = Waited
        /\ tpc' = tpc /\ Passed
    BY <1>1, <1>2 DEF threadVars, IInv, Rest
  <2>3. CASE AllKilled
    <3>1. mpc = "kill" /\ mpc' \in {"stats", "join"} /\ position' = 1
      BY <2>3 DEF AllKilled
    <3> QED
      BY <2>1, <2>2, <2>7, <3>1 DEF Passed
  <2>4. CASE ShowStatistics
    <3>1. mpc = "stats" /\ mpc' \in {"join", "divided"} /\ position' = position
      BY <2>4 DEF ShowStatistics
    <3> QED
      BY <2>1, <2>2, <2>7, <3>1 DEF Passed
  <2>5. CASE AllJoined
    <3>1. mpc = "join" /\ mpc' = "alsa" /\ position - 1 = Len(pool)
          /\ pool \in Seq(Thread)
      BY <2>5 DEF AllJoined, IInv, TypeOK
    <3>2. \A t \in Range(pool) :
            t \in released /\ (t \in Waited => tpc[t] = "exited")
      BY <3>1 DEF IInv, Rest, Passed, Range
    <3>3. Waited \subseteq Range(pool) /\ released \subseteq Range(pool)
      BY DEF IInv, Rest, Starting, Marked, Passed, Waited
    <3> QED
      BY <2>1, <2>2, <2>7, <3>1, <3>2, <3>3 DEF Passed
  <2>6. CASE ExitAgain
    <3>1. mpc' = "killed"
      BY <2>6 DEF ExitAgain
    <3> QED
      BY <2>1, <2>2, <2>7, <3>1 DEF Passed
  <2> QED
    BY <2>1, <2>2, <2>3, <2>4, <2>5, <2>6
<1> QED
  BY <1>2, <1>3, <1>4, <1>5, <1>6 DEF IInv, Rest

(* The steps of exit_handler that wait and destroy.                        *)
LEMMA JoinKeeps ==
  ASSUME IInv, JoinNext
  PROVE  IInv'
<1> USE DEF poolVars, deviceVars, jobVars, exitVars, killVars
<1> DEFINE t == pool[position]
<1>1. /\ UNCHANGED <<threadVars, exitVars, killVars, pool, alive, deviceVars, jobVars>>
      /\ mpc = "join" /\ mpc' = mpc /\ position' = position + 1
      /\ released' = released \cup {t}
      /\ t \in Waited => tpc[t] = "exited"
  BY DEF JoinNext, Waited
<1>2. position \in 1 .. Len(pool) /\ pool \in Seq(Thread)
  BY DEF JoinNext, IInv, TypeOK
<1>3. t \in Thread /\ t \in Range(pool)
  BY <1>2 DEF Range
<1> HIDE DEF t
<1>4. /\ G!ThreadTypeOK' /\ G!Protected' /\ Created' = Created /\ Busy' = Busy
      /\ Waited' = Waited /\ Order'
  BY <1>1, ThreadsUnchanged
<1>5. TypeOK'
  BY <1>1, <1>2, <1>3, <1>4 DEF IInv, TypeOK
<1>6. Subscribed' /\ Starting'
  BY <1>1, <1>4 DEF IInv, Subscribed, Starting
<1>7. Requested'
  BY <1>1 DEF IInv, Requested, threadVars
<1>8. Marked' /\ Passed' /\ Equipped'
  <2>1. Marked'
    BY <1>1, <1>4 DEF IInv, Rest, Marked
  <2>3. Passed'
    <3>1. \A i \in 1 .. position - 1 :
            pool[i] \in released
              /\ (pool[i] \in Waited => tpc[pool[i]] = "exited")
      BY <1>1 DEF IInv, Rest, Passed
    <3>2. \A i \in 1 .. position' - 1 : i \in 1 .. position - 1 \/ i = position
      BY <1>1, <1>2
    <3>3. \A i \in 1 .. position' - 1 :
            pool[i] \in released'
              /\ (pool[i] \in Waited => tpc[pool[i]] = "exited")
      BY <1>1, <3>1, <3>2 DEF t
    <3>4. released' \subseteq Range(pool)
      BY <1>1, <1>3 DEF IInv, Rest, Passed
    <3> QED
      BY <1>1, <1>4, <3>3, <3>4 DEF Passed, threadVars
  <2>4. Equipped'
    <3>1. t \notin Busy
      BY <1>1 DEF Busy, Ending, GP!Ending
    <3> QED
      BY <1>1, <1>4, <3>1 DEF IInv, Rest, Equipped
  <2> QED
    BY <2>1, <2>3, <2>4
<1> QED
  BY <1>4, <1>5, <1>6, <1>7, <1>8 DEF IInv, Rest

LEMMA DestroyKeeps ==
  ASSUME IInv, CloseSoundCard \/ DestroyPlots
  PROVE  IInv'
<1> USE DEF poolVars, deviceVars, jobVars, exitVars, killVars
<1>1. /\ UNCHANGED <<threadVars, exitVars, killVars, position, poolVars, jobVars>>
      /\ \/ mpc = "alsa" /\ mpc' = "plots" /\ plot' = plot
            /\ alsa' = IF alsa = "live" THEN "freed" ELSE alsa
         \/ /\ mpc = "plots" /\ mpc' = "gone" /\ alsa' = alsa
            /\ plot' = [d \in Display |->
                          IF plot[d] = "live" THEN "freed" ELSE plot[d]]
  BY DEF CloseSoundCard, DestroyPlots
<1>2. /\ G!ThreadTypeOK' /\ G!Protected' /\ Created' = Created /\ Busy' = Busy
      /\ Waited' = Waited /\ Order'
  BY <1>1, ThreadsUnchanged
<1>3. /\ alsa' \in {"none", "live", "freed"}
      /\ plot' \in [Display -> {"none", "live", "freed"}]
  BY <1>1 DEF IInv, TypeOK
<1>4. TypeOK'
  BY <1>1, <1>2, <1>3 DEF IInv, TypeOK, Exiting, Ended
<1>5. Subscribed' /\ Starting'
  BY <1>1, <1>2 DEF IInv, Subscribed, Starting
<1>6. Requested'
  BY <1>1 DEF IInv, Requested, threadVars
<1>7. Marked' /\ Passed' /\ Equipped'
  <2>1. Passed' /\ Marked'
    BY <1>1, <1>2 DEF IInv, Rest, Passed, Marked, threadVars
  <2>2. Busy = {}
    BY <1>1 DEF IInv, Rest, Passed, Busy, Ending, GP!Ending
  <2>3. mpc' \in {"plots", "gone"} => alsa' # "live"
    BY <1>1 DEF IInv, Rest, Equipped
  <2>4. mpc' = "gone" => \A d \in Display : plot'[d] # "live"
    BY <1>1
  <2> QED
    BY <1>1, <1>2, <2>1, <2>2, <2>3, <2>4 DEF Equipped
<1> QED
  BY <1>2, <1>4, <1>5, <1>6, <1>7 DEF IInv, Rest

(* A step of any thread, and an answer to the request of exit_handler to   *)
(* its own thread.                                                         *)
LEMMA StepKeeps ==
  ASSUME IInv, NEW t \in Thread, G!ThreadStep(t),
         UNCHANGED <<success, held, killVars, position, poolVars, deviceVars>>,
         \/ t # runner /\ UNCHANGED <<mpc, runner>> /\ mpc # "stray"
         \/ t = runner /\ tpc'[t] \in Ending /\ mpc' = "cut" /\ runner' = Main
            /\ mpc \in Exiting,
         served' \subseteq Shows, executed' \subseteq Thread
  PROVE  IInv'
<1> USE DEF poolVars, deviceVars, killVars
<1>1. G!ThreadTypeOK' /\ G!Protected'
  <2>1. (mpc' = "stray") \in BOOLEAN
    BY Zenon
  <2> QED
    BY <2>1, GP!ThreadStepKeeps, SameThreads DEF IInv, TypeOK
<1>2. /\ \A u \in Thread : u # t => tpc'[u] = tpc[u]
      /\ tpc[t] \notin {"none", "exited"} /\ tpc'[t] # "none"
      /\ cancel' = cancel
      /\ tpc'[t] \in Ending => tpc[t] \in Ending \/ cancel[t]
      /\ tpc[t] \in Ending => tpc'[t] \in Ending
      /\ \A u \in Thread : active'[u] => active[u] \/ u = t
  BY GP!ThreadStepEffect, SameThreads DEF IInv, TypeOK, Ending
<1>3. Created' = Created
  BY <1>2 DEF Created
<1>4. /\ Busy' \subseteq Busy /\ alive' = alive /\ alive \subseteq Thread
      /\ \A u \in Waited' : u \in Waited \/ tpc'[u] \in Ending
      /\ mpc' # "cut" => Waited' = Waited
  <2>1. \A u \in Thread : tpc'[u] \notin Ending => tpc[u] \notin Ending
    BY <1>2
  <2>2. runner' = runner \/ tpc'[runner] \in Ending
    OBVIOUS
  <2>3. alive \subseteq Thread
    BY DEF IInv, TypeOK
  <2> QED
    BY <2>1, <2>2, <2>3 DEF Busy, Waited, Ending, GP!Ending, Exiting
<1>5. TypeOK'
  BY <1>1 DEF IInv, TypeOK
<1>6. Subscribed' /\ Starting'
  BY <1>2, <1>3 DEF IInv, Subscribed, Starting
<1>7. Requested'
  BY <1>2 DEF IInv, Requested, Ending, GP!Ending
<1>8. Marked'
  BY <1>3, <1>4 DEF IInv, Rest, Marked
<1>9. Passed'
  <2>1. \A u \in Thread : tpc[u] = "exited" => tpc'[u] = "exited"
    BY <1>2
  <2>2. \A i \in 1 .. position - 1 : pool[i] \in Thread
    BY DEF IInv, TypeOK
  <2>3. Waited \subseteq Thread
    BY <1>4 DEF Waited
  <2> QED
    BY <1>4, <2>1, <2>2, <2>3 DEF IInv, Rest, Passed
<1>10. Equipped'
  BY <1>4 DEF IInv, Rest, Equipped
<1>11. Order'
  <2>1. t \in Created
    BY <1>2 DEF Created
  <2>2. \A u \in Thread : active'[u] => u \in Created'
    BY <1>2, <1>3, <2>1 DEF IInv, Rest, Order
  <2>3. mpc' = "setup" => mpc = "setup"
    OBVIOUS
  <2>4. mpc # "stray"
    BY DEF Exiting
  <2>5. mpc' \in {"create", "mark", "run"} => mpc \in {"create", "mark", "run"}
    OBVIOUS
  <2> QED
    BY <1>2, <1>3, <2>2, <2>3, <2>4, <2>5 DEF IInv, Rest, Order, Popped
<1> QED
  BY <1>1, <1>5, <1>6, <1>7, <1>8, <1>9, <1>10, <1>11 DEF IInv, Rest

LEMMA NextKeeps == IInv /\ [Next]_vars => IInv'
<1> SUFFICES ASSUME IInv, [Next]_vars PROVE IInv'
  OBVIOUS
<1> USE DEF mainVars, poolVars, deviceVars, jobVars, exitVars, killVars
<1>1. CASE MainStep
  BY <1>1, SetupKeeps, SortKeeps, CreateKeeps, MarkKeeps, KillKeeps, HandlerKeeps,
     JoinKeeps, DestroyKeeps DEF MainStep
<1>2. CASE TimeUp
  BY <1>2, ExitKeeps DEF TimeUp, IInv, TypeOK
<1>3. CASE Signal
  BY <1>3, ExitKeeps DEF Signal, IInv, TypeOK
<1>4. CASE ExitAgain
  BY <1>4, HandlerKeeps
<1>5. CASE HandlerCancelled
  <2>1. G!ThreadStep(runner) /\ tpc'[runner] \in Ending
    BY <1>5 DEF HandlerCancelled, G!ThreadStep, G!Cancelled, Ending, GP!Ending,
                IInv, TypeOK, G!ThreadTypeOK
  <2> QED
    BY <1>5, <2>1, StepKeeps DEF HandlerCancelled, IInv, TypeOK
<1>6. CASE SetupFails
  BY <1>6, ExitKeeps DEF SetupFails, IInv, TypeOK
<1>7. ASSUME NEW t \in Thread, GetSamples(t) \/ FreedThread(t) PROVE IInv'
  <2>1. /\ UNCHANGED <<threadVars, exitVars, killVars, position, poolVars, deviceVars>>
        /\ mpc' \in {mpc, "crashed"} /\ served' \subseteq Shows /\ executed' = executed
        /\ mpc # "setup" /\ mpc # "stray"
    <3>1. /\ UNCHANGED <<threadVars, exitVars, killVars, position, poolVars, deviceVars>>
          /\ mpc' \in {mpc, "crashed"} /\ executed' = executed /\ mpc \notin Ended
          /\ tpc[t] # "none"
      BY <1>7 DEF GetSamples, FreedThread
    <3>2. served' \subseteq Shows
      BY <1>7 DEF GetSamples, FreedThread, IInv, TypeOK
    <3>3. t \in Created
      BY <3>1 DEF Created
    <3> QED
      BY <3>1, <3>2, <3>3 DEF IInv, Subscribed, Ended
  <2>2. /\ G!ThreadTypeOK' /\ G!Protected' /\ Created' = Created /\ Busy' = Busy
        /\ Waited' = Waited /\ Order'
    BY <2>1, ThreadsUnchanged
  <2>3. TypeOK'
    BY <2>1, <2>2 DEF IInv, TypeOK, Ended
  <2>4. Subscribed' /\ Starting' /\ Requested'
    BY <2>1, <2>2 DEF IInv, Subscribed, Starting, Requested, threadVars
  <2>5. Marked' /\ Passed' /\ Equipped'
    BY <2>1, <2>2 DEF IInv, Rest, Marked, Passed, Equipped, threadVars
  <2> QED
    BY <2>2, <2>3, <2>4, <2>5 DEF IInv, Rest
<1>8. ASSUME NEW t \in Thread, RunThread(t) PROVE IInv'
  <2>1. served' \subseteq Shows /\ executed' \subseteq Thread
        /\ mpc # "stray"
    BY <1>8 DEF RunThread, IInv, TypeOK, Ended
  <2> QED
    BY <1>8, <2>1, StepKeeps DEF RunThread
<1>9. ASSUME NEW t \in Thread, ExitInThread(t) PROVE IInv'
  <2>1. held' \in {{}, {"samples"}} \cup {{d} : d \in Display}
    <3>1. ASSUME NEW u \in Plotters \cup Shows PROVE u[2] \in Display
      BY <3>1 DEF Plotters, Shows, Plotter, Show
    <3>2. Locks(t) \in {{}, {"samples"}} \cup {{d} : d \in Display}
      BY <3>1 DEF Locks, Thread
    <3> QED
      BY <1>9, <3>2 DEF ExitInThread
  <2> QED
    BY <1>9, <2>1, ExitKeeps DEF ExitInThread
<1>10. CASE UNCHANGED vars
  <2>1. /\ G!ThreadTypeOK' /\ G!Protected' /\ Created' = Created /\ Busy' = Busy
        /\ Waited' = Waited
    BY <1>10, ThreadsUnchanged DEF vars
  <2>2. TypeOK' /\ Subscribed' /\ Starting' /\ Requested'
    BY <1>10, <2>1 DEF vars, IInv, TypeOK, Subscribed, Starting, Requested, threadVars
  <2>3. Rest'
    BY <1>10, <2>1
       DEF vars, IInv, Rest, Marked, Passed, Equipped, Order, Popped, threadVars
  <2> QED
    BY <2>1, <2>2, <2>3 DEF IInv
<1> QED
  BY <1>1, <1>2, <1>3, <1>4, <1>5, <1>6, <1>7, <1>8, <1>9, <1>10 DEF Next, Over

LEMMA AlwaysIInv == Spec => []IInv
BY InitIInv, NextKeeps, PTL DEF Spec

-----------------------------------------------------------------------------
(* The theorems.                                                           *)

(* The types: whatever thread exit_handler runs in and whenever exit is    *)
(* called, the loops of main.c and thrd.c stay within the pool.            *)
THEOREM SotoTypeCorrect == Spec => []TypeOK
<1>1. IInv => TypeOK
  BY DEF IInv
<1> QED
  BY <1>1, AlwaysIInv, PTL

(* "Waiting until they're dead" (main.c): whenever and wherever exit is    *)
(* called, nothing is destroyed under a thread that has been marked.       *)
THEOREM SotoNothingUsedAfterDestroyed == Spec => []NothingUsedAfterDestroyed
<1>1. IInv => NothingUsedAfterDestroyed
  <2> SUFFICES ASSUME IInv, NEW t \in Waited
               PROVE  /\ t \in released => tpc[t] \in {"finish", "free", "exited"}
                      /\ tpc[t] = "callback" =>
                           IF t = Sampling THEN alsa = "live" ELSE plot[t[2]] = "live"
    BY DEF NothingUsedAfterDestroyed
  <2>1. Equipped /\ t \in Thread
    BY DEF IInv, Rest, TypeOK, Waited
  <2>2. t \in released => tpc[t] \in {"finish", "free", "exited"}
    BY <2>1 DEF Equipped, Busy, Ending, GP!Ending
  <2>3. ASSUME tpc[t] = "callback"
        PROVE  IF t = Sampling THEN alsa = "live" ELSE plot[t[2]] = "live"
    <3>1. t \in Busy
      BY <2>3 DEF Busy, Ending, GP!Ending
    <3>2. t # Sampling => t[2] \in Display
      BY <2>1 DEF Thread, Plotters, Shows, Plotter, Show
    <3> QED
      BY <2>1, <3>1, <3>2 DEF Equipped
  <2> QED
    BY <2>2, <2>3
<1> QED
  BY <1>1, AlwaysIInv, PTL

(* When exit_handler completes, thrd_destroy has waited for every thread   *)
(* that was marked, nothing of theirs or of main's is left, and no thread  *)
(* goes on but the one that exit caught being created.                     *)
THEOREM SotoCleanExit == Spec => []CleanExit
<1>1. IInv => CleanExit
  <2> SUFFICES ASSUME IInv, mpc = "gone"
               PROVE  /\ \A t \in Waited :
                           tpc[t] = "exited" /\ finishes[t] = 1 /\ context[t] = "freed"
                      /\ \A t, u \in Created \ alive : t = u
                      /\ released = Range(pool)
                      /\ alsa # "live" /\ \A d \in Display : plot[d] # "live"
    BY DEF CleanExit
  <2>1. \A t \in Waited : tpc[t] = "exited" /\ t \in Thread
    BY DEF IInv, Rest, Passed, TypeOK, Waited
  <2>2. \A t \in Waited : finishes[t] = 1 /\ context[t] = "freed"
    BY <2>1 DEF IInv, G!Protected
  <2> QED
    BY <2>1, <2>2 DEF IInv, Rest, Marked, Passed, Equipped
<1> QED
  BY <1>1, AlwaysIInv, PTL

(* The stack of handles (main.c): when the sampling thread's context goes, *)
(* every show thread has had its request or was refused one before.        *)
THEOREM SotoShowsToldFirst == Spec => []ShowsToldFirst
<1>1. IInv => ShowsToldFirst
  <2> SUFFICES ASSUME IInv, context[Sampling] = "freed"
               PROVE  \A t \in Shows : cancel[t] \/ t \in unheard
    BY DEF ShowsToldFirst
  <2>1. Sampling \in Thread
    BY DEF Thread
  <2>2. tpc[Sampling] = "exited"
    BY <2>1 DEF IInv, G!Protected
  <2>3. cancel[Sampling]
    BY <2>1, <2>2 DEF IInv, Requested, Ending, GP!Ending
  <2> QED
    BY <2>3 DEF IInv, Rest, Order, Popped
<1> QED
  BY <1>1, AlwaysIInv, PTL

(* Whatever main, exit_handler and the other threads do, each thread is a  *)
(* generic thread (genthrd.c): created once, and sent requests only while  *)
(* its handle is good.  This does not depend on the scheduling.            *)
THEOREM SotoGenericThreads == Spec => GenericThreads
<1>1. Init => G!Init
  <2> SUFFICES ASSUME Init PROVE G!Init
    OBVIOUS
  <2>1. (mpc = "stray") = FALSE
    BY DEF Init
  <2> QED
    BY <2>1 DEF Init, G!Init
<1>2. IInv /\ [Next]_vars => [G!Next]_(G!vars)
  <2> DEFINE Same == UNCHANGED threadVars /\ (mpc' = "stray") = (mpc = "stray")
  <2>0. ASSUME Same PROVE UNCHANGED G!vars
    BY <2>0 DEF threadVars, G!vars, G!threadVars, G!cancelVars, G!handleVars
  <2>1. CASE CreateThread /\ IInv
    <3>1. pool[position] \in Thread
      BY <2>1 DEF CreateThread, IInv, TypeOK, Starting
    <3>2. mpc = "create" /\ mpc' = "mark"
      BY <2>1 DEF CreateThread
    <3> QED
      BY <2>1, <3>1, <3>2 DEF CreateThread, G!Next, G!Start
  <2>2. CASE KillNext /\ IInv
    <3> DEFINE t == Head(stack)
    <3>1. t \in Thread /\ context[t] = "live"
      BY <2>2, KillKeeps
    <3>2. mpc = "kill" /\ G!SendKill(t)
          /\ mpc' = IF G!StrayCancel(t) THEN "stray" ELSE mpc
      BY <2>2 DEF KillNext, Told
    <3>3. (mpc' = "stray") = G!StrayCancel(t)
      <4>1. G!StrayCancel(t) \in BOOLEAN
        BY Zenon DEF G!StrayCancel
      <4> QED
        BY <3>2, <4>1
    <3> HIDE DEF t
    <3>4. G!Kill(t)
      BY <3>1, <3>2, <3>3 DEF G!Kill
    <3> QED
      BY <3>1, <3>2, <3>4 DEF G!Next
  <2>3. CASE HandlerCancelled
    <3>1. mpc # "stray" /\ mpc' # "stray" /\ runner \in Thread /\ G!ThreadStep(runner)
      BY <2>3 DEF HandlerCancelled, Exiting, G!ThreadStep
    <3> QED
      BY <3>1 DEF G!Next, G!Run
  <2>4. ASSUME NEW t \in Thread, RunThread(t) PROVE G!Next
    <3>1. mpc # "stray" /\ mpc' # "stray" /\ G!ThreadStep(t)
      BY <2>4 DEF RunThread, Ended, mainVars
    <3> QED
      BY <3>1 DEF G!Next, G!Run
  <2>5. ASSUME NEW t \in Thread, GetSamples(t) \/ FreedThread(t) \/ ExitInThread(t)
        PROVE  Same
    BY <2>5 DEF GetSamples, FreedThread, ExitInThread, Exit, Ended
  <2>6. ASSUME \/ OpenSoundCard \/ Subscribe \/ SortThreads \/ MarkAlive
               \/ AllKilled \/ ShowStatistics \/ JoinNext \/ AllJoined
               \/ CloseSoundCard \/ DestroyPlots
        PROVE  Same
    BY <2>6 DEF OpenSoundCard, Subscribe, SortThreads, MarkAlive, AllKilled,
                ShowStatistics, JoinNext, AllJoined, CloseSoundCard, DestroyPlots
  <2>7. ASSUME TimeUp \/ Signal \/ ExitAgain \/ SetupFails PROVE Same
    BY <2>7 DEF TimeUp, Signal, ExitAgain, SetupFails, Exit, Exiting
  <2>8. ASSUME UNCHANGED vars PROVE Same
    BY <2>8 DEF vars, mainVars
  <2> HIDE DEF Same
  <2> QED
    BY <2>0, <2>1, <2>2, <2>3, <2>4, <2>5, <2>6, <2>7, <2>8 DEF Next, MainStep, Over
<1> QED
  BY <1>1, <1>2, AlwaysIInv, PTL DEF Spec, GenericThreads, G!Spec

=============================================================================
