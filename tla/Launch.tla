------------------------------- MODULE Launch -------------------------------
(***************************************************************************)
(* A command line put to work: what main asks of the sound card and of the *)
(* pool for the options that opts_parse accepted, and how the threads then *)
(* run against one clock, under SCHED_FIFO, until the time to run is over. *)
(*                                                                         *)
(* The scheduler gives each processor to one of the threads of the highest *)
(* priorities that can run, and main, which is not a real-time thread,     *)
(* runs when a processor is left.  Nothing but the execution of a job      *)
(* takes time, and nothing else runs on the machine.  The mutex of the     *)
(* sampling thread is an ordinary one: who holds it keeps its priority.    *)
(* The locks of the graphics, which the sampling thread never takes, are   *)
(* part of the time that drawing takes.                                    *)
(***************************************************************************)
EXTENDS Options, SequencesExt

CONSTANTS
  Second,       (* ticks of the clock in a second                          *)
  LongSize,     (* 2 to the width of uint64_t                              *)
  BufferSize,   (* ALSA_BUFFER_SIZE                                        *)
  Rates,        (* the rates that the sound card supports                  *)
  StartupDelay, (* SAMP_STARTUP_DELAY                                      *)
  PlotPeriod,   (* PLOT_PERIOD                                             *)
  ReadTime,     (* ticks that a job of the sampling thread takes           *)
  CopyTime,     (* ticks of sampth_get_samples in a show thread            *)
  FillTime,     (* ticks of the rest of the job of a show thread           *)
  DrawTime,     (* ticks that plot_redraw takes                            *)
  Processors,   (* numbers of processors to run on                         *)
  Horizon       (* bound: the instants of the clock                        *)

ASSUME LaunchAssumption ==
  /\ {Second, BufferSize, PlotPeriod, ReadTime, CopyTime, FillTime, DrawTime}
       \subseteq Nat \ {0}
  /\ BufferSize >= 2
  /\ Rates \subseteq 1 .. Second * BufferSize
  /\ LongSize \in Nat
  /\ \A r \in Rates : UintSize * ((Second * BufferSize) \div r) <= LongSize
  /\ StartupDelay \in Nat \ {0}
  /\ Processors \subseteq Nat \ {0}
  /\ Horizon \in Nat

VARIABLES
  stage,     (* where main is, or how the program ended                    *)
  cpus,      (* the processors of the machine                              *)
  rate,      (* alsagw_get_rate: the rate granted; 0 before                *)
  clock,     (* CLOCK_MONOTONIC                                            *)
  order,     (* pool->threads once sorted, the longest period first        *)
  position,  (* of the next thread to create                               *)
  started,   (* thrd_start's now                                           *)
  wake,      (* when main's sleep is over                                  *)
  phase,     (* what each thread is doing                                  *)
  left,      (* ticks left of it                                           *)
  due,       (* next_act, or start before the first activation             *)
  jobs,      (* n_executions                                               *)
  missed     (* threads with dmiss_count > 0                               *)

mainVars == <<stage, cpus, rate, order, position, started, wake>>
threadVars == <<phase, left, due, jobs, missed>>
vars == <<optionVars, mainVars, clock, threadVars>>

Sampling == <<"sampling", "alsa">>
Plotter(d) == <<"plotter", d>>
Show(d) == <<"show", d>>

AnyThread ==
  {Sampling} \cup {Plotter(d) : d \in Displays} \cup {Show(d) : d \in Displays}

Plotters == {Plotter(d) : d \in opts.show}
Shows == {Show(d) : d \in opts.show}
Thread == {Sampling} \cup Plotters \cup Shows

Init ==
  /\ OptionsInit
  /\ stage = "options"
  /\ cpus \in Processors
  /\ rate = 0
  /\ clock = 0
  /\ order = << >>
  /\ position = 1
  /\ started = 0
  /\ wake = 0
  /\ phase = [t \in AnyThread |-> "none"]
  /\ left = [t \in AnyThread |-> 0]
  /\ due = [t \in AnyThread |-> 0]
  /\ jobs = [t \in AnyThread |-> 0]
  /\ missed = {}

-----------------------------------------------------------------------------
(* What the threads ask for.                                               *)

(* alsagw_new; the division is that of integers.                           *)
SampPeriod == (Second * BufferSize) \div rate

(* sampth_get_size, and what is left of it in plot_new's unsigned max_x.   *)
BufLen == opts.buffer_scale * BufferSize
MaxX == BufLen % UintSize

(* rtutils_time_multiply: an int factor of an unsigned number of 64 bits.  *)
TimeMultiply(ns, factor) == (ns * ToInt(factor)) % LongSize

(* sampth_subscribe passes the factor on as the size_t that it gets.       *)
ReadPeriod == TimeMultiply(SampPeriod, opts.buffer_scale)

(* specth_subscribe and signth_subscribe increment the common delay by the *)
(* time that fills the buffer, and take the result for the period too.     *)
FillingTime == StartupDelay + ReadPeriod

(* Mutant of Delay: the delay is not incremented.                          *)
DelayCommon(t) == IF t \in Plotters THEN 0 ELSE StartupDelay

Delay(t) ==
  CASE t = Sampling -> StartupDelay
    [] t \in Plotters -> 0
    [] t \in Shows -> FillingTime

Period(t) ==
  CASE t = Sampling -> SampPeriod
    [] t \in Plotters -> PlotPeriod
    [] t \in Shows -> FillingTime

(* Mutant of FirstPriority: the offset is taken for the priority.          *)
FirstPriorityOffset == opts.minprio

(* thrd_new adds in unsigned arithmetic and stores the sum in an int.      *)
FirstPriority == ToInt((opts.minprio + SchedMin) % UintSize)

Priority(i) == FirstPriority + i - 1

-----------------------------------------------------------------------------
(* main, up to the subscriptions; no thread runs yet.                      *)

Parse ==
  /\ ParseStep
  /\ stage' = CASE verdict' = "refused" -> "refused"
                [] verdict' = "accepted" -> "sound"
                [] OTHER -> stage
  /\ UNCHANGED <<cpus, rate, order, position, started, wake, clock, threadVars>>

Distance(r) == IF r < opts.rate THEN opts.rate - r ELSE r - opts.rate

(* init_soundcard asks for a rate near the one in the options.             *)
OpenSoundCard ==
  /\ stage = "sound"
  /\ rate' \in {r \in Rates : \A q \in Rates : Distance(r) <= Distance(q)}
  /\ stage' = "subscribe"
  /\ UNCHANGED <<optionVars, cpus, order, position, started, wake, clock,
                 threadVars>>

(* The card cannot be opened or configured: main exits.                    *)
NoSoundCard ==
  /\ stage = "sound"
  /\ stage' = "failed"
  /\ UNCHANGED <<optionVars, cpus, rate, order, position, started, wake, clock,
                 threadVars>>

(* plot_new: assert(max_x > 1).                                            *)
PlotRefused ==
  /\ stage = "subscribe"
  /\ MaxX <= 1
  /\ stage' = "aborted"
  /\ UNCHANGED <<optionVars, cpus, rate, order, position, started, wake, clock,
                 threadVars>>

(* Mutant of RateMonotonicOrder: the shortest period first.                *)
ReverseOrder(ts) ==
  \A i, j \in DOMAIN ts : i < j => Period(ts[i]) <= Period(ts[j])

(* prio_cmp sorts the longest period first, and equal ones anyhow.         *)
RateMonotonicOrder(ts) ==
  \A i, j \in DOMAIN ts : i < j => Period(ts[i]) >= Period(ts[j])

(* The subscriptions, and thrd_start up to its loop.                       *)
StartPool ==
  /\ stage = "subscribe"
  /\ MaxX > 1
  /\ \E ts \in SetToSeqs(Thread) : RateMonotonicOrder(ts) /\ order' = ts
  /\ started' = clock
  /\ stage' = "start"
  /\ UNCHANGED <<optionVars, cpus, rate, position, wake, clock, threadVars>>

-----------------------------------------------------------------------------
(* The scheduler.                                                          *)

Held == \E t \in AnyThread : phase[t] = "critical"

Runnable ==
  {t \in Thread :
     \/ phase[t] = "asleep" /\ clock >= due[t]
     \/ phase[t] = "locking" /\ ~Held
     \/ phase[t] \in {"critical", "working"}}

Rank(t) == CHOOSE i \in DOMAIN order : order[i] = t
MoreUrgent(t, u) == Rank(t) > Rank(u)

Running ==
  {t \in Runnable : Cardinality({u \in Runnable : MoreUrgent(u, t)}) < cpus}

MainRuns == Cardinality(Runnable) < cpus

-----------------------------------------------------------------------------
(* main from the start of the threads on.                                  *)

(* startup: assert(err == 0) on pthread_attr_setschedparam.                *)
PriorityRefused ==
  /\ stage = "start"
  /\ MainRuns
  /\ Priority(position) \notin SchedMin .. SchedMax
  /\ stage' = "aborted"
  /\ UNCHANGED <<optionVars, cpus, rate, order, position, started, wake, clock,
                 threadVars>>

CreateThread ==
  /\ stage = "start"
  /\ MainRuns
  /\ Priority(position) \in SchedMin .. SchedMax
  /\ LET t == order[position] IN
       /\ phase' = [phase EXCEPT ![t] = "asleep"]
       /\ due' = [due EXCEPT ![t] = started + Delay(t)]
  /\ position' = position + 1
  /\ IF position = Len(order)
       THEN stage' = "run" /\ wake' = clock + opts.run_for * Second
       ELSE UNCHANGED <<stage, wake>>
  /\ UNCHANGED <<optionVars, cpus, rate, order, started, clock, left, jobs,
                 missed>>

SleepOver == stage = "run" /\ opts.run_for > 0 /\ clock >= wake

(* exit, and show_statistics, which divides by the number of executions.   *)
TimeUp ==
  /\ SleepOver
  /\ MainRuns
  /\ stage' = IF \A t \in Thread : jobs[t] > 0 THEN "over" ELSE "crashed"
  /\ UNCHANGED <<optionVars, cpus, rate, order, position, started, wake, clock,
                 threadVars>>

-----------------------------------------------------------------------------
(* The threads: thread_routine around the callbacks.                       *)

Moves(t, from, to) ==
  /\ phase[t] = from
  /\ phase' = [phase EXCEPT ![t] = to]

(* Mutant of Arrive: next_act is not incremented.                          *)
ArriveAgain(t) ==
  /\ Moves(t, "asleep", IF t \in Plotters THEN "working" ELSE "locking")
  /\ left' = [left EXCEPT ![t] = IF t \in Plotters THEN DrawTime ELSE 0]
  /\ UNCHANGED <<due, jobs, missed>>

(* A wait is over.  The first activation is when the thread gets to run;   *)
(* the others are due one period after another.                            *)
Arrive(t) ==
  /\ Moves(t, "asleep", IF t \in Plotters THEN "working" ELSE "locking")
  /\ left' = [left EXCEPT ![t] = IF t \in Plotters THEN DrawTime ELSE 0]
  /\ due' = [due EXCEPT ![t] =
               (IF due[t] = started + Delay(t) THEN clock ELSE @) + Period(t)]
  /\ UNCHANGED <<jobs, missed>>

Lock(t) ==
  /\ Moves(t, "locking", "critical")
  /\ left' = [left EXCEPT ![t] = IF t = Sampling THEN ReadTime ELSE CopyTime]
  /\ UNCHANGED <<due, jobs, missed>>

Unlock(t) ==
  /\ t \in Shows
  /\ left[t] = 0
  /\ Moves(t, "critical", "working")
  /\ left' = [left EXCEPT ![t] = FillTime]
  /\ UNCHANGED <<due, jobs, missed>>

(* The job ends, the sampling thread's with its critical section.  A job   *)
(* that ends when it is due is late (update_statistics).                   *)
Finish(t) ==
  /\ left[t] = 0
  /\ Moves(t, IF t = Sampling THEN "critical" ELSE "working", "asleep")
  /\ jobs' = [jobs EXCEPT ![t] = @ + 1]
  /\ missed' = IF clock >= due[t] THEN missed \cup {t} ELSE missed
  /\ UNCHANGED <<left, due>>

(* A step of a thread that has a processor.                                *)
Run(t) ==
  /\ stage \in {"start", "run"}
  /\ t \in Running
  /\ Arrive(t) \/ Lock(t) \/ Unlock(t) \/ Finish(t)
  /\ UNCHANGED <<optionVars, mainVars, clock>>

(* plot_graphic_set: assert(pos < p->max_x), when a show thread fills a    *)
(* plot that was made for less than its buffer holds.                      *)
PlotOverrun(t) ==
  /\ stage \in {"start", "run"}
  /\ t \in Running \cap Shows
  /\ phase[t] = "working"
  /\ MaxX < BufLen
  /\ stage' = "aborted"
  /\ UNCHANGED <<optionVars, cpus, rate, order, position, started, wake, clock,
                 threadVars>>

(* Time passes when nobody who has a processor has a step to make.         *)
Tick ==
  /\ stage \in {"start", "run"}
  /\ clock < Horizon
  /\ \A t \in Running : left[t] > 0
  /\ ~(MainRuns /\ (stage = "start" \/ SleepOver))
  /\ clock' = clock + 1
  /\ left' = [t \in AnyThread |-> IF t \in Running THEN left[t] - 1 ELSE left[t]]
  /\ UNCHANGED <<optionVars, mainVars, phase, due, jobs, missed>>

-----------------------------------------------------------------------------

Next ==
  \/ Parse
  \/ OpenSoundCard
  \/ NoSoundCard
  \/ PlotRefused
  \/ StartPool
  \/ PriorityRefused
  \/ CreateThread
  \/ TimeUp
  \/ \E t \in AnyThread : Run(t) \/ PlotOverrun(t)
  \/ Tick

Spec == Init /\ [][Next]_vars

(* Time goes by and whoever has a processor makes its steps.               *)
FairSpec == Spec /\ WF_vars(Next)

-----------------------------------------------------------------------------
(* Properties.                                                             *)

TypeOK ==
  /\ OptionsTypeOK
  /\ stage \in {"options", "refused", "sound", "failed", "subscribe", "start",
                "run", "over", "aborted", "crashed"}
  /\ cpus \in Processors
  /\ rate \in Rates \cup {0}
  /\ clock \in 0 .. Horizon
  /\ order \in Seq(Thread)
  /\ position \in 1 .. Len(order) + 1
  /\ phase \in [AnyThread ->
                  {"none", "asleep", "locking", "critical", "working"}]
  /\ left \in [AnyThread -> Nat]
  /\ due \in [AnyThread -> Nat]
  /\ jobs \in [AnyThread -> Nat]
  /\ missed \subseteq Thread

(* The arrivals of a periodic thread in an interval, at most.              *)
Arrivals(interval, period) == (interval + period - 1) \div period

(* The work that arrives in an interval, at most.                          *)
Demand(interval) ==
  Arrivals(interval, SampPeriod) * ReadTime
    + Cardinality(opts.show)
        * (Arrivals(interval, PlotPeriod) * DrawTime
             + Arrivals(interval, FillingTime) * (CopyTime + FillTime))

(* The threads leave a processor idle again and again, and once before the *)
(* clock stops.                                                            *)
Light ==
  /\ rate > 0
  /\ \E interval \in 1 .. Horizon - wake : Demand(interval) < interval

(* The sampling thread is done within its period even if it waits for the  *)
(* show threads to copy while a plotter pre-empts the one that holds the   *)
(* mutex: nothing lends that thread the priority of the sampling thread.   *)
Affordable ==
  LET redraws == SampPeriod \div PlotPeriod + 1
  IN  ReadTime + Cardinality(Shows) * CopyTime
        + Cardinality(Plotters) * redraws * DrawTime < SampPeriod

Created == stage \in {"start", "run", "over", "aborted", "crashed"} /\ rate > 0

(* "The startup delay must be incremented in order to allow the sampling   *)
(* thread to fill at least one buffer": when a show thread takes its first *)
(* snapshot all the slots have been through a job of the sampling thread,  *)
(* provided a processor is out of the plotters' reach.  Without one, as on *)
(* a single processor, a plotter may keep main from creating the sampling  *)
(* thread, or that thread from running, and the delay does not make up.    *)
BufferFilled ==
  \A t \in Shows :
    /\ phase[t] \in {"critical", "working"} \/ jobs[t] > 0
    /\ cpus > Cardinality(Plotters) /\ ReadTime <= SampPeriod
    => jobs[Sampling] >= opts.buffer_scale

(* Priority inversion is bounded: under an affordable load the sampling    *)
(* thread meets all its deadlines.                                         *)
SamplingMeetsDeadlines ==
  Created /\ Affordable => Sampling \notin missed

(* A command line that leaves the room that the program needs: priorities  *)
(* for all its threads, a buffer that a plot can hold, and time for one    *)
(* job of each thread.  On one processor main waits until no thread is     *)
(* due; on several it does not, and the jobs have to be done before: those *)
(* that arrive in an interval within the interval.                         *)
Sound ==
  /\ opts.minprio >= 0
  /\ opts.minprio + SchedMin + Cardinality(Thread) - 1 <= SchedMax
  /\ BufLen \in 2 .. UintSize - 1
  /\ LET time == opts.run_for * Second IN
       \/ opts.run_for = 0
       \/ cpus = 1 /\ time >= FillingTime
       \/ \E interval \in 1 .. time - FillingTime : Demand(interval) < interval

(* Such a command line never ends the program in an assertion of plot_new, *)
(* plot_graphic_set or startup, nor in the division of show_statistics.    *)
SoundOptionsWork == Created /\ Sound => stage \notin {"aborted", "crashed"}

(* "Requires the program to run for a certain amount of time": main gets a *)
(* processor again after its sleep, although every thread outranks it.     *)
RunEnds ==
  stage = "run" /\ opts.run_for \in 1 .. 2 /\ Light
    ~> stage \in {"over", "crashed", "aborted"}

=============================================================================
