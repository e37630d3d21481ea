---------------------------- MODULE PeriodicTask ----------------------------
(***************************************************************************)
(* One real-time thread: thread_routine of thrd.c from its creation to its *)
(* exit, the statistics that it keeps, and the monotonic clock.            *)
(*                                                                         *)
(* Time passes between any two steps: a job of any length, a preemption    *)
(* and a late wake-up are all steps of the clock.  MaxTime bounds it.      *)
(***************************************************************************)
EXTENDS RtTime

CONSTANTS
  PeriodNs,  (* info.period in nanoseconds                                 *)
  DelayNs,   (* info.delay in nanoseconds                                  *)
  MaxTime    (* bound: the last instant of the clock                       *)

ASSUME PeriodicTaskAssumption ==
  /\ PeriodNs \in Nat \ {0}
  /\ DelayNs \in Nat
  /\ MaxTime \in Nat

VARIABLES
  now,         (* CLOCK_MONOTONIC, in nanoseconds                          *)
  pc,          (* where the thread is in thread_routine                    *)
  start,       (* thrd->start, the delayed activation time                 *)
  next_act,    (* the next absolute activation time                        *)
  arrival,     (* arrival_time: the activation time of the current job     *)
  statistics,  (* thrd->statistics                                         *)
  first,       (* history: the first activation time, in nanoseconds       *)
  finished     (* how often info.destroy has been called                   *)

taskVars == <<pc, start, next_act, arrival, statistics, first, finished>>
vars == <<now, taskVars>>

Period == Ns2time(PeriodNs)
Delay == Ns2time(DelayNs)

(* rtutils_get_now.                                                        *)
Now == Ns2time(now)

NoStatistics ==
  [response_times |-> 0, n_executions |-> 0, wcrt |-> 0, dmiss_count |-> 0]

(* thrd_start reads the clock and startup derives the activation time.     *)
Init ==
  /\ now \in 0 .. MaxTime
  /\ pc = "init"
  /\ start = TimeIncrement(Now, Delay)
  /\ next_act = Now
  /\ arrival = Now
  /\ statistics = NoStatistics
  /\ first = now
  /\ finished = 0

(* update_statistics, for a job that arrived at r and finished at f.       *)
UpdateStatistics(r, f, deadline_miss) ==
  LET response == f - r IN
  statistics' =
    [response_times |-> statistics.response_times + response,
     n_executions |-> statistics.n_executions + 1,
     wcrt |-> IF statistics.wcrt < response THEN response ELSE statistics.wcrt,
     dmiss_count |-> statistics.dmiss_count + (IF deadline_miss THEN 1 ELSE 0)]

(* The initialisation or the callback stops the thread.                    *)
Exit ==
  /\ pc' = "exited"
  /\ finished' = finished + 1
  /\ UNCHANGED <<now, start, next_act, arrival, statistics, first>>

UserInit ==
  /\ pc = "init"
  /\ pc' = "delay"
  /\ UNCHANGED <<now, start, next_act, arrival, statistics, first, finished>>

UserInitAborts == pc = "init" /\ Exit

(* rtutils_wait: clock_nanosleep refuses a tv_nsec that is out of range    *)
(* and the assertion around it ends the program.                           *)
WaitRefused(time) ==
  /\ time \notin Normal
  /\ pc' = "aborted"
  /\ UNCHANGED <<now, start, next_act, arrival, statistics, first, finished>>

(* Mutant of WaitEnds: the sleep may end early, as a signal would make it  *)
(* if it were not absolute and repeated.                                   *)
WaitEndsEarly(time) == time \in Normal

WaitEnds(time) == time \in Normal /\ now >= Time2ns(time)

(* The delayed activation: the first activation time is when it happens.   *)
DelayEnds ==
  /\ pc = "delay"
  /\ WaitEnds(start)
  /\ pc' = "arrive"
  /\ next_act' = Now
  /\ first' = now
  /\ UNCHANGED <<now, start, arrival, statistics, finished>>

(* Mutant of Arrive: the next activation is counted from the clock.        *)
ArriveNow ==
  /\ pc = "arrive"
  /\ pc' = "callback"
  /\ arrival' = next_act
  /\ next_act' = TimeIncrement(Now, Period)
  /\ UNCHANGED <<now, start, statistics, first, finished>>

(* The head of the periodic loop.                                          *)
Arrive ==
  /\ pc = "arrive"
  /\ pc' = "callback"
  /\ arrival' = next_act
  /\ next_act' = TimeIncrement(next_act, Period)
  /\ UNCHANGED <<now, start, statistics, first, finished>>

(* The callback returns zero: the finish time is read and accounted for.   *)
JobDone ==
  /\ pc = "callback"
  /\ pc' = "wait"
  /\ UpdateStatistics(Time2ns(arrival), Time2ns(Now), TimeCmp(next_act, Now) > 0)
  /\ UNCHANGED <<now, start, next_act, arrival, first, finished>>

(* The callback returns anything else.                                     *)
JobStops == pc = "callback" /\ Exit

PeriodEnds ==
  /\ pc = "wait"
  /\ WaitEnds(next_act)
  /\ pc' = "arrive"
  /\ UNCHANGED <<now, start, next_act, arrival, statistics, first, finished>>

Aborts ==
  \/ pc = "delay" /\ WaitRefused(start)
  \/ pc = "wait" /\ WaitRefused(next_act)

Tick ==
  /\ now < MaxTime
  /\ now' = now + 1
  /\ UNCHANGED taskVars

Next ==
  \/ UserInit
  \/ UserInitAborts
  \/ DelayEnds
  \/ Arrive
  \/ JobDone
  \/ JobStops
  \/ PeriodEnds
  \/ Aborts
  \/ Tick

Spec == Init /\ [][Next]_vars

-----------------------------------------------------------------------------

TypeOK ==
  /\ now \in 0 .. MaxTime
  /\ pc \in {"init", "delay", "arrive", "callback", "wait", "exited", "aborted"}
  /\ start \in Carried
  /\ next_act \in Carried
  /\ arrival \in Carried
  /\ statistics \in [response_times : Nat, n_executions : Nat, wcrt : Nat,
                     dmiss_count : Nat]
  /\ first \in 0 .. MaxTime
  /\ finished \in 0 .. 1

(* Jobs whose activation time has been computed.                           *)
Activations ==
  statistics.n_executions + (IF pc = "callback" THEN 1 ELSE 0)

(* However long jobs take and however late the thread wakes up, the n-th   *)
(* job is due n periods after the first activation.                        *)
NoDrift ==
  pc \in {"arrive", "callback", "wait"} =>
    Time2ns(next_act) = first + Activations * PeriodNs

(* No job runs before its activation time, and the first one not before    *)
(* the delay is over: the response f - r of update_statistics, which is    *)
(* unsigned, never wraps around.                                           *)
NeverEarly ==
  /\ pc \in {"arrive", "callback", "wait"} => first >= Time2ns(start)
  /\ pc = "arrive" => now >= Time2ns(next_act)
  /\ pc = "callback" => now >= Time2ns(arrival)

(* The counters agree with each other: a deadline has been missed exactly  *)
(* when the worst response reaches the period, no more deadlines are       *)
(* missed than jobs done, and the worst response lies between the average  *)
(* and the sum of all.                                                     *)
StatisticsAgree ==
  LET s == statistics IN
  /\ s.dmiss_count > 0 <=> s.wcrt >= PeriodNs
  /\ s.dmiss_count <= s.n_executions
  /\ s.dmiss_count * PeriodNs <= s.response_times
  /\ s.wcrt <= s.response_times
  /\ s.response_times <= s.n_executions * s.wcrt

(* rtutils_wait: assert(clock_nanosleep(CLOCK_MONOTONIC, TIMER_ABSTIME,    *)
(* delay, NULL) == 0), that is: every time waited for is a valid one.      *)
WaitsAccepted == pc # "aborted"

=============================================================================
