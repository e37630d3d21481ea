------------------------------ MODULE ThrdPool ------------------------------
(***************************************************************************)
(* The pool of real-time threads (thrd.c): threads are added, then started *)
(* together with rate-monotonic priorities, then joined and freed.         *)
(*                                                                         *)
(* The caller is one thread that makes one call after another: it adds     *)
(* threads at any time, starts a pool that is not running, asks for the    *)
(* pending error, and destroys the pool at last.  A signal may make it do  *)
(* so in the middle of thrd_start (exit_handler), which then never goes    *)
(* on.  The started threads end by themselves or are told to elsewhere     *)
(* (genth_sendkill).                                                       *)
(***************************************************************************)
EXTENDS RtTime, Sequences, FiniteSets

CONSTANTS
  PeriodsNs,   (* the periods that the caller asks for, in nanoseconds     *)
  MinPrio,     (* opts_get_minprio: the offset over the lowest priority    *)
  SchedMin,    (* sched_get_priority_min(SCHED_FIFO)                       *)
  SchedMax,    (* sched_get_priority_max(SCHED_FIFO)                       *)
  MaxThreads   (* bound: threads added                                     *)

(* to_priority of options.c refuses any other offset.                      *)
ASSUME ThrdPoolAssumption ==
  /\ PeriodsNs \subseteq Nat \ {0}
  /\ MinPrio \in Nat /\ SchedMin \in Nat /\ SchedMax \in Nat
  /\ MinPrio + SchedMin <= SchedMax
  /\ MaxThreads \in Nat

VARIABLES
  threads,   (* pool->threads: the list of thrd_t                          *)
  running,   (* THRD_POOL_ACTIVE                                           *)
  errors,    (* the error bits of pool->status                             *)
  call,      (* where the caller is: "ready", or in which call             *)
  position   (* of the iteration on the list in progress                   *)

vars == <<threads, running, errors, call, position>>

Period(ns) == Ns2time(ns)

(* A thrd_t: priority 0 stands for a field that malloc left undefined.     *)
(* The thread itself is there from pthread_create on, a little before      *)
(* status says so (THRD_ALIVE).                                            *)
Thrd ==
  [period : {Period(ns) : ns \in PeriodsNs},
   priority : Nat,
   status : {"initialized", "alive", "freed"},
   thread : {"none", "running", "ended"}]

Init ==
  /\ threads = << >>
  /\ running = FALSE
  /\ errors = {}
  /\ call = "ready"
  /\ position = 1

Returns == call' = "ready"

-----------------------------------------------------------------------------
(* thrd_add                                                                *)

(* An assertion of thrd.c fails: the program ends.                         *)
Aborts ==
  /\ call' = "aborted"
  /\ UNCHANGED <<threads, running, errors, position>>

AddWithPendingError ==
  /\ call = "ready"
  /\ errors # {}
  /\ Aborts

AddToRunning ==
  /\ call = "ready"
  /\ errors = {}
  /\ running
  /\ errors' = {"CLOSED"}
  /\ UNCHANGED <<threads, running, call, position>>

(* Mutant of NewThrd: the period is not split into seconds.                *)
NewThrdUncarried(ns) ==
  [period |-> [tv_sec |-> 0, tv_nsec |-> ns],
   priority |-> 0, status |-> "initialized", thread |-> "none"]

NewThrd(ns) ==
  [period |-> Period(ns),
   priority |-> 0, status |-> "initialized", thread |-> "none"]

(* Mutant of Add: a running pool is not closed.                            *)
AddAnyway(ns) ==
  /\ call = "ready"
  /\ errors = {}
  /\ Len(threads) < MaxThreads
  /\ threads' = Append(threads, NewThrd(ns))
  /\ UNCHANGED <<running, errors, call, position>>

Add(ns) ==
  /\ call = "ready"
  /\ errors = {}
  /\ ~running
  /\ Len(threads) < MaxThreads
  /\ threads' = Append(threads, NewThrd(ns))
  /\ UNCHANGED <<running, errors, call, position>>

-----------------------------------------------------------------------------
(* thrd_start                                                              *)

StartEmpty ==
  /\ call = "ready"
  /\ threads = << >>
  /\ errors' = errors \cup {"EMPTY"}
  /\ UNCHANGED <<threads, running, call, position>>

(* prio_cmp: negative when t0 has the longer period.                       *)
PrioCmp(t0, t1) == TimeCmp(t0.period, t1.period)

(* What dlist_sort can make of the list: no thread precedes one that       *)
(* prio_cmp puts before it.  p is the permutation it applies.              *)
Sorts(p) ==
  /\ \A i, j \in DOMAIN threads : p[i] = p[j] => i = j
  /\ \A i, j \in DOMAIN threads :
       i < j => ~(PrioCmp(threads[p[j]], threads[p[i]]) < 0)

(* Mutant of RmPriorities: the same priority for every thread.             *)
SamePriorities(p) ==
  [i \in DOMAIN threads |->
     [threads[p[i]] EXCEPT !.priority = MinPrio + SchedMin]]

(* set_rm_priorities: the list is sorted, and priorities go up along it.   *)
RmPriorities(p) ==
  [i \in DOMAIN threads |->
     [threads[p[i]] EXCEPT !.priority = MinPrio + SchedMin + (i - 1)]]

(* The caller starts a pool that is not running.                           *)
Start ==
  /\ call = "ready"
  /\ threads # << >>
  /\ ~running
  /\ \E p \in [DOMAIN threads -> DOMAIN threads] :
       Sorts(p) /\ threads' = RmPriorities(p)
  /\ running' = TRUE
  /\ call' = "start"
  /\ position' = 1
  /\ UNCHANGED errors

(* startup: pthread_attr_setschedparam refuses a priority out of range,    *)
(* and the assertion on its result fails.                                  *)
PriorityRefused ==
  /\ call = "start"
  /\ position <= Len(threads)
  /\ threads[position].priority > SchedMax
  /\ Aborts

(* pthread_create: the thread runs.                                        *)
CreateThread ==
  /\ call = "start"
  /\ position <= Len(threads)
  /\ threads[position].priority <= SchedMax
  /\ threads' = [threads EXCEPT ![position].thread = "running"]
  /\ call' = "mark"
  /\ UNCHANGED <<running, errors, position>>

(* startup goes on: the thread is marked.                                  *)
MarkAlive ==
  /\ call = "mark"
  /\ threads' = [threads EXCEPT ![position].status = "alive"]
  /\ position' = position + 1
  /\ call' = "start"
  /\ UNCHANGED <<running, errors>>

(* pthread_create fails: the threads started so far keep running.          *)
StartFails ==
  /\ call = "start"
  /\ position <= Len(threads)
  /\ threads[position].priority <= SchedMax
  /\ errors' = errors \cup {"LIBRARY"}
  /\ Returns
  /\ UNCHANGED <<threads, running, position>>

Started ==
  /\ call = "start"
  /\ position > Len(threads)
  /\ Returns
  /\ UNCHANGED <<threads, running, errors, position>>

-----------------------------------------------------------------------------
(* thrd_interr, thrd_destroy, and the end of a thread                      *)

Interr ==
  /\ call = "ready"
  /\ errors' = {}
  /\ UNCHANGED <<threads, running, call, position>>

(* The caller is done, or a signal in the middle of thrd_start makes       *)
(* exit_handler call thrd_destroy.                                         *)
Destroy ==
  /\ call \in {"ready", "start", "mark"}
  /\ call' = "destroy"
  /\ position' = 1
  /\ UNCHANGED <<threads, running, errors>>

(* Mutant of FreeThread: the thread is not joined.                         *)
FreeThreadUnjoined ==
  /\ call = "destroy"
  /\ position <= Len(threads)
  /\ threads' = [threads EXCEPT ![position].status = "freed"]
  /\ position' = position + 1
  /\ UNCHANGED <<running, errors, call>>

(* free_thread: a thread that is marked alive is joined first.             *)
FreeThread ==
  /\ call = "destroy"
  /\ position <= Len(threads)
  /\ threads[position].status = "alive" => threads[position].thread = "ended"
  /\ threads' = [threads EXCEPT ![position].status = "freed"]
  /\ position' = position + 1
  /\ UNCHANGED <<running, errors, call>>

Destroyed ==
  /\ call = "destroy"
  /\ position > Len(threads)
  /\ call' = "destroyed"
  /\ UNCHANGED <<threads, running, errors, position>>

(* thread_routine returns.                                                 *)
EndThread(i) ==
  /\ call # "aborted"
  /\ threads[i].thread = "running"
  /\ threads' = [threads EXCEPT ![i].thread = "ended"]
  /\ UNCHANGED <<running, errors, call, position>>

-----------------------------------------------------------------------------

Next ==
  \/ AddWithPendingError
  \/ AddToRunning
  \/ \E ns \in PeriodsNs : Add(ns)
  \/ StartEmpty
  \/ Start
  \/ PriorityRefused
  \/ CreateThread
  \/ MarkAlive
  \/ StartFails
  \/ Started
  \/ Interr
  \/ Destroy
  \/ FreeThread
  \/ Destroyed
  \/ \E i \in DOMAIN threads : EndThread(i)

Spec == Init /\ [][Next]_vars

-----------------------------------------------------------------------------
(* Properties.                                                             *)

TypeOK ==
  /\ threads \in Seq(Thrd)
  /\ running \in BOOLEAN
  /\ errors \subseteq {"LIBRARY", "CLOSED", "EMPTY"}
  /\ call \in {"ready", "start", "mark", "destroy", "destroyed", "aborted"}
  /\ position \in 1 .. Len(threads) + 1

(* Rate-monotonic scheduling, whatever prio_cmp says of equal periods and  *)
(* however the caller interleaves its calls: in a running pool a shorter   *)
(* period always has a higher priority, and no two threads share one.      *)
RateMonotonic ==
  running =>
    \A i, j \in DOMAIN threads :
      /\ Time2ns(threads[i].period) < Time2ns(threads[j].period)
           => threads[i].priority > threads[j].priority
      /\ i # j => threads[i].priority # threads[j].priority

(* A start that fails halfway, or that a signal cuts short, leaves running *)
(* the threads that come first in the list, the least urgent ones, with no *)
(* more urgent one among them: what has been started of a pool is always   *)
(* its lowest priorities.                                                  *)
LeastUrgentStarted ==
  \A i, j \in DOMAIN threads :
    threads[i].thread # "none" /\ threads[j].thread = "none" =>
      threads[i].priority < threads[j].priority

(* thrd_destroy "will join all its threads before freeing memory".  What   *)
(* holds of it: also after a start that failed or was cut short by a       *)
(* signal, at most one thread can outlive its thrd_t, the one that startup *)
(* had created but not marked yet, which is the most urgent so far.        *)
JoinedBeforeFreed ==
  \A i, j \in DOMAIN threads :
    /\ threads[i].status = "freed" /\ threads[i].thread = "running"
    /\ threads[j].thread # "none" /\ i # j
    => threads[j].priority < threads[i].priority

(* startup: assert(err == 0) on pthread_attr_setschedparam.  No priority   *)
(* given by set_rm_priorities is refused.                                  *)
PrioritiesAccepted ==
  call = "start" =>
    \A i \in DOMAIN threads : threads[i].priority \in SchedMin .. SchedMax

=============================================================================
