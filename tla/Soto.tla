-------------------------------- MODULE Soto --------------------------------
(***************************************************************************)
(* The whole program (main.c): it subscribes a sampling thread and, for    *)
(* each display, a plotter and a show thread; starts them (thrd_start);    *)
(* and takes everything down again in exit_handler, on a timeout, on a     *)
(* signal or on a failure, while the threads go on by themselves.          *)
(*                                                                         *)
(* The threads are those of GenThrd.  What each callback uses is modelled  *)
(* by what must still exist: the show threads use the sampling thread's    *)
(* context and then their plot, the plotters their plot, the sampling      *)
(* thread the sound card, and every thread its own thrd_t.                 *)
(*                                                                         *)
(* exit is called by main, or while main sleeps by any thread: the one     *)
(* that the system picks for a signal, or a plotter whose window has been  *)
(* closed.  exit_handler then runs in the middle of that thread, on top of *)
(* what it was doing and with the mutex it had.  Nothing makes exit wait   *)
(* for the threads: they may not have been marked, be active or have had   *)
(* their first job.                                                        *)
(***************************************************************************)
EXTENDS Naturals, Sequences, SequencesExt

CONSTANT
  Display   (* the displays asked for: opts_spectrum_shown, _signal_shown  *)

(* opts_parse refuses a command line that shows nothing.                   *)
ASSUME SotoAssumption ==
  /\ Display \subseteq {"spectrum", "signal"}
  /\ Display # {}

Sampling == <<"sampling", "alsa">>
Plotter(d) == <<"plotter", d>>
Show(d) == <<"show", d>>

Plotters == {Plotter(d) : d \in Display}
Shows == {Show(d) : d \in Display}
Thread == {Sampling} \cup Plotters \cup Shows

Main == <<"main", "exit">>

VARIABLES
  tpc, cancel, enabled, cleanup, active, self, context, finishes,
  mpc,       (* where main is, up to and including exit_handler            *)
  success,   (* xval = EXIT_SUCCESS                                        *)
  runner,    (* the thread that exit_handler runs in                       *)
  held,      (* the mutex that it was interrupted with: of the samples, or *)
             (* of a graphic of a display                                  *)
  stack,     (* data.threads, the handles, the last pushed first           *)
  unheard,   (* threads for which genth_sendkill has returned -1: history, *)
             (* exit_handler does not look at the result                   *)
  pool,      (* pool->threads: the list of thrd_t                          *)
  position,  (* of the iteration on pool->threads in progress              *)
  alive,     (* threads with THRD_ALIVE set                                *)
  released,  (* threads whose thrd_t has been freed                        *)
  alsa,      (* data.sampler: "none", "live" or "freed"                    *)
  plot,      (* data.spectrum and data.signal: "none", "live" or "freed"   *)
  served,    (* show threads past sampth_get_samples in their callback     *)
  executed   (* threads with n_executions > 0, for the statistics          *)

G == INSTANCE GenThrd WITH MayStop <- {}, faulted <- (mpc = "stray")

threadVars ==
  <<tpc, cancel, enabled, cleanup, active, self, context, finishes>>
poolVars == <<pool, alive, released>>
deviceVars == <<alsa, plot>>
jobVars == <<served, executed>>
exitVars == <<success, runner, held>>
killVars == <<stack, unheard>>
mainVars == <<mpc, exitVars, killVars, position, poolVars, deviceVars>>
vars == <<threadVars, mainVars, jobVars>>

Init ==
  /\ G!ThreadInit
  /\ mpc = "setup"
  /\ success = FALSE
  /\ runner = Main
  /\ held = {}
  /\ stack = << >>
  /\ unheard = {}
  /\ pool = << >>
  /\ position = 1
  /\ alive = {}
  /\ released = {}
  /\ alsa = "none"
  /\ plot = [d \in Display |-> "none"]
  /\ served = {}
  /\ executed = {}

Created == {t \in Thread : tpc[t] # "none"}

Exiting == {"kill", "stats", "join", "alsa", "plots"}

(* The ends of the process: exit_handler completes; a second signal calls  *)
(* exit while exit_handler runs, and the C library skips the rest of it; a *)
(* thread uses memory that has been freed; pthread_cancel is given no      *)
(* identifier; the statistics divide by zero.                              *)
Ended == {"gone", "killed", "crashed", "stray", "divided"}

-----------------------------------------------------------------------------
(* exit                                                                    *)

(* Without success the statistics are dropped unread (drop_statistics).    *)
Exit(ok, t) ==
  /\ mpc' = "kill"
  /\ success' = ok
  /\ runner' = t
  /\ executed' = IF ok THEN executed ELSE {}

(* The time to run is over.                                                *)
TimeUp ==
  /\ mpc = "run"
  /\ Exit(TRUE, Main)
  /\ UNCHANGED held
  /\ UNCHANGED <<threadVars, killVars, position, poolVars, deviceVars, served>>

(* SIGINT or SIGTERM, in main.                                             *)
Signal ==
  /\ mpc \in {"setup", "create", "mark", "run"}
  /\ Exit(FALSE, Main)
  /\ UNCHANGED held
  /\ UNCHANGED <<threadVars, killVars, position, poolVars, deviceVars, served>>

(* What a callback locks: the samples, then the graphics of its plot.      *)
Locks(t) ==
  CASE t = Sampling -> {"samples"}
    [] t \in Plotters -> {t[2]}
    [] t \in Shows -> IF t \in served THEN {t[2]} ELSE {"samples"}

(* A signal, or a window that has been closed, in another thread.          *)
ExitInThread(t) ==
  /\ mpc = "run"
  /\ tpc[t] \notin {"none", "exited"}
  /\ Exit(FALSE, t)
  /\ \/ held' = {}
     \/ tpc[t] = "callback" /\ held' = Locks(t)
  /\ UNCHANGED <<threadVars, killVars, position, poolVars, deviceVars, served>>

(* exit is called once more while exit_handler runs, or after it was cut   *)
(* short: by a signal, or by main if its time is up.                       *)
ExitAgain ==
  /\ mpc \in Exiting \cup {"cut"}
  /\ mpc' = "killed"
  /\ UNCHANGED <<threadVars, exitVars, killVars, position, poolVars, deviceVars,
                 jobVars>>

-----------------------------------------------------------------------------
(* main, up to the start of the threads.                                   *)

ForDisplay(d) ==
  IF d \in Display THEN <<Plotter(d), Show(d)>> ELSE << >>

Subscriptions ==
  <<Sampling>> \o ForDisplay("spectrum") \o ForDisplay("signal")

(* alsagw_new.                                                             *)
OpenSoundCard ==
  /\ mpc = "setup"
  /\ alsa = "none"
  /\ alsa' = "live"
  /\ UNCHANGED <<threadVars, mpc, exitVars, killVars, position, poolVars, plot,
                 jobVars>>

(* The next thread is subscribed: its thrd_t is appended to the pool, its  *)
(* handle pushed.  A plotter comes with the plot that it draws.            *)
Subscribe ==
  /\ mpc = "setup"
  /\ alsa = "live"
  /\ Len(pool) < Len(Subscriptions)
  /\ LET t == Subscriptions[Len(pool) + 1] IN
       /\ pool' = Append(pool, t)
       /\ stack' = <<t>> \o stack
       /\ plot' = IF t \in Plotters THEN [plot EXCEPT ![t[2]] = "live"] ELSE plot
  /\ UNCHANGED <<threadVars, mpc, exitVars, unheard, position, alive, released,
                 alsa, jobVars>>

(* alsagw_new, mlockall or pthread_create fails.                           *)
SetupFails ==
  /\ \/ mpc = "setup" /\ alsa = "none"
     \/ mpc = "setup" /\ Len(pool) = Len(Subscriptions)
     \/ mpc = "create"
  /\ Exit(FALSE, Main)
  /\ UNCHANGED held
  /\ UNCHANGED <<threadVars, killVars, position, poolVars, deviceVars, served>>

(* thrd_start sorts the threads, the longest period first.  Only the       *)
(* period of a show thread is known to exceed that of the sampling thread. *)
SortThreads ==
  /\ mpc = "setup"
  /\ Len(pool) = Len(Subscriptions)
  /\ \E order \in SetToSeqs(Thread) :
       /\ \A i, j \in DOMAIN order :
            order[i] \in Shows /\ order[j] = Sampling => i < j
       /\ pool' = order
  /\ position' = 1
  /\ mpc' = "create"
  /\ UNCHANGED <<threadVars, exitVars, killVars, alive, released, deviceVars,
                 jobVars>>

CreateThread ==
  /\ mpc = "create"
  /\ G!Create(pool[position])
  /\ mpc' = "mark"
  /\ UNCHANGED <<exitVars, killVars, position, poolVars, deviceVars, jobVars>>

(* Mutant of MarkAlive: the thread is not marked.                          *)
MarkAliveForgotten ==
  /\ mpc = "mark"
  /\ position' = position + 1
  /\ mpc' = IF position = Len(pool) THEN "run" ELSE "create"
  /\ UNCHANGED <<threadVars, exitVars, killVars, poolVars, deviceVars, jobVars>>

(* status |= THRD_ALIVE, after pthread_create has returned.                *)
MarkAlive ==
  /\ mpc = "mark"
  /\ alive' = alive \cup {pool[position]}
  /\ position' = position + 1
  /\ mpc' = IF position = Len(pool) THEN "run" ELSE "create"
  /\ UNCHANGED <<threadVars, exitVars, killVars, pool, released, deviceVars,
                 jobVars>>

-----------------------------------------------------------------------------
(* exit_handler                                                            *)

(* What genth_sendkill tells exit_handler, and what becomes of the process *)
(* if the identifier of the thread is not stored yet.                      *)
Told(t) ==
  /\ unheard' = IF active[t] THEN unheard ELSE unheard \cup {t}
  /\ mpc' = IF G!StrayCancel(t) THEN "stray" ELSE mpc

(* Mutant of KillNext: genth_sendkill does not look at active.             *)
KillNextUnchecked ==
  /\ mpc = "kill"
  /\ stack # << >>
  /\ stack' = Tail(stack)
  /\ cancel' = [cancel EXCEPT ![Head(stack)] = TRUE]
  /\ UNCHANGED <<tpc, enabled, cleanup, active, self, context, finishes, mpc,
                 exitVars, unheard, position, poolVars, deviceVars, jobVars>>

(* Mutant of KillNext: the handle is popped and no request is sent.        *)
KillNextDropped ==
  /\ mpc = "kill"
  /\ stack # << >>
  /\ stack' = Tail(stack)
  /\ UNCHANGED <<threadVars, mpc, exitVars, unheard, position, poolVars,
                 deviceVars, jobVars>>

(* Mutant of KillNext: the handles are taken from the other end.           *)
KillNextOldest ==
  /\ mpc = "kill"
  /\ stack # << >>
  /\ stack' = Front(stack)
  /\ G!SendKill(Last(stack))
  /\ Told(Last(stack))
  /\ UNCHANGED <<exitVars, position, poolVars, deviceVars, jobVars>>

(* The handles are popped and a request is sent to each.                   *)
KillNext ==
  /\ mpc = "kill"
  /\ stack # << >>
  /\ stack' = Tail(stack)
  /\ G!SendKill(Head(stack))
  /\ Told(Head(stack))
  /\ UNCHANGED <<exitVars, position, poolVars, deviceVars, jobVars>>

AllKilled ==
  /\ mpc = "kill"
  /\ stack = << >>
  /\ mpc' = IF success THEN "stats" ELSE "join"
  /\ position' = 1
  /\ UNCHANGED <<threadVars, exitVars, killVars, poolVars, deviceVars, jobVars>>

(* show_statistics divides by the number of executions of every thread.    *)
ShowStatistics ==
  /\ mpc = "stats"
  /\ mpc' = IF Range(pool) \subseteq executed THEN "join" ELSE "divided"
  /\ UNCHANGED <<threadVars, exitVars, killVars, position, poolVars, deviceVars,
                 jobVars>>

(* exit_handler sends a request to its own thread too.  When that thread   *)
(* was interrupted in thread_cb while cancellation was enabled, the first  *)
(* message or pthread_join answers it and the handler never goes on.       *)
HandlerCancelled ==
  /\ mpc \in Exiting \ {"kill"}
  /\ runner \in Thread
  /\ G!Cancelled(runner)
  /\ mpc' = "cut"
  /\ runner' = Main
  /\ UNCHANGED <<success, held, killVars, position, poolVars, deviceVars, jobVars>>

(* Mutant of JoinNext: the thread is not waited for.                       *)
JoinNextAnyway ==
  /\ mpc = "join"
  /\ position <= Len(pool)
  /\ released' = released \cup {pool[position]}
  /\ position' = position + 1
  /\ UNCHANGED <<threadVars, mpc, exitVars, killVars, pool, alive, deviceVars,
                 jobVars>>

(* free_thread: a thread is joined if it was marked alive, and released    *)
(* under its feet if it was not.  A thread does not wait for itself:       *)
(* pthread_join refuses, and the result is ignored.                        *)
JoinNext ==
  /\ mpc = "join"
  /\ position <= Len(pool)
  /\ pool[position] \in alive \ {runner} => tpc[pool[position]] = "exited"
  /\ released' = released \cup {pool[position]}
  /\ position' = position + 1
  /\ UNCHANGED <<threadVars, mpc, exitVars, killVars, pool, alive, deviceVars,
                 jobVars>>

AllJoined ==
  /\ mpc = "join"
  /\ position > Len(pool)
  /\ mpc' = "alsa"
  /\ UNCHANGED <<threadVars, exitVars, killVars, position, poolVars, deviceVars,
                 jobVars>>

CloseSoundCard ==
  /\ mpc = "alsa"
  /\ alsa' = IF alsa = "live" THEN "freed" ELSE alsa
  /\ mpc' = "plots"
  /\ UNCHANGED <<threadVars, exitVars, killVars, position, poolVars, plot, jobVars>>

DestroyPlots ==
  /\ mpc = "plots"
  /\ plot' = [d \in Display |-> IF plot[d] = "live" THEN "freed" ELSE plot[d]]
  /\ mpc' = "gone"
  /\ UNCHANGED <<threadVars, exitVars, killVars, position, poolVars, alsa, jobVars>>

-----------------------------------------------------------------------------
(* The threads, until the process ends.                                    *)

(* sampth_get_samples in a show thread: the handle of the sampling thread  *)
(* and what it leads to are read.  Once they are freed, the program may    *)
(* crash or read what is left in memory.                                   *)
GetSamples(t) ==
  /\ mpc \notin Ended
  /\ t \in Shows \ {runner}
  /\ tpc[t] = "callback"
  /\ t \notin served
  /\ "samples" \notin held
  /\ \/ served' = served \cup {t} /\ UNCHANGED mpc
     \/ context[Sampling] = "freed" /\ mpc' = "crashed" /\ UNCHANGED served
  /\ UNCHANGED <<threadVars, exitVars, killVars, position, poolVars, deviceVars,
                 executed>>

(* A job is counted when thread_cb returns, as long as the statistics may  *)
(* still be shown.                                                         *)
Counted(t) ==
  /\ tpc[t] = "test" /\ tpc'[t] = "wait"
  /\ mpc \in {"create", "mark", "run"} \/ success

(* A step of the generic thread.  A show thread's callback ends only after *)
(* it has its samples, and none without the locks it needs.                *)
RunThread(t) ==
  /\ mpc \notin Ended
  /\ t # runner
  /\ tpc[t] = "callback" => Locks(t) \cap held = {}
  /\ G!ThreadStep(t)
  /\ t \in Shows /\ tpc[t] = "callback" => t \in served
  /\ served' = IF tpc[t] = "callback" THEN served \ {t} ELSE served
  /\ executed' = IF Counted(t) THEN executed \cup {t} ELSE executed
  /\ UNCHANGED mainVars

(* A thread whose thrd_t has been released goes on using it: the program   *)
(* may crash.                                                              *)
FreedThread(t) ==
  /\ mpc \notin Ended
  /\ t \in released \ {runner}
  /\ tpc[t] \notin {"none", "finish", "free", "exited"}
  /\ mpc' = "crashed"
  /\ UNCHANGED <<threadVars, exitVars, killVars, position, poolVars, deviceVars,
                 jobVars>>

-----------------------------------------------------------------------------

MainStep ==
  \/ OpenSoundCard
  \/ Subscribe
  \/ SortThreads
  \/ CreateThread
  \/ MarkAlive
  \/ KillNext
  \/ AllKilled
  \/ ShowStatistics
  \/ JoinNext
  \/ AllJoined
  \/ CloseSoundCard
  \/ DestroyPlots

(* The process is over.                                                    *)
Over == mpc \in Ended /\ UNCHANGED vars

Next ==
  \/ MainStep
  \/ TimeUp
  \/ Signal
  \/ ExitAgain
  \/ HandlerCancelled
  \/ SetupFails
  \/ \E t \in Thread :
       GetSamples(t) \/ RunThread(t) \/ FreedThread(t) \/ ExitInThread(t)
  \/ Over

Spec == Init /\ [][Next]_vars

(* main and every thread are scheduled; nothing promises that the program  *)
(* is ever told to end, nor a second signal.                               *)
FairSpec ==
  /\ Spec
  /\ WF_vars(MainStep)
  /\ \A t \in Thread : WF_vars(GetSamples(t) \/ RunThread(t))

-----------------------------------------------------------------------------
(* Properties.                                                             *)

TypeOK ==
  /\ G!ThreadTypeOK
  /\ mpc \in {"setup", "create", "mark", "run", "cut"} \cup Exiting \cup Ended
  /\ success \in BOOLEAN
  /\ runner \in Thread \cup {Main}
  /\ held \in {{}, {"samples"}} \cup {{d} : d \in Display}
  /\ stack \in Seq(Thread)
  /\ unheard \subseteq Thread
  /\ pool \in Seq(Thread)
  /\ position \in 1 .. Len(pool) + 1
  /\ alive \subseteq Thread
  /\ released \subseteq Thread
  /\ alsa \in {"none", "live", "freed"}
  /\ plot \in [Display -> {"none", "live", "freed"}]
  /\ served \subseteq Shows
  /\ executed \subseteq Thread

(* The composition implements GenThrd: whatever main, exit_handler and the *)
(* other threads do, a thread is only created once and only gets requests  *)
(* that genth_sendkill accepts, through a handle that has not been freed.  *)
GenericThreads == G!Spec

(* "Waiting until they're dead": whenever exit was called, nothing that a  *)
(* running thread uses is destroyed under it, be it its plot, the sound    *)
(* card or its own thrd_t.  Two threads are left out: the one that         *)
(* exit_handler runs in, which does not go on afterwards, and the one that *)
(* thrd_start was creating, which is not marked and so not waited for.     *)
Waited == alive \ {runner}

NothingUsedAfterDestroyed ==
  \A t \in Waited :
    /\ t \in released => tpc[t] \in {"finish", "free", "exited"}
    /\ tpc[t] = "callback" =>
         IF t = Sampling THEN alsa = "live" ELSE plot[t[2]] = "live"

(* When exit_handler completes, every thread that was ever started is      *)
(* gone, its user's destroy called once, except for the one that           *)
(* exit_handler runs in and at most one that was just being created; and   *)
(* nothing of the pool, the sound card and the plots is left.              *)
CleanExit ==
  mpc = "gone" =>
    /\ \A t \in Waited :
         tpc[t] = "exited" /\ finishes[t] = 1 /\ context[t] = "freed"
    /\ \A t, u \in Created \ alive : t = u
    /\ released = Range(pool)
    /\ alsa # "live" /\ \A d \in Display : plot[d] # "live"

(* What the stack of handles does give: a show thread that finds the       *)
(* sampling thread's context freed has had its own request before, or was  *)
(* too young for one.                                                      *)
ShowsToldFirst ==
  context[Sampling] = "freed" => \A t \in Shows : cancel[t] \/ t \in unheard

(* The exit is not in the way of itself: the thread it runs in holds no    *)
(* mutex and does not answer the request that it sends to itself.          *)
Unhindered ==
  /\ mpc \in Exiting
  /\ held = {}
  /\ runner \in Thread => ~enabled[runner]

(* An exit that has begun ends, in whatever thread it runs: the requests   *)
(* reach all the threads that thrd_destroy joins.                          *)
ExitCompletes == Unhindered ~> (mpc \in Ended)

(* Every request of this exit is accepted, the statistics can be shown.    *)
Heard ==
  /\ \A t \in Created \cap Range(stack) : self[t]
  /\ Waited \cap unheard = {}
  /\ success => Range(pool) \subseteq executed

(* An exit that reaches its threads completes, whatever they were doing,   *)
(* unless exit is called again or freed memory is used.                    *)
HeardExitCompletes ==
  [](mpc \notin {"killed", "crashed"}) =>
    ((Unhindered /\ Heard) ~> (mpc = "gone"))

(* main.c, on the stack of handles: "by pop-ing elements I obtain the      *)
(* correct deallocation order".  No show thread that has got its request   *)
(* is about to read through the handle of a sampling thread that has been  *)
(* deallocated.                                                            *)
DeallocationOrder ==
  \A t \in Shows \ unheard :
    tpc[t] = "callback" /\ t \notin served => context[Sampling] = "live"

=============================================================================
