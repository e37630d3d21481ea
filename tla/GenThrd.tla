------------------------------ MODULE GenThrd ------------------------------
(***************************************************************************)
(* Generic threads (genthrd.c): a periodic thread of the pool that can be  *)
(* terminated through its handle, with POSIX cancellation.                 *)
(*                                                                         *)
(* A cancellation request is answered at a cancellation point (the sleep,  *)
(* the callback, pthread_testcancel), if the thread's cancel state lets it *)
(* and by running the cleanup handlers pushed so far.  Steps that only the *)
(* thread itself can observe are merged: what precedes and what follows    *)
(* pthread_testcancel in thread_cb is one step each.                       *)
(*                                                                         *)
(* init_cb sets active before it stores the identifier of the thread: a    *)
(* request in between makes pthread_cancel use one that is still zero,     *)
(* which is undefined and ends the process, by a fault or the assertion.   *)
(***************************************************************************)
EXTENDS Naturals

CONSTANTS
  Thread,   (* the handles subscribed                                      *)
  MayStop   (* threads whose callback may return non-zero                  *)

ASSUME GenThrdAssumption == MayStop \subseteq Thread

VARIABLES
  tpc,        (* where each thread is; "none" before pthread_create        *)
  cancel,     (* a cancellation request is pending                         *)
  enabled,    (* the thread's cancel state                                 *)
  cleanup,    (* destroy_cb is on the thread's cleanup stack               *)
  active,     (* ctx->thread.active                                        *)
  self,       (* ctx->thread.self has been assigned                        *)
  context,    (* the struct genth_data: "live" or "freed"                  *)
  finishes,   (* how often the user's destroy has been called              *)
  faulted     (* pthread_cancel was given no identifier: the process ends  *)

cancelVars == <<cancel, enabled, cleanup>>
handleVars == <<active, self, context>>
threadVars == <<tpc, cancelVars, handleVars, finishes>>
vars == <<threadVars, faulted>>

(* Every handle has been subscribed: genth_subscribe allocates the context *)
(* and leaves the thread to thrd_start.                                    *)
ThreadInit ==
  /\ tpc = [t \in Thread |-> "none"]
  /\ cancel = [t \in Thread |-> FALSE]
  /\ enabled = [t \in Thread |-> TRUE]
  /\ cleanup = [t \in Thread |-> FALSE]
  /\ active = [t \in Thread |-> FALSE]
  /\ self = [t \in Thread |-> FALSE]
  /\ context = [t \in Thread |-> "live"]
  /\ finishes = [t \in Thread |-> 0]

-----------------------------------------------------------------------------
(* The thread.                                                             *)

Moves(t, from, to) ==
  /\ tpc[t] = from
  /\ tpc' = [tpc EXCEPT ![t] = to]

(* pthread_create.                                                         *)
Create(t) ==
  /\ Moves(t, "none", "init")
  /\ UNCHANGED <<cancelVars, handleVars, finishes>>

(* Mutant of DisableCancel: the thread starts with cancellation enabled.   *)
DisableCancelForgotten(t) ==
  /\ Moves(t, "init", "activate")
  /\ UNCHANGED <<cancelVars, handleVars, finishes>>

(* init_cb; the user's own init is never called, since ctx->user is left   *)
(* empty by genth_subscribe.                                               *)
DisableCancel(t) ==
  /\ Moves(t, "init", "activate")
  /\ enabled' = [enabled EXCEPT ![t] = FALSE]
  /\ UNCHANGED <<cancel, cleanup, handleVars, finishes>>

Activate(t) ==
  /\ Moves(t, "activate", "identify")
  /\ active' = [active EXCEPT ![t] = TRUE]
  /\ UNCHANGED <<cancelVars, self, context, finishes>>

Identify(t) ==
  /\ Moves(t, "identify", "wait")
  /\ self' = [self EXCEPT ![t] = TRUE]
  /\ UNCHANGED <<cancelVars, active, context, finishes>>

(* The delayed activation or the next period.                              *)
WakeUp(t) ==
  /\ Moves(t, "wait", "callback")
  /\ UNCHANGED <<cancelVars, handleVars, finishes>>

(* Mutant of CallbackDone: the request is tested with cancellation off.    *)
CallbackDoneDisabled(t) ==
  /\ Moves(t, "callback", "test")
  /\ cleanup' = [cleanup EXCEPT ![t] = TRUE]
  /\ UNCHANGED <<cancel, enabled, handleVars, finishes>>

(* The callback returns zero: cancellation is enabled under the protection *)
(* of the cleanup handler.                                                 *)
CallbackDone(t) ==
  /\ Moves(t, "callback", "test")
  /\ cleanup' = [cleanup EXCEPT ![t] = TRUE]
  /\ enabled' = [enabled EXCEPT ![t] = TRUE]
  /\ UNCHANGED <<cancel, handleVars, finishes>>

(* The callback returns non-zero: destroy_cb is called at once.            *)
CallbackStops(t) ==
  /\ t \in MayStop
  /\ Moves(t, "callback", "finish")
  /\ UNCHANGED <<cancelVars, handleVars, finishes>>

(* Mutant of NotCancelled: cancellation is left enabled.                   *)
NotCancelledLeftEnabled(t) ==
  /\ Moves(t, "test", "wait")
  /\ ~cancel[t]
  /\ cleanup' = [cleanup EXCEPT ![t] = FALSE]
  /\ UNCHANGED <<cancel, enabled, handleVars, finishes>>

(* pthread_testcancel finds no request.                                    *)
NotCancelled(t) ==
  /\ Moves(t, "test", "wait")
  /\ ~cancel[t]
  /\ cleanup' = [cleanup EXCEPT ![t] = FALSE]
  /\ enabled' = [enabled EXCEPT ![t] = FALSE]
  /\ UNCHANGED <<cancel, handleVars, finishes>>

CancellationPoint == {"wait", "callback", "test"}

(* The thread answers a request: its cleanup handler runs, if there is one.*)
Cancelled(t) ==
  /\ cancel[t] /\ enabled[t]
  /\ tpc[t] \in CancellationPoint
  /\ tpc' = [tpc EXCEPT ![t] = IF cleanup[t] THEN "finish" ELSE "exited"]
  /\ enabled' = [enabled EXCEPT ![t] = FALSE]
  /\ cleanup' = [cleanup EXCEPT ![t] = FALSE]
  /\ UNCHANGED <<cancel, handleVars, finishes>>

(* destroy_cb: the user's destroy, then the context.                       *)
Finish(t) ==
  /\ Moves(t, "finish", "free")
  /\ finishes' = [finishes EXCEPT ![t] = @ + 1]
  /\ UNCHANGED <<cancelVars, handleVars>>

(* Mutant of FreeContext: thread_cb returns zero after destroy_cb.         *)
FreeContextGoesOn(t) ==
  /\ Moves(t, "free", "wait")
  /\ context' = [context EXCEPT ![t] = "freed"]
  /\ UNCHANGED <<cancelVars, active, self, finishes>>

FreeContext(t) ==
  /\ Moves(t, "free", "exited")
  /\ context' = [context EXCEPT ![t] = "freed"]
  /\ UNCHANGED <<cancelVars, active, self, finishes>>

ThreadStep(t) ==
  \/ DisableCancel(t)
  \/ Activate(t)
  \/ Identify(t)
  \/ WakeUp(t)
  \/ CallbackDone(t)
  \/ CallbackStops(t)
  \/ NotCancelled(t)
  \/ Cancelled(t)
  \/ Finish(t)
  \/ FreeContext(t)

-----------------------------------------------------------------------------
(* The handle.                                                             *)

(* genth_sendkill: a request, or nothing and -1 when the thread is not     *)
(* active yet.  Only a thread that has stored its identifier gets it.      *)
SendKill(t) ==
  /\ cancel' = [cancel EXCEPT ![t] = (active[t] /\ self[t]) \/ @]
  /\ UNCHANGED <<tpc, enabled, cleanup, handleVars, finishes>>

(* pthread_cancel gets an identifier that the thread has not stored yet.   *)
StrayCancel(t) == active[t] /\ ~self[t]

-----------------------------------------------------------------------------
(* The threads with a client that creates them, and terminates those that  *)
(* do not stop on their own, at any time while their handle is still good. *)

Init == ThreadInit /\ faulted = FALSE

Start(t) == Create(t) /\ UNCHANGED faulted
Run(t) == ~faulted /\ ThreadStep(t) /\ UNCHANGED faulted

Kill(t) ==
  /\ t \notin MayStop
  /\ context[t] = "live"
  /\ SendKill(t)
  /\ faulted' = StrayCancel(t)

Next == ~faulted /\ \E t \in Thread : Start(t) \/ Run(t) \/ Kill(t)

Spec == Init /\ [][Next]_vars

(* Every thread is scheduled.                                              *)
FairSpec == Spec /\ \A t \in Thread : WF_vars(Run(t))

-----------------------------------------------------------------------------
(* Properties.                                                             *)

ThreadTypeOK ==
  /\ tpc \in [Thread -> {"none", "init", "activate", "identify", "wait",
                         "callback", "test", "finish", "free", "exited"}]
  /\ cancel \in [Thread -> BOOLEAN]
  /\ enabled \in [Thread -> BOOLEAN]
  /\ cleanup \in [Thread -> BOOLEAN]
  /\ active \in [Thread -> BOOLEAN]
  /\ self \in [Thread -> BOOLEAN]
  /\ context \in [Thread -> {"live", "freed"}]
  /\ finishes \in [Thread -> 0 .. 1]
  /\ faulted \in BOOLEAN

(* Where a request can reach a thread, and what it has done by then: the   *)
(* inductive invariant behind CleanEnd.                                    *)
Protected ==
  \A t \in Thread :
    /\ enabled[t] => tpc[t] \in {"none", "init", "test"}
    /\ cleanup[t] <=> tpc[t] = "test"
    /\ finishes[t] = IF tpc[t] \in {"free", "exited"} THEN 1 ELSE 0
    /\ context[t] = IF tpc[t] = "exited" THEN "freed" ELSE "live"

(* "The module takes care of executing the user's Finish procedure": no    *)
(* thread ends, for whatever reason and wherever a request reaches it,     *)
(* without its user's destroy and the end of its context, in that order.   *)
CleanEnd ==
  \A t \in Thread :
    /\ tpc[t] = "exited" => finishes[t] = 1 /\ context[t] = "freed"
    /\ context[t] = "freed" => tpc[t] = "exited"

(* A job is never cut short: once its callback is entered a thread leaves  *)
(* it only by the callback's own return.                                   *)
JobsComplete ==
  [][\A t \in Thread :
       tpc[t] = "callback" /\ tpc'[t] # "callback" =>
         tpc'[t] = "test" \/ t \in MayStop]_vars

(* "Through the handle of a Generic Thread, the developer can terminate    *)
(* the execution": a thread that a request has reached, at any point of    *)
(* its life, runs to its end, unless a request to another thread, too      *)
(* early for its identifier, takes the process down.                       *)
KillTerminates ==
  []~faulted => \A t \in Thread : cancel[t] ~> (tpc[t] = "exited")

=============================================================================
