---------------------------- MODULE GenThrdProofs ----------------------------
(* Proofs about generic threads, for any set of threads: cancellation is   *)
(* enabled only where the cleanup handler is pushed (Protected), so every  *)
(* request that is answered at all goes through destroy_cb.                *)
EXTENDS GenThrd, TLAPS

(* No step of a thread, and no request, breaks the invariant.              *)
LEMMA ThreadStepKeeps ==
  ASSUME ThreadTypeOK, Protected, NEW t \in Thread,
         Create(t) \/ ThreadStep(t) \/ SendKill(t), faulted' \in BOOLEAN
  PROVE  ThreadTypeOK' /\ Protected'
<1> USE DEF ThreadTypeOK, Protected, Moves, cancelVars, handleVars
<1>1. CASE Create(t)
  BY <1>1 DEF Create
<1>2. CASE DisableCancel(t)
  BY <1>2 DEF DisableCancel
<1>3. CASE Activate(t)
  BY <1>3 DEF Activate
<1>4. CASE Identify(t)
  BY <1>4 DEF Identify
<1>5. CASE WakeUp(t)
  BY <1>5 DEF WakeUp
<1>6. CASE CallbackDone(t)
  BY <1>6 DEF CallbackDone
<1>7. CASE CallbackStops(t)
  BY <1>7 DEF CallbackStops
<1>8. CASE NotCancelled(t)
  BY <1>8 DEF NotCancelled
<1>9. CASE Cancelled(t)
  BY <1>9 DEF Cancelled, CancellationPoint
<1>10. CASE Finish(t)
  BY <1>10 DEF Finish
<1>11. CASE FreeContext(t)
  BY <1>11 DEF FreeContext
<1>12. CASE SendKill(t)
  BY <1>12 DEF SendKill
<1> QED
  BY <1>1, <1>2, <1>3, <1>4, <1>5, <1>6, <1>7, <1>8, <1>9, <1>10, <1>11,
     <1>12 DEF ThreadStep

(* A step of a thread moves no other thread, sends no request, and leads   *)
(* to the thread's end only from there or by a request.                    *)
Ending == {"finish", "free", "exited"}

LEMMA ThreadStepEffect ==
  ASSUME ThreadTypeOK, Protected, MayStop = {}, NEW t \in Thread, ThreadStep(t)
  PROVE  /\ \A u \in Thread : u # t => tpc'[u] = tpc[u]
         /\ tpc[t] \notin {"none", "exited"} /\ tpc'[t] # "none"
         /\ cancel' = cancel
         /\ tpc'[t] \in Ending => tpc[t] \in Ending \/ cancel[t]
         /\ tpc[t] \in Ending => tpc'[t] \in Ending
         /\ \A u \in Thread : active'[u] => active[u] \/ u = t
<1> USE DEF ThreadTypeOK, Moves, cancelVars, handleVars, Ending
<1>1. CASE DisableCancel(t)
  BY <1>1 DEF DisableCancel
<1>2. CASE Activate(t)
  BY <1>2 DEF Activate
<1>3. CASE Identify(t)
  BY <1>3 DEF Identify
<1>4. CASE WakeUp(t)
  BY <1>4 DEF WakeUp
<1>5. CASE CallbackDone(t)
  BY <1>5 DEF CallbackDone
<1>6. CASE CallbackStops(t)
  BY <1>6 DEF CallbackStops
<1>7. CASE NotCancelled(t)
  BY <1>7 DEF NotCancelled
<1>8. CASE Cancelled(t)
  BY <1>8 DEF Cancelled, CancellationPoint
<1>9. CASE Finish(t)
  BY <1>9 DEF Finish
<1>10. CASE FreeContext(t)
  BY <1>10 DEF FreeContext
<1> QED
  BY <1>1, <1>2, <1>3, <1>4, <1>5, <1>6, <1>7, <1>8, <1>9, <1>10 DEF ThreadStep

(* What a step of the specification is.                                    *)
LEMMA NextSteps ==
  ASSUME Next
  PROVE  /\ faulted' \in BOOLEAN
         /\ \E t \in Thread : Create(t) \/ ThreadStep(t) \/ SendKill(t)
<1>1. PICK t \in Thread : Start(t) \/ Run(t) \/ Kill(t)
  BY DEF Next
<1>2. faulted' \in BOOLEAN
  <2>1. faulted = FALSE
    BY DEF Next
  <2>2. StrayCancel(t) \in BOOLEAN
    BY Zenon DEF StrayCancel
  <2> QED
    BY <1>1, <2>1, <2>2 DEF Start, Run, Kill
<1> QED
  BY <1>1, <1>2 DEF Start, Run, Kill

(* Wherever a request reaches a thread, cancellation is enabled only under *)
(* the cleanup handler (init_cb, thread_cb).                               *)
THEOREM GenThrdProtected == Spec => [](ThreadTypeOK /\ Protected)
<1>1. Init => ThreadTypeOK /\ Protected
  <2> SUFFICES ASSUME Init PROVE ThreadTypeOK /\ Protected
    OBVIOUS
  <2> USE DEF Init, ThreadInit
  <2>1. ThreadTypeOK
    <3>1. faulted \in BOOLEAN
      BY Zenon
    <3>2. /\ cancel \in [Thread -> BOOLEAN] /\ enabled \in [Thread -> BOOLEAN]
          /\ cleanup \in [Thread -> BOOLEAN] /\ active \in [Thread -> BOOLEAN]
          /\ self \in [Thread -> BOOLEAN]
      OBVIOUS
    <3> QED
      BY <3>1, <3>2 DEF ThreadTypeOK
  <2>2. Protected
    BY DEF Protected
  <2> QED
    BY <2>1, <2>2
<1>2. ThreadTypeOK /\ Protected /\ [Next]_vars
        => ThreadTypeOK' /\ Protected'
  <2> SUFFICES ASSUME ThreadTypeOK, Protected, [Next]_vars
               PROVE  ThreadTypeOK' /\ Protected'
    OBVIOUS
  <2>1. CASE Next
    BY <2>1, NextSteps, ThreadStepKeeps
  <2>2. CASE UNCHANGED vars
    BY <2>2 DEF vars, threadVars, cancelVars, handleVars, ThreadTypeOK, Protected
  <2> QED
    BY <2>1, <2>2
<1> QED
  BY <1>1, <1>2, PTL DEF Spec

(* The types, finishes among them: destroy is called at most once (genth   *)
(* destroy_cb), wherever the request comes.                                *)
THEOREM GenThrdTypeCorrect == Spec => []ThreadTypeOK
BY GenThrdProtected, PTL

(* No thread ends without its user's destroy and the end of its context.   *)
THEOREM GenThrdCleanEnd == Spec => []CleanEnd
<1>1. ThreadTypeOK /\ Protected => CleanEnd
  BY DEF Protected, CleanEnd
<1> QED
  BY <1>1, GenThrdProtected, PTL

(* No request cuts a job short.                                            *)
THEOREM GenThrdJobsComplete == Spec => JobsComplete
<1> DEFINE Left == \A t \in Thread :
                     tpc[t] = "callback" /\ tpc'[t] # "callback" =>
                       tpc'[t] = "test" \/ t \in MayStop
<1>1. ThreadTypeOK /\ Protected /\ [Next]_vars => [Left]_vars
  <2> SUFFICES ASSUME ThreadTypeOK, Protected, Next,
                      NEW q \in Thread, tpc[q] = "callback",
                      tpc'[q] # "callback"
               PROVE  tpc'[q] = "test" \/ q \in MayStop
    OBVIOUS
  <2>1. PICK t \in Thread : Create(t) \/ ThreadStep(t) \/ SendKill(t)
    BY NextSteps
  <2>2. ~SendKill(t)
    BY DEF SendKill
  <2>3. t = q
    BY <2>1, <2>2
       DEF ThreadTypeOK, Create, ThreadStep, Moves, DisableCancel, Activate,
           Identify, WakeUp, CallbackDone, CallbackStops, NotCancelled,
           Cancelled, Finish, FreeContext
  <2>4. ~enabled[t]
    BY <2>3 DEF Protected
  <2> QED
    BY <2>1, <2>2, <2>3, <2>4
       DEF ThreadTypeOK, Create, ThreadStep, Moves, DisableCancel, Activate,
           Identify, WakeUp, CallbackDone, CallbackStops, NotCancelled,
           Cancelled, Finish, FreeContext
<1> QED
  BY <1>1, GenThrdProtected, PTL DEF Spec, JobsComplete

=============================================================================
