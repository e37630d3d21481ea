------------------------------ MODULE Sampler ------------------------------
(***************************************************************************)
(* The sampling thread (sampthread.c), the read from the sound card that   *)
(* each of its jobs makes (alsagw.c), and the readers that copy its slotted *)
(* circular buffer from their own threads (sampth_get_samples).            *)
(*                                                                         *)
(* One mutex protects the cursor and the buffer.  A job holds it through   *)
(* the whole read, retry included; a reader holds it through the two       *)
(* memcpy that unroll the buffer from the oldest slot to the newest.       *)
(*                                                                         *)
(* A frame is its number in the order of capture, 0 the initial silence.   *)
(* MaxFrames bounds the frames that the sound card delivers.               *)
(***************************************************************************)
EXTENDS Integers

CONSTANTS
  NSlots,    (* ctx->nslots, the scaling factor                            *)
  SlotSize,  (* ctx->slot_size, the frames of one read                     *)
  Reader,    (* threads that call sampth_get_samples                       *)
  MaxFrames  (* bound: frames the sound card delivers                      *)

ASSUME SamplerAssumption ==
  /\ NSlots \in Nat \ {0}
  /\ SlotSize \in Nat \ {0}
  /\ MaxFrames \in Nat
  /\ {"free", "sampler"} \cap Reader = {}

VARIABLES
  buffer,    (* ctx->buffer, one flat array of frames                      *)
  slot,      (* ctx->slot, the cursor: the oldest slot                     *)
  mux,       (* ctx->mux: "free" or the thread that holds it               *)
  spc,       (* where the sampling thread is in its job                    *)
  pcm,       (* state of the sound card: "running" or "xrun"               *)
  captured,  (* frames delivered so far                                    *)
  complete,  (* history: consecutive complete jobs, up to NSlots           *)
  rpc,       (* where each reader is in sampth_get_samples                 *)
  copy       (* each reader's own buffer                                   *)

cardVars == <<pcm, captured, complete>>
readerVars == <<rpc, copy>>
vars == <<buffer, slot, mux, spc, pcm, captured, complete, rpc, copy>>

Size == NSlots * SlotSize

Index == 0 .. Size - 1

(* What calloc leaves in a buffer.                                         *)
Silence == [i \in Index |-> 0]

Init ==
  /\ buffer = Silence
  /\ slot = 0
  /\ mux = "free"
  /\ spc = "idle"
  /\ pcm = "running"
  /\ captured = 0
  /\ complete = 0
  /\ rpc = [r \in Reader |-> "idle"]
  /\ copy = [r \in Reader |-> Silence]

-----------------------------------------------------------------------------
(* The read: alsagw_read, with the mutex held.                             *)

(* Mutant of Store: the cursor taken for an offset in frames.              *)
StoreAtCursor(n) ==
  buffer' = [i \in Index |->
               IF i \in slot .. slot + n - 1
                 THEN captured + (i - slot) + 1
                 ELSE buffer[i]]

(* snd_pcm_readi stores n frames from the cursor on.                       *)
Store(n) ==
  buffer' = [i \in Index |->
               IF i \in slot * SlotSize .. slot * SlotSize + n - 1
                 THEN captured + (i - slot * SlotSize) + 1
                 ELSE buffer[i]]

(* The read ends with n frames: the job goes on to move the cursor.        *)
EndRead(n) ==
  /\ captured + n <= MaxFrames
  /\ Store(n)
  /\ captured' = captured + n
  /\ complete' = IF n # SlotSize THEN 0
                 ELSE IF complete < NSlots THEN complete + 1 ELSE NSlots
  /\ spc' = "advance"
  /\ UNCHANGED <<slot, mux, readerVars>>

(* snd_pcm_readi, at the first attempt or at the retry, delivers a full    *)
(* slot or part of one.                                                    *)
ReadFrames ==
  /\ spc \in {"read", "retry"}
  /\ pcm = "running"
  /\ \E n \in 1 .. SlotSize : EndRead(n)
  /\ UNCHANGED pcm

(* In snd_pcm_wait: after -EAGAIN, or after the attempt to recover.        *)
Polling == {"poll", "recovered"}

(* Mutant of ReadFails: a read that fails is made again, mutex held.       *)
ReadFailsAgain ==
  /\ \/ spc \in {"read"} \cup Polling /\ pcm = "running"
     \/ spc = "retry"
  /\ spc' = "read"
  /\ UNCHANGED <<buffer, slot, mux, cardVars, readerVars>>

(* No frames and no further attempt: an error at the first read that is    *)
(* not retried, a poll that times out or fails, a retry that fails.        *)
ReadFails ==
  /\ \/ spc \in {"read"} \cup Polling /\ pcm = "running"
     \/ spc = "retry"
  /\ EndRead(0)
  /\ UNCHANGED pcm

(* The first read gives -EAGAIN: wait for the resource.                    *)
ReadAgain ==
  /\ spc = "read"
  /\ pcm = "running"
  /\ spc' = "poll"
  /\ UNCHANGED <<buffer, slot, mux, cardVars, readerVars>>

(* Mutant of ReadOverrun: snd_pcm_recover is not called.                   *)
ReadOverrunIgnored(after) ==
  /\ spc = "read"
  /\ pcm = "xrun"
  /\ spc' = "poll"
  /\ UNCHANGED <<buffer, slot, mux, cardVars, readerVars>>

(* The first read gives -EPIPE.  snd_pcm_recover may fail, which is only   *)
(* logged; control falls through to the wait.                              *)
ReadOverrun(after) ==
  /\ spc = "read"
  /\ pcm = "xrun"
  /\ pcm' = after
  /\ spc' = IF after = "running" THEN "recovered" ELSE "poll"
  /\ UNCHANGED <<buffer, slot, mux, captured, complete, readerVars>>

(* snd_pcm_wait says that there is something to read: retry once.          *)
PollReady ==
  /\ spc \in Polling
  /\ pcm = "running"
  /\ spc' = "retry"
  /\ UNCHANGED <<buffer, slot, mux, cardVars, readerVars>>

(* snd_pcm_wait gives -EPIPE: recover, and leave the rest to the next job. *)
PollOverrun(after) ==
  /\ spc \in Polling
  /\ pcm = "xrun"
  /\ pcm' = after
  /\ EndRead(0)

CardState == {"running", "xrun"}

(* The sound card's own buffer fills up before the next read.              *)
Overrun ==
  /\ pcm = "running"
  /\ pcm' = "xrun"
  /\ UNCHANGED <<buffer, slot, mux, spc, captured, complete, readerVars>>

-----------------------------------------------------------------------------
(* The job of the sampling thread: thread_cb around the read.              *)

(* Mutant of SampleLock: the job does not wait for the mutex.              *)
SampleLockAnyway ==
  /\ spc = "idle"
  /\ mux' = "sampler"
  /\ spc' = "read"
  /\ UNCHANGED <<buffer, slot, cardVars, readerVars>>

SampleLock ==
  /\ spc = "idle"
  /\ mux = "free"
  /\ mux' = "sampler"
  /\ spc' = "read"
  /\ UNCHANGED <<buffer, slot, cardVars, readerVars>>

(* Mutant of Advance: the cursor does not wrap around.                     *)
AdvanceUnwrapped ==
  /\ spc = "advance"
  /\ slot' = slot + 1
  /\ spc' = "unlock"
  /\ UNCHANGED <<buffer, mux, cardVars, readerVars>>

(* The cursor moves whatever the read gave.                                *)
Advance ==
  /\ spc = "advance"
  /\ slot' = (slot + 1) % NSlots
  /\ spc' = "unlock"
  /\ UNCHANGED <<buffer, mux, cardVars, readerVars>>

SampleUnlock ==
  /\ spc = "unlock"
  /\ mux' = "free"
  /\ spc' = "idle"
  /\ UNCHANGED <<buffer, slot, cardVars, readerVars>>

-----------------------------------------------------------------------------
(* sampth_get_samples, in the thread of reader r.                          *)

ReaderMoves(r, from, to) ==
  /\ rpc[r] = from
  /\ rpc' = [rpc EXCEPT ![r] = to]
  /\ UNCHANGED <<buffer, slot, spc, cardVars>>

(* The periodic callback of the reader calls sampth_get_samples.           *)
GetSamples(r) ==
  /\ ReaderMoves(r, "idle", "lock")
  /\ UNCHANGED <<mux, copy>>

(* Mutant of ReaderLock: the reader does not wait for the mutex.           *)
ReaderLockAnyway(r) ==
  /\ ReaderMoves(r, "lock", "older")
  /\ mux' = r
  /\ UNCHANGED copy

ReaderLock(r) ==
  /\ ReaderMoves(r, "lock", "older")
  /\ mux = "free"
  /\ mux' = r
  /\ UNCHANGED copy

(* Frames from the cursor to the end of the buffer.                        *)
NFrames == SlotSize * (NSlots - slot)

(* First memcpy: the slots from the cursor to the end of the buffer.       *)
CopyOlder(r) ==
  /\ ReaderMoves(r, "older", "newer")
  /\ copy' = [copy EXCEPT ![r] =
                [i \in Index |-> IF i < NFrames
                                   THEN buffer[SlotSize * slot + i]
                                   ELSE copy[r][i]]]
  /\ UNCHANGED mux

(* Second memcpy: the slots before the cursor, after the first ones.       *)
CopyNewer(r) ==
  /\ ReaderMoves(r, "newer", "unlock")
  /\ copy' = [copy EXCEPT ![r] =
                [i \in Index |-> IF i < NFrames
                                   THEN copy[r][i]
                                   ELSE buffer[i - NFrames]]]
  /\ UNCHANGED mux

(* The caller plots its copy outside this module.  The next call writes    *)
(* every frame of it before anything reads it, so it is forgotten here.    *)
ReaderUnlock(r) ==
  /\ ReaderMoves(r, "unlock", "idle")
  /\ mux' = "free"
  /\ copy' = [copy EXCEPT ![r] = Silence]

-----------------------------------------------------------------------------

(* A step of the job other than taking the mutex.                          *)
JobStep ==
  \/ ReadFrames
  \/ ReadFails
  \/ ReadAgain
  \/ \E after \in CardState : ReadOverrun(after)
  \/ PollReady
  \/ \E after \in CardState : PollOverrun(after)
  \/ Advance
  \/ SampleUnlock

(* A step of a reader with the mutex held.                                 *)
CopyStep(r) == CopyOlder(r) \/ CopyNewer(r) \/ ReaderUnlock(r)

Next ==
  \/ SampleLock
  \/ JobStep
  \/ Overrun
  \/ \E r \in Reader : GetSamples(r) \/ ReaderLock(r) \/ CopyStep(r)

Spec == Init /\ [][Next]_vars

(* No thread stops in the middle of a job.  Each thread sleeps most of its *)
(* period, so the mutex is free again and again and whoever waits for it   *)
(* gets it: strong fairness.  ALSA does not fail to recover for ever.      *)
Fairness ==
  /\ WF_vars(JobStep)
  /\ SF_vars(SampleLock)
  /\ SF_vars(ReadOverrun("running"))
  /\ \A r \in Reader : SF_vars(ReaderLock(r)) /\ WF_vars(CopyStep(r))

FairSpec == Spec /\ Fairness

-----------------------------------------------------------------------------
(* Properties.                                                             *)

TypeOK ==
  /\ buffer \in [Index -> Nat]
  /\ slot \in 0 .. NSlots - 1
  /\ mux \in {"free", "sampler"} \cup Reader
  /\ spc \in {"idle", "read", "poll", "recovered", "retry", "advance",
              "unlock"}
  /\ pcm \in CardState
  /\ captured \in 0 .. MaxFrames
  /\ complete \in 0 .. NSlots
  /\ rpc \in [Reader -> {"idle", "lock", "older", "newer", "unlock"}]
  /\ copy \in [Reader -> [Index -> Nat]]

(* The mutex is with the job exactly from its lock to its unlock, and with *)
(* a reader exactly during its two copies.                                 *)
Exclusion ==
  /\ mux = "sampler" <=> spc # "idle"
  /\ \A r \in Reader : mux = r <=> rpc[r] \in {"older", "newer", "unlock"}

(* Between its two copies a reader holds a prefix of the unrolled buffer.  *)
HalfCopied ==
  \A r \in Reader :
    rpc[r] = "newer" =>
      \A i \in Index : i < NFrames => copy[r][i] = buffer[SlotSize * slot + i]

(* No job moves the cursor or touches the buffer between the two memcpy of *)
(* sampth_get_samples: the inductive invariant behind SlidingWindow.       *)
NoTornCopy == TypeOK /\ Exclusion /\ HalfCopied

(* The slot that is oldest once the step that ends the read has been taken *)
(* as the one that slides the window: until then the cursor, then the next *)
(* slot although ctx->slot still lags behind.                              *)
Oldest == IF spc = "advance" THEN (slot + 1) % NSlots ELSE slot

(* The buffer unrolled from the oldest slot to the newest.                 *)
Unrolled ==
  [i \in Index |->
     IF i < SlotSize * (NSlots - Oldest)
       THEN buffer[SlotSize * Oldest + i]
       ELSE buffer[i - SlotSize * (NSlots - Oldest)]]

(* A reader's buffer is a snapshot once both copies are done.              *)
Snapshot ==
  [r \in Reader |-> IF rpc[r] = "unlock" THEN copy[r] ELSE << >>]

Promise == INSTANCE Window WITH window <- Unrolled, snapshot <- Snapshot

(* The circular buffer, its cursor, the mutex and the two copies behave as *)
(* a window that slides one slot a job and of which a reader gets an       *)
(* indivisible copy (sampth_get_samples: "thread-safe getter").            *)
SlidingWindow == Promise!Spec

(* Whatever failed or fell short before, after NSlots complete jobs in a   *)
(* row a snapshot would hold exactly the frames captured last, oldest      *)
(* first (the circular buffer of sampthread.c heals itself).               *)
Recovered == Promise!Recovered

(* A thread that calls sampth_get_samples gets its snapshot: neither a     *)
(* failing sound card nor the other threads keep the mutex from it.        *)
ReadersServed ==
  \A r \in Reader : (rpc[r] = "lock") ~> (rpc[r] = "idle")

(* An overrun is recovered from by one of the following jobs, although the *)
(* wait after the recovery may fail and the retry may overrun again        *)
(* (alsagw_read: "automatically recovers xruns and errors").               *)
OverrunRecovered == (pcm = "xrun") ~> (pcm = "running")

(* Comment of alsagw_read: "After the recover we retry to read data once,  *)
(* if it fails again we just skip to next activation".  A job that has     *)
(* recovered from an overrun does not end without the retry.               *)
RetryAfterRecovery ==
  [][spc = "recovered" => spc' \in {"recovered", "retry"}]_vars

=============================================================================
