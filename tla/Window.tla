------------------------------- MODULE Window -------------------------------
(***************************************************************************)
(* What the sampling thread promises to the threads that read it: a        *)
(* sliding window over the captured frames, oldest first, of which a       *)
(* reader obtains a copy in one indivisible step.                          *)
(*                                                                         *)
(* A frame is its number in the order in which the sound card delivered    *)
(* it; 0 stands for the silence that the buffer is allocated with.  A job  *)
(* that obtains fewer frames than a slot holds still slides the window:    *)
(* the oldest slot becomes the newest one, overwritten in part or not at   *)
(* all.  The count of consecutive complete jobs says how much of the       *)
(* window is in capture order.                                             *)
(***************************************************************************)
EXTENDS Integers

CONSTANTS
  NSlots,    (* slots of the window: the scaling factor                    *)
  SlotSize,  (* frames in a slot: the size of one read from the sound card *)
  Reader     (* the threads that ask for snapshots                         *)

VARIABLES
  window,    (* the frames, oldest first                                   *)
  captured,  (* frames delivered so far                                    *)
  complete,  (* consecutive complete jobs, up to NSlots                    *)
  snapshot   (* per reader: the snapshot in use, or << >>                  *)

vars == <<window, captured, complete, snapshot>>

Size == NSlots * SlotSize

Index == 0 .. Size - 1

(* The window once the oldest slot has become the newest, n of its frames  *)
(* replaced by the next n frames captured.                                 *)
Slid(w, n) ==
  [i \in Index |->
     IF i < Size - SlotSize
       THEN w[i + SlotSize]
       ELSE IF i - (Size - SlotSize) < n
              THEN captured + (i - (Size - SlotSize)) + 1
              ELSE w[i - (Size - SlotSize)]]

(* Consecutive complete jobs after one more job that stored n frames.      *)
CompleteAfter(n) ==
  IF n # SlotSize THEN 0
  ELSE IF complete < NSlots THEN complete + 1 ELSE NSlots

Init ==
  /\ window = [i \in Index |-> 0]
  /\ captured = 0
  /\ complete = 0
  /\ snapshot = [r \in Reader |-> << >>]

(* A job of the sampling thread that obtained n frames.                    *)
Slide(n) ==
  /\ window' = Slid(window, n)
  /\ captured' = captured + n
  /\ complete' = CompleteAfter(n)
  /\ UNCHANGED snapshot

(* A reader obtains the whole window at one instant.                       *)
Deliver(r) ==
  /\ snapshot[r] = << >>
  /\ snapshot' = [snapshot EXCEPT ![r] = window]
  /\ UNCHANGED <<window, captured, complete>>

(* The reader has done with its snapshot.                                  *)
Forget(r) ==
  /\ snapshot[r] # << >>
  /\ snapshot' = [snapshot EXCEPT ![r] = << >>]
  /\ UNCHANGED <<window, captured, complete>>

Next ==
  \/ \E n \in 0 .. SlotSize : Slide(n)
  \/ \E r \in Reader : Deliver(r) \/ Forget(r)

Spec == Init /\ [][Next]_vars

-----------------------------------------------------------------------------

TypeOK ==
  /\ window \in [Index -> Nat]
  /\ captured \in Nat
  /\ complete \in 0 .. NSlots
  /\ snapshot \in [Reader -> [Index -> Nat] \cup {<< >>}]

(* The frames of the last `complete` slots are the frames captured last,   *)
(* in capture order and with none missing: after NSlots complete jobs the  *)
(* window has recovered from any earlier failed or short read.             *)
Recovered ==
  \A i \in Index :
    i >= Size - complete * SlotSize => window[i] = captured - (Size - 1 - i)

=============================================================================
