---------------------------- MODULE SamplerProofs ----------------------------
(***************************************************************************)
(* Proofs about the sampling thread and its readers, for every number of   *)
(* slots, every slot size, every set of readers and every bound on frames. *)
(*                                                                         *)
(* The argument: the mutex keeps the job and the copies apart (Exclusion), *)
(* so between the two copies of a reader the buffer and the cursor stand   *)
(* still (HalfCopied); hence the second copy completes an exact unrolling  *)
(* of the buffer, and every step is a step of the window or a stutter.     *)
(***************************************************************************)
EXTENDS Sampler, TLAPS

-----------------------------------------------------------------------------
(* Products of a slot number and the slot size, as a linear solver needs   *)
(* them: the offset of slot k, of the next slot, and of the end.           *)
LEMMA Products ==
  ASSUME NEW N \in Nat \ {0}, NEW S \in Nat \ {0}, NEW k \in 0 .. N
  PROVE  /\ S * k \in Nat
         /\ k * S = S * k
         /\ N * S \in Nat \ {0}
         /\ S <= N * S
         /\ S * (N - k) = N * S - S * k
         /\ (k + 1) * S = S * k + S
         /\ S * k <= N * S
         /\ k < N => S * k + S <= N * S
         /\ k = N => S * k = N * S
<1>1. /\ S * k \in Nat
      /\ k * S = S * k
      /\ N * S \in Nat
      /\ S * (N - k) = N * S - S * k
      /\ (k + 1) * S = S * k + S
  OBVIOUS
<1>2. S * (N - k) >= 0
  OBVIOUS
<1>3. k < N => S * (N - k) >= S
  OBVIOUS
<1>4. (N - 1) * S >= 0 /\ N * S = (N - 1) * S + S
  OBVIOUS
<1>5. k = N => S * k = N * S
  OBVIOUS
<1> QED
  BY <1>1, <1>2, <1>3, <1>4, <1>5

(* Products of the cursor and the slot size, as a linear solver needs them.*)
LEMMA SlotOffsets ==
  ASSUME NEW k \in 0 .. NSlots - 1
  PROVE  /\ SlotSize * k \in Nat
         /\ k * SlotSize = SlotSize * k
         /\ Size \in Nat \ {0}
         /\ SlotSize <= Size
         /\ SlotSize * (NSlots - k) = Size - SlotSize * k
         /\ SlotSize * (k + 1) = SlotSize * k + SlotSize
         /\ SlotSize * k + SlotSize <= Size
         /\ k + 1 = NSlots => SlotSize * k + SlotSize = Size
<1>1. /\ NSlots \in Nat \ {0}
      /\ SlotSize \in Nat \ {0}
      /\ k \in 0 .. NSlots /\ k < NSlots /\ k + 1 \in 0 .. NSlots
  BY SamplerAssumption
<1>2. /\ SlotSize * k \in Nat
      /\ k * SlotSize = SlotSize * k
      /\ NSlots * SlotSize \in Nat \ {0}
      /\ SlotSize <= NSlots * SlotSize
      /\ SlotSize * (NSlots - k) = NSlots * SlotSize - SlotSize * k
      /\ (k + 1) * SlotSize = SlotSize * k + SlotSize
      /\ SlotSize * k + SlotSize <= NSlots * SlotSize
  BY <1>1, Products
<1>3. /\ (k + 1) * SlotSize = SlotSize * (k + 1)
      /\ k + 1 = NSlots => SlotSize * (k + 1) = NSlots * SlotSize
  BY <1>1, Products
<1> QED
  BY <1>1, <1>2, <1>3 DEF Size

-----------------------------------------------------------------------------
(* Type correctness.                                                       *)

LEMMA StoreTyped ==
  ASSUME TypeOK, NEW n \in 0 .. SlotSize, Store(n)
  PROVE  buffer' \in [Index -> Nat]
<1>1. SlotSize * slot \in Nat /\ slot * SlotSize = SlotSize * slot
  BY SlotOffsets DEF TypeOK
<1>2. SlotSize \in Nat \ {0} /\ captured \in Nat
  BY SamplerAssumption DEF TypeOK
<1> DEFINE f == [i \in Index |->
                   IF i \in slot * SlotSize .. slot * SlotSize + n - 1
                     THEN captured + (i - slot * SlotSize) + 1
                     ELSE buffer[i]]
<1>3. ASSUME NEW i \in Index PROVE f[i] \in Nat
  <2>1. i \in Int
    BY SamplerAssumption, SlotOffsets DEF Index, TypeOK
  <2> QED
    BY <1>1, <1>2, <2>1 DEF TypeOK
<1>4. f \in [Index -> Nat]
  BY <1>3
<1> QED
  BY <1>4 DEF Store

LEMMA EndReadTyped ==
  ASSUME TypeOK, NEW n \in 0 .. SlotSize, EndRead(n), pcm' \in CardState
  PROVE  TypeOK'
<1>1. buffer' \in [Index -> Nat]
  BY StoreTyped DEF EndRead
<1>2. captured' \in 0 .. MaxFrames /\ complete' \in 0 .. NSlots
  BY SamplerAssumption DEF EndRead, TypeOK
<1> QED
  BY <1>1, <1>2 DEF EndRead, TypeOK, readerVars

(* Where the copies read and write lies within the buffers.                *)
LEMMA CopiesTyped ==
  ASSUME TypeOK, NEW r \in Reader
  PROVE  /\ \A i \in Index : i < NFrames =>
                /\ SlotSize * slot + i \in Index
                /\ buffer[SlotSize * slot + i] \in Nat
         /\ \A i \in Index : ~(i < NFrames) =>
                /\ i - NFrames \in Index
                /\ buffer[i - NFrames] \in Nat
<1>1. /\ SlotSize * slot \in Nat /\ Size \in Nat
      /\ NFrames = Size - SlotSize * slot
      /\ SlotSize * slot + SlotSize <= Size
      /\ SlotSize \in Nat \ {0}
  BY SlotOffsets, SamplerAssumption DEF NFrames, TypeOK
<1>2. ASSUME NEW i \in Index, i < NFrames
      PROVE  SlotSize * slot + i \in Index
  BY <1>1, <1>2 DEF Index
<1>3. ASSUME NEW i \in Index, ~(i < NFrames)
      PROVE  i - NFrames \in Index
  BY <1>1, <1>3 DEF Index
<1> QED
  BY <1>2, <1>3 DEF TypeOK

(* No step leaves the buffer, the cursor or a copy outside its bounds: the *)
(* two memcpy of sampth_get_samples and the read at the cursor stay within *)
(* the arrays for every number and size of slots.                          *)
THEOREM SamplerTypeCorrect == Spec => []TypeOK
<1>1. Init => TypeOK
  <2> SUFFICES ASSUME Init PROVE TypeOK
    OBVIOUS
  <2>1. 0 \in 0 .. NSlots - 1 /\ 0 \in 0 .. MaxFrames /\ 0 \in 0 .. NSlots
    BY SamplerAssumption
  <2>2. Silence \in [Index -> Nat]
    BY DEF Silence
  <2> QED
    BY <2>1, <2>2 DEF Init, TypeOK, CardState
<1>2. TypeOK /\ [Next]_vars => TypeOK'
  <2> SUFFICES ASSUME TypeOK, [Next]_vars PROVE TypeOK'
    OBVIOUS
  <2> USE DEF cardVars, readerVars
  <2>1. CASE SampleLock
    BY <2>1 DEF SampleLock, TypeOK
  <2>2. CASE JobStep
    <3>0. 0 \in 0 .. SlotSize /\ \A n \in 1 .. SlotSize : n \in 0 .. SlotSize
      BY SamplerAssumption
    <3>1. CASE ReadFrames
      BY <3>0, <3>1, EndReadTyped DEF ReadFrames, TypeOK
    <3>2. CASE ReadFails
      BY <3>0, <3>2, EndReadTyped DEF ReadFails, TypeOK
    <3>3. CASE ReadAgain
      BY <3>3 DEF ReadAgain, TypeOK
    <3>4. ASSUME NEW after \in CardState, ReadOverrun(after) PROVE TypeOK'
      BY <3>4 DEF ReadOverrun, TypeOK
    <3>5. CASE PollReady
      BY <3>5 DEF PollReady, TypeOK
    <3>6. ASSUME NEW after \in CardState, PollOverrun(after) PROVE TypeOK'
      BY <3>0, <3>6, EndReadTyped DEF PollOverrun
    <3>7. CASE Advance
      <4>1. slot \in Nat /\ NSlots \in Nat \ {0}
        BY SamplerAssumption DEF TypeOK
      <4>2. (slot + 1) % NSlots \in 0 .. NSlots - 1
        BY <4>1
      <4> QED
        BY <3>7, <4>2 DEF Advance, TypeOK
    <3>8. CASE SampleUnlock
      BY <3>8 DEF SampleUnlock, TypeOK
    <3> QED
      BY <2>2, <3>1, <3>2, <3>3, <3>4, <3>5, <3>6, <3>7, <3>8 DEF JobStep
  <2>3. CASE Overrun
    BY <2>3 DEF Overrun, TypeOK, CardState
  <2>4. ASSUME NEW r \in Reader, GetSamples(r) PROVE TypeOK'
    BY <2>4 DEF GetSamples, ReaderMoves, TypeOK
  <2>5. ASSUME NEW r \in Reader, ReaderLock(r) PROVE TypeOK'
    BY <2>5 DEF ReaderLock, ReaderMoves, TypeOK
  <2>6. ASSUME NEW r \in Reader, CopyStep(r) PROVE TypeOK'
    <3>1. CASE CopyOlder(r)
      <4> DEFINE f == [i \in Index |-> IF i < NFrames
                                         THEN buffer[SlotSize * slot + i]
                                         ELSE copy[r][i]]
      <4>1. f \in [Index -> Nat]
        BY CopiesTyped DEF TypeOK
      <4> QED
        BY <3>1, <4>1 DEF CopyOlder, ReaderMoves, TypeOK
    <3>2. CASE CopyNewer(r)
      <4> DEFINE f == [i \in Index |-> IF i < NFrames
                                         THEN copy[r][i]
                                         ELSE buffer[i - NFrames]]
      <4>1. f \in [Index -> Nat]
        BY CopiesTyped DEF TypeOK
      <4> QED
        BY <3>2, <4>1 DEF CopyNewer, ReaderMoves, TypeOK
    <3>3. CASE ReaderUnlock(r)
      BY <3>3 DEF ReaderUnlock, ReaderMoves, TypeOK, Silence
    <3> QED
      BY <2>6, <3>1, <3>2, <3>3 DEF CopyStep
  <2>7. CASE UNCHANGED vars
    BY <2>7 DEF vars, TypeOK
  <2> QED
    BY <2>1, <2>2, <2>3, <2>4, <2>5, <2>6, <2>7 DEF Next
<1> QED
  BY <1>1, <1>2, PTL DEF Spec

-----------------------------------------------------------------------------
(* The inductive invariant.                                                *)

(* Steps that move no reader, and leave buffer and cursor alone unless the *)
(* sampling thread holds the mutex, disturb no half-made copy.             *)
LEMMA OthersKeepHalfCopied ==
  ASSUME Exclusion, HalfCopied, UNCHANGED readerVars,
         mux # "sampler" => UNCHANGED <<buffer, slot>>
  PROVE  HalfCopied'
<1> SUFFICES ASSUME NEW r \in Reader, rpc'[r] = "newer",
                    NEW i \in Index, (i < NFrames)'
             PROVE  copy'[r][i] = buffer'[SlotSize * slot' + i]
  BY DEF HalfCopied
<1>1. mux = r /\ mux # "sampler"
  BY SamplerAssumption DEF Exclusion, readerVars
<1> QED
  BY <1>1 DEF HalfCopied, NFrames, readerVars

(* A reader that moves without holding, or while holding, the mutex        *)
(* disturbs no other reader's half-made copy.                              *)
LEMMA OneReaderMoves ==
  ASSUME TypeOK, HalfCopied, NEW r \in Reader, UNCHANGED <<buffer, slot>>,
         rpc' = [rpc EXCEPT ![r] = rpc'[r]],
         copy' = [copy EXCEPT ![r] = copy'[r]],
         rpc'[r] = "newer" =>
           \A i \in Index :
             i < NFrames => copy'[r][i] = buffer[SlotSize * slot + i]
  PROVE  HalfCopied'
<1> SUFFICES ASSUME NEW q \in Reader, rpc'[q] = "newer",
                    NEW i \in Index, (i < NFrames)'
             PROVE  copy'[q][i] = buffer'[SlotSize * slot' + i]
  BY DEF HalfCopied
<1>1. CASE q = r
  BY <1>1 DEF NFrames
<1>2. CASE q # r
  BY <1>2 DEF HalfCopied, NFrames, TypeOK
<1> QED
  BY <1>1, <1>2

(* Every step of the job keeps the mutex until SampleUnlock.               *)
LEMMA JobStepKeepsMutex ==
  ASSUME TypeOK, Exclusion, HalfCopied, JobStep
  PROVE  Exclusion' /\ HalfCopied'
<1> USE DEF cardVars, readerVars
<1>1. /\ UNCHANGED readerVars
      /\ spc # "idle"
      /\ \/ mux' = mux /\ spc' # "idle"
         \/ mux' = "free" /\ spc' = "idle"
  BY DEF JobStep, ReadFrames, ReadFails, ReadAgain, ReadOverrun, PollReady,
         PollOverrun, EndRead, Advance, SampleUnlock, Polling
<1>2. mux = "sampler"
  BY <1>1 DEF Exclusion
<1>3. Exclusion'
  BY <1>1, <1>2, SamplerAssumption DEF Exclusion
<1>4. HalfCopied'
  BY <1>1, <1>2, OthersKeepHalfCopied
<1> QED
  BY <1>3, <1>4

(* Between the two memcpy of sampth_get_samples the sampling thread moves  *)
(* neither the cursor nor a frame, with any number of readers.             *)
THEOREM SamplerNoTornCopy == Spec => []NoTornCopy
<1>1. Init => Exclusion /\ HalfCopied
  BY SamplerAssumption DEF Init, Exclusion, HalfCopied
<1>2. TypeOK /\ Exclusion /\ HalfCopied /\ [Next]_vars
        => Exclusion' /\ HalfCopied'
  <2> SUFFICES ASSUME TypeOK, Exclusion, HalfCopied, [Next]_vars
               PROVE  Exclusion' /\ HalfCopied'
    OBVIOUS
  <2> USE DEF cardVars, readerVars
  <2>1. CASE SampleLock
    <3>1. Exclusion'
      BY <2>1, SamplerAssumption DEF SampleLock, Exclusion
    <3>2. HalfCopied'
      BY <2>1, OthersKeepHalfCopied DEF SampleLock
    <3> QED
      BY <3>1, <3>2
  <2>2. CASE JobStep
    BY <2>2, JobStepKeepsMutex
  <2>3. CASE Overrun
    <3>1. Exclusion'
      BY <2>3 DEF Overrun, Exclusion
    <3>2. HalfCopied'
      BY <2>3, OthersKeepHalfCopied DEF Overrun
    <3> QED
      BY <3>1, <3>2
  <2>4. ASSUME NEW r \in Reader, GetSamples(r)
        PROVE  Exclusion' /\ HalfCopied'
    <3>1. Exclusion'
      BY <2>4 DEF GetSamples, ReaderMoves, Exclusion, TypeOK
    <3>2. HalfCopied'
      BY <2>4, OneReaderMoves DEF GetSamples, ReaderMoves, TypeOK
    <3> QED
      BY <3>1, <3>2
  <2>5. ASSUME NEW r \in Reader, ReaderLock(r)
        PROVE  Exclusion' /\ HalfCopied'
    <3>1. Exclusion'
      BY <2>5, SamplerAssumption DEF ReaderLock, ReaderMoves, Exclusion, TypeOK
    <3>2. HalfCopied'
      BY <2>5, OneReaderMoves DEF ReaderLock, ReaderMoves, TypeOK
    <3> QED
      BY <3>1, <3>2
  <2>6. ASSUME NEW r \in Reader, CopyStep(r)
        PROVE  Exclusion' /\ HalfCopied'
    <3>1. Exclusion'
      BY <2>6, SamplerAssumption
         DEF CopyStep, CopyOlder, CopyNewer, ReaderUnlock, ReaderMoves,
             Exclusion, TypeOK
    <3>2. CASE CopyOlder(r)
      <4>1. \A i \in Index :
              i < NFrames => copy'[r][i] = buffer[SlotSize * slot + i]
        BY <3>2 DEF CopyOlder, TypeOK
      <4>2. copy' = [copy EXCEPT ![r] = copy'[r]]
        BY <3>2 DEF CopyOlder, TypeOK
      <4> QED
        BY <3>1, <3>2, <4>1, <4>2, OneReaderMoves
           DEF CopyOlder, ReaderMoves, TypeOK
    <3>3. CASE CopyNewer(r)
      <4>1. copy' = [copy EXCEPT ![r] = copy'[r]]
        BY <3>3 DEF CopyNewer, TypeOK
      <4> QED
        BY <3>1, <3>3, <4>1, OneReaderMoves DEF CopyNewer, ReaderMoves, TypeOK
    <3>4. CASE ReaderUnlock(r)
      BY <3>1, <3>4, OneReaderMoves DEF ReaderUnlock, ReaderMoves, TypeOK
    <3> QED
      BY <2>6, <3>2, <3>3, <3>4 DEF CopyStep
  <2>7. CASE UNCHANGED vars
    BY <2>7 DEF vars, Exclusion, HalfCopied, NFrames
  <2> QED
    BY <2>1, <2>2, <2>3, <2>4, <2>5, <2>6, <2>7 DEF Next
<1> QED
  BY <1>1, <1>2, SamplerTypeCorrect, PTL DEF Spec, NoTornCopy

-----------------------------------------------------------------------------
(* The refinement.                                                         *)

(* Where the frame i of the unrolled buffer lies when k is the oldest slot.*)
LEMMA UnrolledAt ==
  ASSUME TypeOK, NEW i \in Index
  PROVE  /\ Oldest \in 0 .. NSlots - 1
         /\ Unrolled[i] = IF i < Size - SlotSize * Oldest
                            THEN buffer[SlotSize * Oldest + i]
                            ELSE buffer[i - (Size - SlotSize * Oldest)]
<1>1. Oldest \in 0 .. NSlots - 1
  <2>1. slot \in Nat /\ NSlots \in Nat \ {0} /\ slot \in 0 .. NSlots - 1
    BY SamplerAssumption DEF TypeOK
  <2>2. (slot + 1) % NSlots \in 0 .. NSlots - 1
    BY <2>1
  <2> QED
    BY <2>1, <2>2 DEF Oldest
<1>2. SlotSize * (NSlots - Oldest) = Size - SlotSize * Oldest
  BY <1>1, SlotOffsets
<1> QED
  BY <1>1, <1>2 DEF Unrolled

(* The end of a read slides the window: what was the oldest slot, with n   *)
(* frames of it overwritten, comes last when the buffer is unrolled from   *)
(* the slot after it.                                                      *)
LEMMA EndReadSlides ==
  ASSUME TypeOK, TypeOK', NEW n \in 0 .. SlotSize, EndRead(n),
         spc # "advance"
  PROVE  Unrolled' = Promise!Slid(Unrolled, n)
<1> DEFINE P == SlotSize * slot
           Q == SlotSize * Oldest'
<1>1. /\ NSlots \in Nat \ {0} /\ SlotSize \in Nat \ {0}
      /\ slot \in 0 .. NSlots - 1 /\ captured \in Nat
  BY SamplerAssumption DEF TypeOK
<1>2. Oldest = slot /\ Oldest' = (slot + 1) % NSlots
  BY DEF EndRead, Oldest
<1>3. /\ P \in Nat /\ Size \in Nat /\ slot * SlotSize = P
      /\ P + SlotSize <= Size
      /\ slot + 1 = NSlots => P + SlotSize = Size
  BY <1>1, SlotOffsets
<1>4. \/ Q = P + SlotSize /\ P + SlotSize < Size
      \/ Q = 0 /\ P + SlotSize = Size
  <2>1. CASE slot + 1 < NSlots
    <3>1. Oldest' = slot + 1 /\ slot + 1 \in 0 .. NSlots - 1
      BY <1>1, <1>2, <2>1
    <3>2. SlotSize * (slot + 1) = P + SlotSize
      BY <1>1, SlotOffsets
    <3>3. SlotSize * (slot + 1) + SlotSize <= Size
      BY <3>1, SlotOffsets
    <3> QED
      BY <1>1, <1>3, <3>1, <3>2, <3>3
  <2>2. CASE ~(slot + 1 < NSlots)
    <3>1. slot + 1 = NSlots /\ Oldest' = 0
      BY <1>1, <1>2, <2>2
    <3> QED
      BY <1>1, <1>3, <3>1
  <2> QED
    BY <2>1, <2>2
<1>5. ASSUME NEW i \in Index
      PROVE  Unrolled'[i] = Promise!Slid(Unrolled, n)[i]
  <2>1. Index' = Index /\ i \in 0 .. Size - 1 /\ i \in Int
    BY <1>3 DEF Index, Size
  <2>2. Unrolled'[i] = IF i < Size - Q THEN buffer'[Q + i]
                                       ELSE buffer'[i - (Size - Q)]
    <3>1. Oldest' \in 0 .. NSlots - 1
      BY <1>1, <1>2
    <3>2. SlotSize * (NSlots - Oldest') = Size - Q
      BY <3>1, SlotOffsets
    <3> QED
      BY <2>1, <3>2 DEF Unrolled
  <2>3. \A j \in Index : buffer'[j] =
          IF j \in P .. P + n - 1 THEN captured + (j - P) + 1 ELSE buffer[j]
    BY <1>3 DEF EndRead, Store
  <2>4. \A j \in Index :
          Unrolled[j] = IF j < Size - P THEN buffer[P + j]
                                        ELSE buffer[j - (Size - P)]
    BY <1>2, UnrolledAt
  <2>5. CASE i < Size - SlotSize
    <3>1. Promise!Slid(Unrolled, n)[i] = Unrolled[i + SlotSize]
      BY <2>5, <2>1, <1>3
         DEF Promise!Slid, Promise!Index, Promise!Size,
             Index, Size
    <3>2. i + SlotSize \in Index
      BY <1>1, <1>3, <2>1, <2>5 DEF Index
    <3> DEFINE j == IF i < Size - Q THEN Q + i ELSE i - (Size - Q)
    <3>3. /\ j \in Index
          /\ j \notin P .. P + n - 1
          /\ j = IF i + SlotSize < Size - P THEN P + (i + SlotSize)
                                            ELSE i + SlotSize - (Size - P)
      BY <1>1, <1>3, <1>4, <2>1, <2>5 DEF Index
    <3> HIDE DEF j, P, Q
    <3>4. Unrolled[i + SlotSize] = buffer[j]
      <4>1. CASE i + SlotSize < Size - P
        BY <2>4, <3>2, <3>3, <4>1
      <4>2. CASE ~(i + SlotSize < Size - P)
        BY <1>1, <1>3, <2>1, <2>4, <3>2, <3>3, <4>2
      <4> QED
        BY <4>1, <4>2
    <3>5. Unrolled'[i] = buffer'[j]
      BY <2>2 DEF j
    <3> QED
      BY <2>3, <3>1, <3>3, <3>4, <3>5
  <2>6. CASE ~(i < Size - SlotSize)
    <3> DEFINE d == i - (Size - SlotSize)
    <3>1. Promise!Slid(Unrolled, n)[i] =
            IF d < n THEN captured + d + 1 ELSE Unrolled[d]
      BY <2>6, <2>1, <1>3
         DEF Promise!Slid, Promise!Index, Promise!Size,
             Index, Size
    <3>2. /\ d \in Index /\ d < Size - P /\ d \in Nat /\ n \in Nat
          /\ P + d \in Index
      BY <1>1, <1>3, <2>1, <2>6 DEF Index
    <3>3. Unrolled[d] = buffer[P + d]
      BY <2>4, <3>2
    <3>4. Unrolled'[i] = buffer'[P + d]
      BY <1>1, <1>3, <1>4, <2>1, <2>2, <2>6
    <3>5. (P + d \in P .. P + n - 1) <=> d < n
      <4> HIDE DEF d, P
      <4> QED
        BY <1>3, <3>2
    <3>6. (P + d) - P = d
      <4> HIDE DEF d, P
      <4> QED
        BY <1>3, <3>2
    <3> HIDE DEF d, P, Q
    <3> QED
      BY <2>3, <3>1, <3>2, <3>3, <3>4, <3>5, <3>6
  <2> QED
    BY <2>5, <2>6
<1>6. /\ Unrolled' = [i \in Index |-> Unrolled'[i]]
      /\ Promise!Slid(Unrolled, n)
           = [i \in Index |-> Promise!Slid(Unrolled, n)[i]]
  BY DEF Unrolled, Promise!Slid, Promise!Index,
         Promise!Size, Index, Size
<1> QED
  BY <1>5, <1>6

(* A step of the job slides the window or leaves it alone.                 *)
LEMMA JobStepRefines ==
  ASSUME TypeOK, TypeOK', JobStep
  PROVE  [Promise!Next]_Promise!vars
<1> USE DEF cardVars, readerVars
<1>1. 0 \in 0 .. SlotSize /\ \A n \in 1 .. SlotSize : n \in 0 .. SlotSize
  BY SamplerAssumption
<1>2. ASSUME NEW n \in 0 .. SlotSize, EndRead(n), spc # "advance"
      PROVE  Promise!Slide(n)
  <2>1. Unrolled' = Promise!Slid(Unrolled, n)
    BY <1>2, EndReadSlides
  <2>2. Snapshot' = Snapshot
    BY <1>2 DEF EndRead, Snapshot
  <2> QED
    BY <1>2, <2>1, <2>2
       DEF EndRead, Promise!Slide, Promise!CompleteAfter
<1>3. ASSUME UNCHANGED <<buffer, rpc, copy, captured, complete, Oldest>>
      PROVE  UNCHANGED Promise!vars
  BY <1>3 DEF Promise!vars, Unrolled, Snapshot
<1>4. CASE ReadFrames
  BY <1>1, <1>2, <1>4 DEF ReadFrames, Promise!Next
<1>5. CASE ReadFails
  BY <1>1, <1>2, <1>5 DEF ReadFails, Polling, Promise!Next
<1>6. CASE ReadAgain
  BY <1>3, <1>6 DEF ReadAgain, Oldest
<1>7. ASSUME NEW after \in CardState, ReadOverrun(after)
      PROVE  UNCHANGED Promise!vars
  BY <1>3, <1>7 DEF ReadOverrun, Oldest
<1>8. CASE PollReady
  BY <1>3, <1>8 DEF PollReady, Polling, Oldest
<1>9. ASSUME NEW after \in CardState, PollOverrun(after)
      PROVE  Promise!Next
  BY <1>1, <1>2, <1>9 DEF PollOverrun, Polling, Promise!Next
<1>10. CASE Advance
  BY <1>3, <1>10 DEF Advance, Oldest
<1>11. CASE SampleUnlock
  BY <1>3, <1>11 DEF SampleUnlock, Oldest
<1> QED
  BY <1>4, <1>5, <1>6, <1>7, <1>8, <1>9, <1>10, <1>11 DEF JobStep

(* The second memcpy of a reader makes its copy the window of that moment. *)
LEMMA CopyStepRefines ==
  ASSUME TypeOK, Exclusion, HalfCopied, NEW r \in Reader, CopyStep(r)
  PROVE  [Promise!Next]_Promise!vars
<1> USE DEF cardVars, readerVars
<1>1. Unrolled' = Unrolled
  BY DEF CopyStep, CopyOlder, CopyNewer, ReaderUnlock, ReaderMoves,
         Unrolled, Oldest
<1>2. CASE CopyOlder(r)
  <2>1. Snapshot' = Snapshot
    BY <1>2 DEF CopyOlder, ReaderMoves, Snapshot, TypeOK
  <2> QED
    BY <1>1, <1>2, <2>1 DEF CopyOlder, ReaderMoves, Promise!vars
<1>3. CASE CopyNewer(r)
  <2>1. rpc[r] = "newer" /\ rpc' = [rpc EXCEPT ![r] = "unlock"]
    BY <1>3 DEF CopyNewer, ReaderMoves
  <2>2. spc = "idle" /\ Oldest = slot
    BY <2>1, SamplerAssumption DEF Exclusion, Oldest
  <2>3. copy'[r] = Unrolled
    <3>1. copy'[r] = [i \in Index |-> IF i < NFrames THEN copy[r][i]
                                                     ELSE buffer[i - NFrames]]
      BY <1>3 DEF CopyNewer, TypeOK
    <3>2. \A i \in Index : i < NFrames =>
                             copy[r][i] = buffer[SlotSize * slot + i]
      BY <2>1 DEF HalfCopied
    <3>3. Unrolled = [i \in Index |-> IF i < NFrames
                                        THEN buffer[SlotSize * slot + i]
                                        ELSE buffer[i - NFrames]]
      BY <2>2 DEF Unrolled, NFrames
    <3> QED
      BY <3>1, <3>2, <3>3
  <2>4. copy' = [copy EXCEPT ![r] = Unrolled]
    BY <1>3, <2>3 DEF CopyNewer, TypeOK
  <2>5. Snapshot' = [Snapshot EXCEPT ![r] = Unrolled]
    BY <2>1, <2>3, <2>4 DEF Snapshot, TypeOK
  <2>6. Snapshot[r] = << >>
    BY <2>1 DEF Snapshot
  <2>7. Promise!Deliver(r)
    BY <1>1, <1>3, <2>5, <2>6
       DEF Promise!Deliver, CopyNewer, ReaderMoves
  <2> QED
    BY <2>7 DEF Promise!Next
<1>4. CASE ReaderUnlock(r)
  <2>1. rpc[r] = "unlock" /\ rpc' = [rpc EXCEPT ![r] = "idle"]
        /\ copy' = [copy EXCEPT ![r] = Silence]
    BY <1>4 DEF ReaderUnlock, ReaderMoves
  <2>2. Snapshot' = [Snapshot EXCEPT ![r] = << >>]
    BY <2>1 DEF Snapshot, TypeOK
  <2>3. Snapshot[r] # << >>
    <3>1. 0 \in Index /\ DOMAIN copy[r] = Index /\ Snapshot[r] = copy[r]
      <4>1. 0 \in 0 .. NSlots - 1
        BY SamplerAssumption
      <4>2. Size \in Nat \ {0}
        BY <4>1, SlotOffsets
      <4> QED
        BY <2>1, <4>2 DEF Index, Snapshot, TypeOK
    <3> QED
      BY <3>1
  <2>4. Promise!Forget(r)
    BY <1>1, <1>4, <2>2, <2>3
       DEF Promise!Forget, ReaderUnlock, ReaderMoves
  <2> QED
    BY <2>4 DEF Promise!Next
<1> QED
  BY <1>2, <1>3, <1>4 DEF CopyStep

(* The slotted circular buffer, its cursor, the mutex and the two copies   *)
(* implement the sliding window.                                           *)
THEOREM SamplerImplementsWindow == Spec => SlidingWindow
<1> USE DEF cardVars, readerVars
<1>1. Init => Promise!Init
  <2> SUFFICES ASSUME Init PROVE Promise!Init
    OBVIOUS
  <2>1. Unrolled = Silence
    <3>1. 0 \in 0 .. NSlots - 1
      BY SamplerAssumption
    <3>2. TypeOK
      BY <3>1, SamplerAssumption DEF Init, TypeOK, CardState, Silence
    <3>3. Oldest = 0 /\ SlotSize * 0 = 0 /\ Size \in Nat
      BY <3>1, SamplerAssumption, SlotOffsets DEF Init, Oldest
    <3>4. ASSUME NEW i \in Index PROVE Unrolled[i] = 0
      <4>1. Unrolled[i] = buffer[0 + i] /\ 0 + i = i
        BY <3>2, <3>3, UnrolledAt DEF Index
      <4> QED
        BY <4>1 DEF Init, Silence
    <3> QED
      BY <3>4 DEF Unrolled, Silence
  <2> QED
    BY <2>1 DEF Init, Promise!Init, Promise!Index,
                Promise!Size, Silence, Index, Size, Snapshot
<1>2. NoTornCopy /\ NoTornCopy' /\ [Next]_vars
        => [Promise!Next]_Promise!vars
  <2> SUFFICES ASSUME TypeOK, TypeOK', Exclusion, HalfCopied, [Next]_vars
               PROVE  [Promise!Next]_Promise!vars
    BY DEF NoTornCopy
  <2>1. ASSUME UNCHANGED <<buffer, copy, captured, complete, Oldest>>,
               Snapshot' = Snapshot
        PROVE  UNCHANGED Promise!vars
    BY <2>1 DEF Promise!vars, Unrolled
  <2>2. CASE SampleLock
    BY <2>1, <2>2 DEF SampleLock, Oldest, Snapshot
  <2>3. CASE JobStep
    BY <2>3, JobStepRefines
  <2>4. CASE Overrun
    BY <2>1, <2>4 DEF Overrun, Oldest, Snapshot
  <2>5. ASSUME NEW r \in Reader, GetSamples(r) \/ ReaderLock(r)
        PROVE  UNCHANGED Promise!vars
    <3>1. Snapshot' = Snapshot
      BY <2>5 DEF GetSamples, ReaderLock, ReaderMoves, Snapshot, TypeOK
    <3> QED
      BY <2>1, <2>5, <3>1 DEF GetSamples, ReaderLock, ReaderMoves, Oldest
  <2>6. ASSUME NEW r \in Reader, CopyStep(r)
        PROVE  [Promise!Next]_Promise!vars
    BY <2>6, CopyStepRefines
  <2>7. CASE UNCHANGED vars
    BY <2>1, <2>7 DEF vars, Oldest, Snapshot
  <2> QED
    BY <2>2, <2>3, <2>4, <2>5, <2>6, <2>7 DEF Next
<1> QED
  BY <1>1, <1>2, SamplerNoTornCopy, PTL
     DEF Spec, SlidingWindow, Promise!Spec

-----------------------------------------------------------------------------
(* The abstract window, over what the sampler lets its readers see.        *)

(* What the assumption on the constants gives every proof below.           *)
LEMMA Dimensions ==
  /\ NSlots \in Nat \ {0} /\ SlotSize \in Nat \ {0}
  /\ Promise!Size \in Nat \ {0}
  /\ SlotSize <= Promise!Size
  /\ NSlots * SlotSize = Promise!Size
<1>1. NSlots \in 0 .. NSlots /\ NSlots \in Nat \ {0} /\ SlotSize \in Nat \ {0}
  BY SamplerAssumption
<1> QED
  BY <1>1, Products DEF Promise!Size

(* The window always holds NSlots * SlotSize frames, and so does every     *)
(* snapshot of it (sampth_get_size promises that length to the readers).   *)
THEOREM WindowTypeCorrect == Promise!Spec => []Promise!TypeOK
<1>0. /\ NSlots \in Nat \ {0} /\ SlotSize \in Nat \ {0}
      /\ Promise!Size \in Nat \ {0} /\ SlotSize <= Promise!Size
  BY Dimensions
<1> USE <1>0 DEF Promise!TypeOK
<1>1. Promise!Init => Promise!TypeOK
  BY DEF Promise!Init
<1>2. Promise!TypeOK /\ [Promise!Next]_Promise!vars => Promise!TypeOK'
  <2> SUFFICES ASSUME Promise!TypeOK, [Promise!Next]_Promise!vars
               PROVE  Promise!TypeOK'
    OBVIOUS
  <2>1. ASSUME NEW n \in 0 .. SlotSize, Promise!Slide(n)
        PROVE  Promise!TypeOK'
    <3>1. Promise!Slid(Unrolled, n) \in [Promise!Index -> Nat]
      <4>1. ASSUME NEW i \in Promise!Index
            PROVE  Promise!Slid(Unrolled, n)[i] \in Nat
        BY DEF Promise!Slid, Promise!Index
      <4> QED
        BY <4>1 DEF Promise!Slid
    <3>2. Promise!CompleteAfter(n) \in 0 .. NSlots
      BY DEF Promise!CompleteAfter
    <3> QED
      BY <2>1, <3>1, <3>2 DEF Promise!Slide
  <2>2. ASSUME NEW r \in Reader, Promise!Deliver(r)
        PROVE  Promise!TypeOK'
    BY <2>2 DEF Promise!Deliver
  <2>3. ASSUME NEW r \in Reader, Promise!Forget(r)
        PROVE  Promise!TypeOK'
    BY <2>3 DEF Promise!Forget
  <2>4. CASE UNCHANGED Promise!vars
    BY <2>4 DEF Promise!vars
  <2> QED
    BY <2>1, <2>2, <2>3, <2>4 DEF Promise!Next
<1> QED
  BY <1>1, <1>2, PTL DEF Promise!Spec

(* A complete job adds one slot to the part of the Unrolled that is in       *)
(* capture order; any other job starts that part afresh.                   *)
LEMMA SlideRecovers ==
  ASSUME Promise!TypeOK, Promise!Recovered,
         NEW n \in 0 .. SlotSize, Promise!Slide(n)
  PROVE  Promise!Recovered'
<1>1. complete \in 0 .. NSlots /\ NSlots \in Nat \ {0} /\ SlotSize \in Nat \ {0}
  BY Dimensions DEF Promise!TypeOK
<1>2. SUFFICES ASSUME NEW i \in Promise!Index,
                      i >= Promise!Size - complete' * SlotSize
               PROVE  Unrolled'[i] = captured' - (Promise!Size - 1 - i)
  BY DEF Promise!Recovered
<1>3. CASE n = SlotSize
  <2>1. complete' * SlotSize <= complete * SlotSize + SlotSize
    <3>1. (complete + 1) * SlotSize = SlotSize * complete + SlotSize
          /\ complete * SlotSize = SlotSize * complete
      BY <1>1, Products
    <3>2. CASE complete < NSlots
      BY <1>1, <1>3, <3>1, <3>2 DEF Promise!Slide, Promise!CompleteAfter
    <3>3. CASE ~(complete < NSlots)
      <4>1. complete = NSlots /\ complete' = complete
        BY <1>1, <1>3, <3>3 DEF Promise!Slide, Promise!CompleteAfter
      <4>2. SlotSize * complete \in Nat
        BY <1>1, Products
      <4> QED
        BY <1>1, <3>1, <4>1, <4>2
    <3> QED
      BY <3>2, <3>3
  <2>2. complete * SlotSize \in Nat /\ complete' * SlotSize \in Nat
    <3>1. complete' \in 0 .. NSlots
      BY <1>1 DEF Promise!Slide, Promise!CompleteAfter
    <3>2. \A k \in 0 .. NSlots : k * SlotSize \in Nat
      BY <1>1, Products
    <3> QED
      BY <1>1, <3>1, <3>2
  <2>3. CASE i < Promise!Size - SlotSize
    <3> DEFINE j == i + SlotSize
    <3>1. j \in Promise!Index /\ j >= Promise!Size - complete * SlotSize
      BY <1>1, <1>2, <2>1, <2>2, <2>3, Dimensions DEF Promise!Index
    <3>2. Unrolled[j] = captured - (Promise!Size - 1 - j)
      BY <3>1 DEF Promise!Recovered
    <3>3. Unrolled'[i] = Unrolled[j]
      BY <2>3 DEF Promise!Slide, Promise!Slid
    <3> QED
      BY <1>1, <1>3, <3>2, <3>3, Dimensions
         DEF Promise!Slide, Promise!TypeOK, Promise!Index
  <2>4. CASE ~(i < Promise!Size - SlotSize)
    BY <1>1, <1>3, <2>4, Dimensions
       DEF Promise!Slide, Promise!Slid, Promise!TypeOK, Promise!Index
  <2> QED
    BY <2>3, <2>4
<1>4. CASE n # SlotSize
  <2>1. complete' * SlotSize = 0
    BY <1>1, <1>4 DEF Promise!Slide, Promise!CompleteAfter
  <2> QED
    BY <1>2, <2>1, Dimensions DEF Promise!Index
<1> QED
  BY <1>3, <1>4

(* After NSlots complete jobs in a row the Unrolled is exactly the frames    *)
(* captured last: the invariant that a test with a failing sound card      *)
(* would have to reach, for every number and size of slots.                *)
THEOREM WindowRecovers == Promise!Spec => []Promise!Recovered
<1>1. Promise!Init => Promise!Recovered
  BY Dimensions DEF Promise!Init, Promise!Recovered, Promise!Index
<1>2. Promise!TypeOK /\ Promise!Recovered /\ [Promise!Next]_Promise!vars
        => Promise!Recovered'
  <2> SUFFICES ASSUME Promise!TypeOK, Promise!Recovered,
                      [Promise!Next]_Promise!vars
               PROVE  Promise!Recovered'
    OBVIOUS
  <2>1. ASSUME NEW n \in 0 .. SlotSize, Promise!Slide(n)
        PROVE  Promise!Recovered'
    BY <2>1, SlideRecovers
  <2>2. ASSUME NEW r \in Reader, Promise!Deliver(r) \/ Promise!Forget(r)
        PROVE  Promise!Recovered'
    BY <2>2 DEF Promise!Deliver, Promise!Forget, Promise!Recovered
  <2>3. CASE UNCHANGED Promise!vars
    BY <2>3 DEF Promise!vars, Promise!Recovered
  <2> QED
    BY <2>1, <2>2, <2>3 DEF Promise!Next
<1> QED
  BY <1>1, <1>2, WindowTypeCorrect, PTL DEF Promise!Spec

(* A snapshot after NSlots complete jobs in a row is exactly what was      *)
(* captured last: the window recovers (WindowRecovers), and the sampler    *)
(* implements the window.                                                  *)
THEOREM SamplerRecovers == Spec => []Recovered
BY SamplerImplementsWindow, WindowRecovers, PTL DEF SlidingWindow, Recovered

=============================================================================
