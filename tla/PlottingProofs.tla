--------------------------- MODULE PlottingProofs ---------------------------
(***************************************************************************)
(* Proofs about Plotting, for plots of any length and any range of values: *)
(* where graphics are drawn, which positions the spectrum fills, and which *)
(* batches a frame can show.                                               *)
(***************************************************************************)
EXTENDS Plotting, TLAPS

-----------------------------------------------------------------------------
(* The lanes.                                                              *)

LEMMA Steps ==
  ASSUME NEW n \in Nat, NEW u \in Nat
  PROVE  /\ YOffset(u, n) \in Int
         /\ YOffset(u, n) = (n - 1) * Top - u * (2 * Top + 1)
         /\ YOffset(u + 1, n) = YOffset(u, n) - (2 * Top + 1)
  BY PlottingAssumption, SMT DEF YOffset, MinY, MaxY

(* The lines of a plot of n graphics stay within its window, for any range *)
(* of values: y_offset against pl_space_r.                                 *)
THEOREM PlottingLanesInside ==
  ASSUME NEW n \in Nat, NEW u \in 0 .. n - 1
  PROVE  Rows(u, n) \subseteq Space(n)
<1>1. n = 1 + (n - 1 - u) + u /\ u \in Nat /\ n - 1 - u \in Nat
  BY SMT
<1> DEFINE k == n - 1 - u
<1>2. (n - 1) * Top = k * Top + u * Top
  BY <1>1, PlottingAssumption, SMT
<1>3. YOffset(u, n) = k * Top - u * (Top + 1)
  BY <1>1, <1>2, Steps, PlottingAssumption, SMT
<1>4. MinY * n = k * Top + u * Top + Top
  BY <1>1, <1>2, PlottingAssumption, SMT DEF MinY
<1>5. MaxY * n = -(k * (Top + 1)) - u * (Top + 1) - (Top + 1)
  BY <1>1, PlottingAssumption, SMT DEF MaxY
<1>6. /\ k * Top \in Nat /\ u * Top \in Nat
      /\ k * (Top + 1) \in Nat /\ u * (Top + 1) \in Nat
  BY <1>1, PlottingAssumption, SMT
<1>7. SUFFICES ASSUME NEW v \in MaxY .. MinY
               PROVE  YOffset(u, n) + v \in Space(n)
  BY DEF Rows
<1>8. v \in Int /\ -(Top + 1) <= v /\ v <= Top
  BY <1>7, PlottingAssumption, SMT DEF MaxY, MinY
<1> HIDE DEF k
<1> QED
  BY <1>3, <1>4, <1>5, <1>6, <1>8, PlottingAssumption, SMT DEF Space

(* Two lanes have at most the border between neighbours in common.         *)
THEOREM PlottingLanesApart ==
  ASSUME NEW n \in Nat, NEW u \in Nat, NEW w \in Nat, u < w,
         NEW r \in Rows(u, n), NEW s \in Rows(w, n)
  PROVE  r >= s /\ (r = s => w = u + 1)
<1>1. PICK a \in MaxY .. MinY : r = YOffset(u, n) + a
  BY DEF Rows
<1>2. PICK b \in MaxY .. MinY : s = YOffset(w, n) + b
  BY DEF Rows
<1>3. /\ a \in Int /\ -(Top + 1) <= a /\ b \in Int /\ b <= Top
  BY PlottingAssumption, SMT DEF MaxY, MinY
<1>4. PICK d \in Nat : w = u + 1 + d
  <2>1. w - u - 1 \in Nat /\ w = u + 1 + (w - u - 1)
    BY SMT
  <2> QED
    BY <2>1
<1>5. YOffset(w, n) = YOffset(u, n) - (2 * Top + 1) - d * (2 * Top + 1)
  BY <1>4, Steps, PlottingAssumption, SMT
<1>6. d * (2 * Top + 1) >= d /\ d * (2 * Top + 1) \in Nat
  BY <1>4, PlottingAssumption, SMT
<1>7. YOffset(u, n) \in Int
  BY Steps
<1> QED
  BY <1>1, <1>2, <1>3, <1>4, <1>5, <1>6, <1>7, PlottingAssumption, SMT

-----------------------------------------------------------------------------
(* The spectrum.                                                           *)

(* build_spectrum writes every position of its graphics exactly once, from *)
(* an entry that ft->out has, and mirrors the transform around the middle. *)
THEOREM PlottingSpectrumFilled ==
  /\ DOMAIN Negative \cup DOMAIN Positive = Position
  /\ DOMAIN Negative \cap DOMAIN Positive = {}
  /\ \A i \in DOMAIN Negative : Negative[i] \in 0 .. NFreqs
  /\ \A i \in DOMAIN Positive :
       Positive[i] \in 0 .. NFreqs /\ Negative[Points - i] = Positive[i]
<1>1. NFreqs \in Nat \ {0} /\ Points = 2 * NFreqs
  BY PlottingAssumption, SMT DEF NFreqs
<1> QED
  BY <1>1, SMT DEF Negative, Positive, Position

-----------------------------------------------------------------------------
(* The batches.                                                            *)

(* The show thread has written its current batch to graphic t of channel c *)
(* at position p.                                                          *)
Written(c, t, p) ==
  \/ spc = "idle"
  \/ c < channel
  \/ c = channel /\ (p < pos \/ (p = pos /\ t < turn))

(* Graphics hold the current batch up to there, the previous one after.    *)
Filled ==
  \A c \in 1 .. Len(channels), t \in {1, 2}, p \in Position :
    values[channels[c][t]][p] = IF Written(c, t, p) THEN job ELSE job - 1

(* The plotting thread owns the graphic that it draws.                     *)
Holding == rpc = "draw" => lock[lane] = "plotter"

(* The line in progress follows the values, which do not change meanwhile. *)
Traced ==
  rpc = "draw" => \A p \in Position :
    p < point => canvas[lane][p] = values[lane][p]

(* It is at most one batch behind the lines above it.                      *)
TracedInOrder ==
  rpc = "draw" => \A l \in Drawn, p, q \in Position :
    q < point => canvas[l][p] <= canvas[lane][q] + 1

(* Nothing on the canvas is from a later batch.                            *)
NotAhead == \A l \in Lane, p \in Position : canvas[l][p] <= job

PlottingInv ==
  /\ TypeOK
  /\ Filled
  /\ Holding
  /\ Traced
  /\ TracedInOrder
  /\ NotAhead
  /\ TwoBatches
  /\ FrameInOrder

(* Every graphic belongs to one turn of one channel.                       *)
LEMMA DisplayShape ==
  ASSUME channels \in Displays
  PROVE  /\ Len(channels) \in {1, 2} /\ Used \in Nat
         /\ \A c \in 1 .. Len(channels), t \in {1, 2} : channels[c][t] \in Lane
         /\ \A l \in Lane : \E c \in 1 .. Len(channels), t \in {1, 2} :
              l = channels[c][t]
         /\ \A c, d \in 1 .. Len(channels), t, u \in {1, 2} :
              channels[c][t] = channels[d][u] => c = d /\ t = u
<1>1. CASE channels = << <<0, 1>> >>
  BY <1>1, SMT DEF Lane, Used
<1>2. CASE channels = << <<1, 0>> >>
  BY <1>2, SMT DEF Lane, Used
<1>3. CASE channels = << <<0, 1>>, <<2, 3>> >>
  <2>1. /\ Len(channels) = 2 /\ Lane = 0 .. 3 /\ Used = 4
        /\ channels[1][1] = 0 /\ channels[1][2] = 1
        /\ channels[2][1] = 2 /\ channels[2][2] = 3
    BY <1>3, SMT DEF Lane, Used
  <2> QED
    BY <2>1, SMT
<1> QED
  BY <1>1, <1>2, <1>3 DEF Displays

(* What the lock, held through a line, is for: whatever is read while the  *)
(* show thread is kept out is one prefix of a batch on the one before.     *)
LEMMA TwoBatchesInValues ==
  ASSUME TypeOK, Filled, NEW l \in Lane
  PROVE  /\ \A p \in Position : values[l][p] \in Int /\ values[l][p] <= job
                               /\ job <= values[l][p] + 1
         /\ \A p, q \in Position : p < q => values[l][p] >= values[l][q]
         /\ values[l][0] <= values[l][Points - 1] + 1
<1>1. PICK c \in 1 .. Len(channels), t \in {1, 2} : l = channels[c][t]
  BY DisplayShape DEF TypeOK
<1>2. \A p \in Position :
        values[l][p] = IF Written(c, t, p) THEN job ELSE job - 1
  BY <1>1 DEF Filled
<1>3. job \in Int /\ channel \in Int /\ pos \in Int /\ turn \in Int /\ c \in Int /\ t \in Int
  BY PlottingAssumption, DisplayShape, SMT DEF TypeOK, Position
<1>4. \A p, q \in Position : p < q /\ Written(c, t, q) => Written(c, t, p)
  BY <1>3, PlottingAssumption, SMT DEF Written, Position
<1>5. 0 \in Position /\ Points - 1 \in Position
  BY PlottingAssumption, SMT DEF Position
<1>6. \A p \in Position : values[l][p] = job \/ values[l][p] = job - 1
  BY <1>2
<1> HIDE DEF Written
<1> QED
  BY <1>2, <1>3, <1>4, <1>5, <1>6, SMT

-----------------------------------------------------------------------------

LEMMA PlottingInit == Init => PlottingInv
<1> SUFFICES ASSUME Init PROVE PlottingInv
  OBVIOUS
<1>1. /\ \A c \in 1 .. Len(channels), t \in {1, 2} : channels[c][t] \in Lane
      /\ Len(channels) \in {1, 2} /\ Used \in Nat
  BY DisplayShape DEF Init
<1>2. TypeOK
  <2>1. Blank \in [Lane -> [Position -> 0 .. MaxJobs]]
    BY PlottingAssumption, SMT DEF Blank
  <2>2. lock \in [Lane -> {"free", "plotter"}]
    BY DEF Init
  <2>3. channel \in 1 .. Len(channels) /\ lane \in 0 .. Used
    BY <1>1, SMT DEF Init
  <2>4. pos \in Position /\ point \in 0 .. Points /\ job \in 0 .. MaxJobs
    BY PlottingAssumption, SMT DEF Init, Position
  <2> QED
    BY <2>1, <2>2, <2>3, <2>4 DEF Init, TypeOK
<1>3. Filled
  BY <1>1, SMT DEF Init, Filled, Written, Blank
<1>4. NotAhead
  BY SMT DEF Init, NotAhead, Blank
<1>5. Drawn = {}
  BY DEF Init, Drawn
<1> QED
  BY <1>2, <1>3, <1>4, <1>5
  DEF Init, PlottingInv, Holding, Traced, TracedInOrder, TwoBatches, FrameInOrder

LEMMA PlottingStep == PlottingInv /\ [Next]_vars => PlottingInv'
<1> SUFFICES ASSUME PlottingInv, [Next]_vars
             PROVE  PlottingInv'
  OBVIOUS
<1> USE PlottingAssumption
<1>0. /\ channels' = channels
      /\ Lane' = Lane /\ Used' = Used /\ Used \in Nat
      /\ Len(channels) \in {1, 2}
  <2>1. channels' = channels
    BY DEF Next, RedrawStep, vars, BeginJob, Set, Redraw, LockGraphic, DrawPoint,
       UnlockGraphic, Erase
  <2> QED
    BY <2>1, DisplayShape DEF PlottingInv, TypeOK, Lane, Used
<1>1. CASE BeginJob
  <2>1. TypeOK'
    BY <1>0, <1>1, SMT DEF PlottingInv, TypeOK, BeginJob, Position, redrawVars
  <2>2. Filled'
    <3>1. \A c \in 1 .. Len(channels), t \in {1, 2}, p \in Position :
            values[channels[c][t]][p] = job
      BY <1>1 DEF PlottingInv, Filled, Written, BeginJob
    <3>2. \A c \in 1 .. Len(channels), t \in {1, 2}, p \in Position :
            ~ Written(c, t, p)'
      BY <1>0, <1>1, SMT DEF Written, BeginJob, Position
    <3>3. job = job' - 1
      BY <1>1, SMT DEF PlottingInv, TypeOK, BeginJob
    <3> QED
      BY <1>0, <1>1, <3>1, <3>2, <3>3 DEF Filled, BeginJob
  <2>3. Drawn' = Drawn
    BY <1>0, <1>1 DEF BeginJob, redrawVars, Drawn
  <2>4. NotAhead'
    BY <1>0, <1>1, SMT DEF PlottingInv, TypeOK, NotAhead, BeginJob, redrawVars
  <2> QED
    BY <1>0, <1>1, <2>1, <2>2, <2>3, <2>4
    DEF PlottingInv, BeginJob, redrawVars, Holding, Traced, TracedInOrder,
        TwoBatches, FrameInOrder
<1>2. CASE Set
  <2> DEFINE g == channels[channel][turn]
  <2>1. /\ spc = "write" /\ lock[g] = "free"
        /\ values' = [values EXCEPT ![g][pos] = job]
        /\ NextWrite
        /\ UNCHANGED <<channels, lock, job, rpc, lane, point, canvas>>
    BY <1>2 DEF Set, redrawVars
  <2>2. g \in Lane
    BY DisplayShape DEF PlottingInv, TypeOK
  <2>3. TypeOK'
    <3>1. values' \in [Lane -> [Position -> 0 .. MaxJobs]]
      <4>1. pos \in Position /\ job \in 0 .. MaxJobs
        BY DEF PlottingInv, TypeOK
      <4> HIDE DEF g
      <4> QED
        BY <2>1, <2>2, <4>1 DEF PlottingInv, TypeOK
    <3>2. /\ channel' \in 1 .. Len(channels) /\ pos' \in Position
          /\ turn' \in {1, 2} /\ spc' \in {"idle", "write"}
      BY <1>0, <2>1, SMT DEF PlottingInv, TypeOK, NextWrite, Position
    <3> QED
      BY <1>0, <2>1, <3>1, <3>2 DEF PlottingInv, TypeOK
  <2>4. Filled'
    <3> SUFFICES ASSUME NEW c \in 1 .. Len(channels), NEW t \in {1, 2},
                        NEW p \in Position
                 PROVE  values'[channels[c][t]][p]
                          = IF Written(c, t, p)' THEN job ELSE job - 1
      BY <1>0, <2>1 DEF Filled
    <3>1. /\ channel \in 1 .. Len(channels) /\ pos \in Position
          /\ turn \in {1, 2} /\ Len(channels) \in Nat
      BY <1>0, SMT DEF PlottingInv, TypeOK
    <3>2. Written(c, t, p)'
            <=> Written(c, t, p) \/ (c = channel /\ t = turn /\ p = pos)
      BY <2>1, <3>1, SMT DEF Written, NextWrite, Position
    <3>3. channels[c][t] = g <=> (c = channel /\ t = turn)
      BY <3>1, DisplayShape DEF PlottingInv, TypeOK
    <3>4. channels[c][t] \in Lane
      BY DisplayShape DEF PlottingInv, TypeOK
    <3>5. values'[channels[c][t]][p]
            = IF c = channel /\ t = turn /\ p = pos THEN job
              ELSE values[channels[c][t]][p]
      <4> HIDE DEF g
      <4> QED
        BY <2>1, <2>2, <3>1, <3>3, <3>4, SMT DEF PlottingInv, TypeOK
    <3>6. values[channels[c][t]][p] = IF Written(c, t, p) THEN job ELSE job - 1
      BY DEF PlottingInv, Filled
    <3> QED
      BY <3>2, <3>5, <3>6
  <2>5. Drawn' = Drawn
    BY <1>0, <2>1 DEF Drawn
  <2>6. rpc = "draw" => values'[lane] = values[lane]
    <3> SUFFICES ASSUME rpc = "draw" PROVE values'[lane] = values[lane]
      OBVIOUS
    <3>1. lane \in Lane /\ lane # g
      BY <2>1 DEF PlottingInv, TypeOK, Holding
    <3> HIDE DEF g
    <3> QED
      BY <2>1, <2>2, <3>1 DEF PlottingInv, TypeOK
  <2> QED
    BY <1>0, <2>1, <2>3, <2>4, <2>5, <2>6
    DEF PlottingInv, Holding, Traced, TracedInOrder, NotAhead, TwoBatches, FrameInOrder
<1>3. CASE Redraw
  <2>1. TypeOK' /\ Filled' /\ NotAhead'
    <3>1. lane' \in 0 .. Used /\ lane' \in Lane
      BY <1>0, <1>3, DisplayShape, SMT DEF PlottingInv, TypeOK, Redraw, Displays, Used, Lane
    <3> QED
      BY <1>0, <1>3, <3>1
      DEF PlottingInv, TypeOK, Filled, Written, NotAhead, Redraw, showVars
  <2>2. Drawn' = {}
    BY <1>0, <1>3, SMT DEF Redraw, Drawn, Lane
  <2>3. Holding'
    BY <1>3 DEF Redraw, Holding
  <2> QED
    BY <1>3, <2>1, <2>2, <2>3
    DEF PlottingInv, Redraw, Traced, TracedInOrder, TwoBatches, FrameInOrder
<1>4. CASE LockGraphic
  <2>1. TypeOK' /\ Filled' /\ NotAhead' /\ Holding'
    BY <1>0, <1>4, SMT DEF PlottingInv, TypeOK, Filled, Written, NotAhead,
       Holding, LockGraphic, showVars
  <2>2. Drawn' = Drawn
    BY <1>0, <1>4 DEF LockGraphic, Drawn
  <2>3. \A p \in Position : ~ (p < point')
    BY <1>4, SMT DEF LockGraphic, Position
  <2> QED
    BY <1>0, <1>4, <2>1, <2>2, <2>3
    DEF PlottingInv, LockGraphic, Traced, TracedInOrder, TwoBatches, FrameInOrder
<1>5. CASE DrawPoint
  <2>1. /\ rpc = "draw" /\ rpc' = rpc /\ lane' = lane /\ point' = point + 1
        /\ point \in Position /\ lane \in Lane /\ values' = values
        /\ lock' = lock /\ job' = job
        /\ canvas' = [canvas EXCEPT ![lane][point] = values[lane][point]]
    BY <1>5, SMT
    DEF PlottingInv, TypeOK, Holding, DrawPoint, showVars, Position
  <2>2. TypeOK'
    <3>1. point' \in 0 .. Points
      BY <2>1, SMT DEF Position
    <3>2. canvas' \in [Lane -> [Position -> 0 .. MaxJobs]]
      <4>1. values[lane][point] \in 0 .. MaxJobs
        BY <2>1 DEF PlottingInv, TypeOK
      <4> QED
        BY <2>1, <4>1 DEF PlottingInv, TypeOK
    <3> QED
      BY <1>0, <1>5, <2>1, <3>1, <3>2 DEF PlottingInv, TypeOK, DrawPoint, showVars
  <2>3. Filled' /\ Holding'
    BY <1>0, <1>5, <2>1 DEF PlottingInv, Filled, Written, Holding, DrawPoint, showVars
  <2>4. Drawn' = Drawn /\ \A l \in Drawn : l \in Lane /\ l # lane /\ canvas'[l] = canvas[l]
    BY <1>0, <2>1, SMT DEF PlottingInv, TypeOK, Drawn, Lane
  <2>5. \A p \in Position :
          canvas'[lane][p] = IF p = point THEN values[lane][p] ELSE canvas[lane][p]
    BY <2>1 DEF PlottingInv, TypeOK
  <2>6. \A p \in Position : p < point' <=> p < point \/ p = point
    BY <2>1, SMT DEF Position
  <2>7. Traced'
    BY <2>1, <2>5, <2>6 DEF PlottingInv, Traced
  <2>8. \A p \in Position : /\ values[lane][p] \in Int
                            /\ values[lane][p] <= job
                            /\ job <= values[lane][p] + 1
    BY <2>1, TwoBatchesInValues DEF PlottingInv
  <2>9. NotAhead'
    BY <1>0, <2>1, <2>5, <2>8 DEF PlottingInv, TypeOK, NotAhead
  <2>10. TracedInOrder'
    <3> SUFFICES ASSUME NEW l \in Drawn, NEW p \in Position, NEW q \in Position,
                        q < point \/ q = point
                 PROVE  canvas'[l][p] <= canvas'[lane][q] + 1
      BY <2>1, <2>4, <2>6 DEF TracedInOrder
    <3>1. canvas'[l][p] = canvas[l][p]
      BY <2>4
    <3>2. CASE q = point
      <4>1. canvas[l][p] <= job /\ canvas[l][p] \in Int /\ job \in Int
        BY <2>4, SMT DEF PlottingInv, NotAhead, TypeOK
      <4> QED
        BY <3>1, <3>2, <2>5, <2>8, <4>1, SMT
    <3>3. CASE q < point /\ q # point
      BY <2>1, <3>1, <3>3, <2>5 DEF PlottingInv, TracedInOrder
    <3> QED
      BY <3>2, <3>3
  <2>11. TwoBatches' /\ FrameInOrder'
    BY <2>4 DEF PlottingInv, TwoBatches, FrameInOrder
  <2> QED
    BY <2>2, <2>3, <2>7, <2>9, <2>10, <2>11 DEF PlottingInv
<1>6. CASE UnlockGraphic
  <2>1. /\ rpc = "draw" /\ rpc' \in {"lock", "erase"} /\ lane' = lane + 1
        /\ (rpc' = "lock" => lane + 1 < Used)
        /\ point = Points /\ lane \in Lane /\ canvas' = canvas
        /\ values' = values /\ job' = job /\ point' = point
        /\ lock' = [lock EXCEPT ![lane] = "free"]
    BY <1>6, SMT DEF PlottingInv, TypeOK, UnlockGraphic, NextLane, showVars
  <2>2. TypeOK'
    <3>1. lane' \in 0 .. Used /\ (rpc' = "lock" => lane' \in Lane)
      BY <1>0, <2>1, SMT DEF Lane
    <3>2. lock' \in [Lane -> {"free", "plotter"}]
      BY <2>1 DEF PlottingInv, TypeOK
    <3> QED
      BY <1>0, <1>6, <2>1, <3>1, <3>2 DEF PlottingInv, TypeOK, UnlockGraphic, showVars
  <2>3. Filled' /\ NotAhead'
    BY <1>0, <1>6, <2>1
    DEF PlottingInv, Filled, Written, NotAhead, UnlockGraphic, showVars
  <2>4. Holding'
    BY <2>1 DEF Holding
  <2>5. Drawn' = Drawn \cup {lane} /\ \A l \in Drawn : l < lane
    BY <1>0, <2>1, SMT DEF Drawn, Lane
  <2>6. \A p \in Position : p < point /\ canvas[lane][p] = values[lane][p]
    BY <2>1, SMT DEF PlottingInv, Traced, Position
  <2>7. TwoBatches'
    <3>1. /\ \A p, q \in Position : p < q => values[lane][p] >= values[lane][q]
          /\ values[lane][0] <= values[lane][Points - 1] + 1
      BY <2>1, TwoBatchesInValues DEF PlottingInv
    <3>2. 0 \in Position /\ Points - 1 \in Position
      BY SMT DEF Position
    <3> QED
      BY <2>1, <2>5, <2>6, <3>1, <3>2 DEF PlottingInv, TwoBatches
  <2>8. FrameInOrder'
    <3> SUFFICES ASSUME NEW l \in Drawn \cup {lane}, NEW m \in Drawn \cup {lane},
                        l < m, NEW p \in Position, NEW q \in Position
                 PROVE  canvas[l][p] <= canvas[m][q] + 1
      BY <2>1, <2>5 DEF FrameInOrder
    <3>1. l \in Drawn
      BY <2>1, <2>5, SMT DEF Lane, Drawn
    <3>2. CASE m = lane
      BY <2>1, <2>6, <3>1, <3>2 DEF PlottingInv, TracedInOrder
    <3>3. CASE m \in Drawn
      BY <3>1, <3>3 DEF PlottingInv, FrameInOrder
    <3> QED
      BY <3>2, <3>3
  <2> QED
    BY <2>1, <2>2, <2>3, <2>4, <2>7, <2>8 DEF PlottingInv, Traced, TracedInOrder
<1>7. CASE Erase
  <2>1. TypeOK' /\ Filled' /\ NotAhead' /\ Holding'
    BY <1>0, <1>7, SMT DEF PlottingInv, TypeOK, Filled, Written, NotAhead,
       Holding, Erase, showVars, Blank
  <2>2. Drawn' = {}
    BY <1>7 DEF Erase, Drawn
  <2> QED
    BY <1>7, <2>1, <2>2
    DEF PlottingInv, Erase, Traced, TracedInOrder, TwoBatches, FrameInOrder
<1>8. CASE UNCHANGED vars
  BY <1>8 DEF PlottingInv, vars, showVars, redrawVars, TypeOK, Filled, Written,
     Holding, Traced, TracedInOrder, NotAhead, TwoBatches, FrameInOrder, Drawn,
     Lane, Used
<1> QED
  BY <1>1, <1>2, <1>3, <1>4, <1>5, <1>6, <1>7, <1>8 DEF Next, RedrawStep

(* The inductive invariant of a plot, its plotting and its show thread.    *)
THEOREM PlottingInvariant == Spec => []PlottingInv
  BY PlottingInit, PlottingStep, PTL DEF Spec

(* The types: channels, lanes and positions stay within the arrays of      *)
(* plotting.c for plots of any size.                                       *)
THEOREM PlottingTypeCorrect == Spec => []TypeOK
<1>1. PlottingInv => TypeOK
  BY DEF PlottingInv
<1> QED
  BY <1>1, PlottingInvariant, PTL

(* Each lock that plot_redraw holds through a line keeps the line to two   *)
(* batches, for plots of any length.                                       *)
THEOREM PlottingTwoBatches == Spec => []TwoBatches
<1>1. PlottingInv => TwoBatches
  BY DEF PlottingInv
<1> QED
  BY <1>1, PlottingInvariant, PTL

(* No lower line of a frame is more than a batch behind an upper one.      *)
THEOREM PlottingFrameInOrder == Spec => []FrameInOrder
<1>1. PlottingInv => FrameInOrder
  BY DEF PlottingInv
<1> QED
  BY <1>1, PlottingInvariant, PTL

=============================================================================
