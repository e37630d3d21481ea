------------------------------ MODULE Plotting ------------------------------
(***************************************************************************)
(* A plot (plotting.c), the plotting thread that redraws it (plotthread.c) *)
(* and the show thread that fills it (signal_show.c or spectrum_show.c).   *)
(*                                                                         *)
(* Every job of the show thread writes one batch, all from one snapshot of *)
(* the sampling thread.  A value is the number of the batch it belongs to, *)
(* 0 what calloc left.  A graphic has a lock: the show thread takes it for *)
(* each value, in one step here, the plotting thread for a whole line.     *)
(***************************************************************************)
EXTENDS Integers, Sequences

CONSTANTS
  Points,   (* max_x, the length of a snapshot                             *)
  Top,      (* INT16_MAX: PLOT_MIN_Y, while PLOT_MAX_Y is INT16_MIN        *)
  MaxJobs   (* bound: jobs of the show thread                              *)

(* sampth_get_size is a multiple of ALSA_BUFFER_SIZE; plot_new asserts     *)
(* that it is greater than one.                                            *)
ASSUME PlottingAssumption ==
  /\ Points \in Nat \ {0} /\ Points % 2 = 0
  /\ Top \in Nat
  /\ MaxJobs \in Nat

VARIABLES
  channels,  (* per channel, the two graphics that its loop writes         *)
  values,    (* graphic.values                                             *)
  lock,      (* graphic.lock: "free" or "plotter"                          *)
  spc,       (* the show thread: "idle" or "write"                         *)
  job,       (* the batch written last, or being written                   *)
  channel,   (* the loop of the job in progress: the channel,              *)
  pos,       (*   the position,                                            *)
  turn,      (*   and which of the two graphics                            *)
  rpc,       (* where the plotting thread is in plot_redraw                *)
  lane,      (* the graphic that it has come to                            *)
  point,     (* the point of it that is drawn next                         *)
  canvas     (* the points drawn since the last pl_erase_r                 *)

showVars == <<spc, job, channel, pos, turn>>
redrawVars == <<rpc, lane, point, canvas>>
vars == <<channels, values, lock, showVars, redrawVars>>

(* The graphics are numbered in the order of plot_new_graphic.  The two of *)
(* the signal are made in the arguments of one call, in either order.      *)
Displays ==
  {<< <<0, 1>> >>, << <<1, 0>> >>,
   << <<0, 1>>, <<2, 3>> >>}

(* p->used, equal to p->ngraphics when the threads start.                  *)
Used == 2 * Len(channels)

Lane == 0 .. Used - 1

Position == 0 .. Points - 1

Blank == [l \in Lane |-> [p \in Position |-> 0]]

Init ==
  /\ channels \in Displays
  /\ values = Blank
  /\ lock = [l \in Lane |-> "free"]
  /\ spc = "idle" /\ job = 0 /\ channel = 1 /\ pos = 0 /\ turn = 1
  /\ rpc = "idle" /\ lane = 0 /\ point = 0
  /\ canvas = Blank

-----------------------------------------------------------------------------
(* Where things are drawn.                                                 *)

MinY == Top

MaxY == -Top - 1

(* g->y_offset of graphic u in a plot of n.                                *)
YOffset(u, n) == u * (MaxY - MinY) + (n - 1) * MinY

(* The rows of the window that graphic u can reach.                        *)
Rows(u, n) == {YOffset(u, n) + v : v \in MaxY .. MinY}

(* pl_space_r: the rows of the window.                                     *)
Space(n) == MaxY * n .. MinY * n

(* build_spectrum: the frequency written at a position, by the loop that   *)
(* goes down to zero or by the one that goes up again.                     *)
NFreqs == Points \div 2

Negative == [i \in 0 .. NFreqs |-> NFreqs - i]

Positive == [i \in NFreqs + 1 .. NFreqs + (NFreqs - 1) |-> i - NFreqs]

-----------------------------------------------------------------------------
(* The show thread.                                                        *)

(* thread_cb obtains a snapshot and begins to write it.                    *)
BeginJob ==
  /\ spc = "idle"
  /\ job < MaxJobs
  /\ spc' = "write"
  /\ job' = job + 1
  /\ channel' = 1 /\ pos' = 0 /\ turn' = 1
  /\ UNCHANGED <<channels, values, lock, redrawVars>>

(* Mutant of NextWrite: only one channel is ever written.                  *)
NextWriteOneChannel ==
  \/ /\ turn = 1
     /\ turn' = 2 /\ UNCHANGED <<spc, pos, channel>>
  \/ /\ turn = 2 /\ pos < Points - 1
     /\ turn' = 1 /\ pos' = pos + 1 /\ UNCHANGED <<spc, channel>>
  \/ /\ turn = 2 /\ pos = Points - 1
     /\ spc' = "idle" /\ UNCHANGED <<turn, pos, channel>>

(* The loops of thread_cb or build_spectrum: both graphics of a channel at *)
(* one position, then the next position, then the next channel.            *)
NextWrite ==
  \/ /\ turn = 1
     /\ turn' = 2 /\ UNCHANGED <<spc, pos, channel>>
  \/ /\ turn = 2 /\ pos < Points - 1
     /\ turn' = 1 /\ pos' = pos + 1 /\ UNCHANGED <<spc, channel>>
  \/ /\ turn = 2 /\ pos = Points - 1 /\ channel < Len(channels)
     /\ turn' = 1 /\ pos' = 0 /\ channel' = channel + 1 /\ UNCHANGED spc
  \/ /\ turn = 2 /\ pos = Points - 1 /\ channel = Len(channels)
     /\ spc' = "idle" /\ UNCHANGED <<turn, pos, channel>>

(* Mutant of Set: the lock is not taken.                                   *)
SetUnlocked ==
  LET g == channels[channel][turn] IN
  /\ spc = "write"
  /\ values' = [values EXCEPT ![g][pos] = job]
  /\ NextWrite
  /\ UNCHANGED <<channels, lock, job, redrawVars>>

(* plot_graphic_set: lock, write, unlock.                                  *)
Set ==
  LET g == channels[channel][turn] IN
  /\ spc = "write"
  /\ lock[g] = "free"
  /\ values' = [values EXCEPT ![g][pos] = job]
  /\ NextWrite
  /\ UNCHANGED <<channels, lock, job, redrawVars>>

-----------------------------------------------------------------------------
(* The plotting thread: plot_redraw.                                       *)

Redraw ==
  /\ rpc = "idle"
  /\ rpc' = "lock"
  /\ lane' = 0
  /\ UNCHANGED <<channels, values, lock, showVars, point, canvas>>

LockGraphic ==
  /\ rpc = "lock"
  /\ lock[lane] = "free"
  /\ lock' = [lock EXCEPT ![lane] = "plotter"]
  /\ rpc' = "draw"
  /\ point' = 0
  /\ UNCHANGED <<channels, values, showVars, lane, canvas>>

(* draw_lines moves to the first point and draws on to each of the others. *)
DrawPoint ==
  /\ rpc = "draw"
  /\ point < Points
  /\ canvas' = [canvas EXCEPT ![lane][point] = values[lane][point]]
  /\ point' = point + 1
  /\ UNCHANGED <<channels, values, lock, showVars, rpc, lane>>

(* Mutant of NextLane: one graphic too many.                               *)
NextLaneTooFar ==
  /\ lane' = lane + 1
  /\ rpc' = IF lane + 1 <= Used THEN "lock" ELSE "erase"

(* The end of the loop over the graphics that are used.                    *)
NextLane ==
  /\ lane' = lane + 1
  /\ rpc' = IF lane + 1 < Used THEN "lock" ELSE "erase"

(* Mutant of UnlockGraphic: the lock is kept.                              *)
UnlockGraphicForgotten ==
  /\ rpc = "draw"
  /\ point = Points
  /\ NextLane
  /\ UNCHANGED <<channels, values, lock, showVars, point, canvas>>

UnlockGraphic ==
  /\ rpc = "draw"
  /\ point = Points
  /\ lock' = [lock EXCEPT ![lane] = "free"]
  /\ NextLane
  /\ UNCHANGED <<channels, values, showVars, point, canvas>>

(* pl_erase_r: the frame is put on the screen, double buffering being on,  *)
(* and the canvas is blank.                                                *)
Erase ==
  /\ rpc = "erase"
  /\ canvas' = Blank
  /\ rpc' = "idle"
  /\ lane' = 0
  /\ point' = 0
  /\ UNCHANGED <<channels, values, lock, showVars>>

-----------------------------------------------------------------------------

RedrawStep == Redraw \/ LockGraphic \/ DrawPoint \/ UnlockGraphic \/ Erase

Next == BeginJob \/ Set \/ RedrawStep

Spec == Init /\ [][Next]_vars

(* The plotting thread is periodic and its show thread holds no lock       *)
(* between two steps.  The show thread gets each lock, since the plotting  *)
(* thread sleeps between two redraws.  Nothing promises a further job.     *)
FairSpec == Spec /\ WF_vars(RedrawStep) /\ SF_vars(Set)

-----------------------------------------------------------------------------
(* Properties.                                                             *)

TypeOK ==
  /\ channels \in Displays
  /\ values \in [Lane -> [Position -> 0 .. MaxJobs]]
  /\ lock \in [Lane -> {"free", "plotter"}]
  /\ spc \in {"idle", "write"}
  /\ job \in 0 .. MaxJobs
  /\ channel \in 1 .. Len(channels)
  /\ pos \in Position
  /\ turn \in {1, 2}
  /\ rpc \in {"idle", "lock", "draw", "erase"}
  /\ lane \in 0 .. Used
  /\ rpc \in {"lock", "draw"} => lane \in Lane
  /\ point \in 0 .. Points
  /\ canvas \in [Lane -> [Position -> 0 .. MaxJobs]]

(* The lanes of the frame whose line is complete.                          *)
Drawn == {l \in Lane : rpc # "idle" /\ l < lane}

(* A line on the canvas shows at most two batches, the newer one first and *)
(* the older one the batch just before it, whatever the periods of the two *)
(* threads (plot_graphic_set and plot_redraw share the graphic's lock).    *)
TwoBatches ==
  \A l \in Drawn :
    /\ \A p, q \in Position : p < q => canvas[l][p] >= canvas[l][q]
    /\ canvas[l][0] <= canvas[l][Points - 1] + 1

(* The lines of one frame are drawn one after the other while batches go   *)
(* on: a lower line may be any number of batches ahead of an upper one,    *)
(* but is never more than one behind.                                      *)
FrameInOrder ==
  \A l, m \in Drawn : l < m =>
    \A p, q \in Position : canvas[l][p] <= canvas[m][q] + 1

(* A batch that has been written comes on the screen as a whole, or newer  *)
(* values in its place: no redraw is kept from its locks.                  *)
Displayed ==
  \A k \in 1 .. MaxJobs :
    (job >= k /\ spc = "idle") ~>
      (rpc = "erase" /\ \A l \in Lane, p \in Position : canvas[l][p] >= k)

=============================================================================
