------------------------------- MODULE Options -------------------------------
(***************************************************************************)
(* The command line (options.c): opts_parse takes one option after another *)
(* into a struct opts and returns it, or NULL when an argument cannot be   *)
(* read, when help is asked for, or when there is nothing to show.         *)
(*                                                                         *)
(* What matters of an argument is the number or the truth value that it is *)
(* read as.  The name of the device is handed to ALSA as it is.            *)
(***************************************************************************)
EXTENDS Integers, Sequences, FiniteSetsExt

CONSTANTS
  UintSize,       (* 2 to the width of unsigned                            *)
  SchedMin,       (* sched_get_priority_min(SCHED_FIFO)                    *)
  SchedMax,       (* sched_get_priority_max(SCHED_FIFO)                    *)
  DefaultRate,    (* DEFAULT_RATE                                          *)
  DefaultScale,   (* DEFAULT_BUFFER_SCALE                                  *)
  Numbers,        (* the numbers given as arguments                        *)
  MaxArgs         (* bound: options on the command line                    *)

IntMax == UintSize \div 2 - 1

ASSUME OptionsAssumption ==
  /\ UintSize \in Nat /\ UintSize % 2 = 0
  /\ SchedMin \in Nat /\ SchedMax \in SchedMin .. IntMax
  /\ DefaultRate \in 0 .. UintSize - 1
  /\ DefaultScale \in 0 .. UintSize - 1
  /\ Numbers \subseteq Int
  /\ MaxArgs \in Nat

VARIABLES
  opts,      (* the struct opts being filled                               *)
  given,     (* the options parsed so far; forgotten when the parsing ends *)
  verdict    (* "parsing", "accepted" or "refused"                         *)

optionVars == <<opts, given, verdict>>

Displays == {"spectrum", "signal"}
Numeric == {"rate", "buffer_scale", "run_for"}

(* set_defaults.                                                           *)
Defaults ==
  [rate |-> DefaultRate, minprio |-> 0, show |-> {"spectrum"},
   buffer_scale |-> DefaultScale, run_for |-> 0]

OptionsInit ==
  /\ opts = Defaults
  /\ given = << >>
  /\ verdict = "parsing"

(* Mutant of ToUnsigned: the number is kept as it is.                      *)
ToUnsignedUnwrapped(n) == n

(* sscanf with %u: numbers wrap around, the negative ones too.             *)
ToUnsigned(n) == n % UintSize

(* An unsigned stored in an int.                                           *)
ToInt(u) == IF u <= IntMax THEN u ELSE u - UintSize

Takes(option, arg) ==
  /\ verdict = "parsing"
  /\ Len(given) < MaxArgs
  /\ given' = Append(given, [option |-> option, arg |-> arg])
  /\ UNCHANGED verdict

(* --rate, --buffer-scale, --run-for.                                      *)
SetNumber(field, n) ==
  /\ Takes(field, n)
  /\ opts' = [opts EXCEPT ![field] = ToUnsigned(n)]

(* Mutant of Shown: hiding one display hides both.                         *)
ShownOrNothing(show, d, yes) == IF yes THEN show \cup {d} ELSE {}

Shown(show, d, yes) == IF yes THEN show \cup {d} ELSE show \ {d}

(* --show-spectrum, --show-signal; no argument means yes.                  *)
SetShown(d, yes) ==
  /\ Takes(d, yes)
  /\ opts' = [opts EXCEPT !.show = Shown(@, d, yes)]

(* The sum in to_priority may overflow, which C leaves undefined: it wraps *)
(* around and the value passes, or the comparison is made without overflow.*)
Overflows(val) == val + SchedMin > IntMax
TooHigh(val) == val + SchedMin > SchedMax

(* --minprio, when to_priority lets it through.                            *)
SetMinprio(n) ==
  LET val == ToInt(ToUnsigned(n)) IN
    /\ Overflows(val) \/ ~TooHigh(val)
    /\ Takes("minprio", n)
    /\ opts' = [opts EXCEPT !.minprio = val]

Refuses ==
  /\ verdict' = "refused"
  /\ given' = << >>
  /\ UNCHANGED opts

MinprioTooHigh(n) ==
  /\ verdict = "parsing"
  /\ Len(given) < MaxArgs
  /\ TooHigh(ToInt(ToUnsigned(n)))
  /\ Refuses

(* An argument that is neither a number nor a truth value, an option that  *)
(* does not exist, or --help.                                              *)
Unreadable ==
  /\ verdict = "parsing"
  /\ Len(given) < MaxArgs
  /\ Refuses

NothingToShow ==
  /\ verdict = "parsing"
  /\ opts.show = {}
  /\ Refuses

Accept ==
  /\ verdict = "parsing"
  /\ opts.show # {}
  /\ verdict' = "accepted"
  /\ given' = << >>
  /\ UNCHANGED opts

ParseStep ==
  \/ \E n \in Numbers :
       \/ \E field \in Numeric : SetNumber(field, n)
       \/ SetMinprio(n)
       \/ MinprioTooHigh(n)
  \/ \E d \in Displays, yes \in BOOLEAN : SetShown(d, yes)
  \/ Unreadable
  \/ NothingToShow
  \/ Accept

-----------------------------------------------------------------------------
(* Properties.                                                             *)

OptionsTypeOK ==
  /\ opts \in [rate : 0 .. UintSize - 1, minprio : -IntMax - 1 .. IntMax,
               show : SUBSET Displays, buffer_scale : 0 .. UintSize - 1,
               run_for : 0 .. UintSize - 1]
  /\ verdict \in {"parsing", "accepted", "refused"}

(* Where an option is mentioned, and what was said last of it, or what     *)
(* holds when nothing was.                                                 *)
Mentions(option) == {i \in DOMAIN given : given[i].option = option}

LastSaid(option, default) ==
  IF Mentions(option) = {} THEN default
  ELSE given[Max(Mentions(option))].arg

(* Options do not disturb each other: whatever the order in which they are *)
(* given and repeated, what is said last of a number or of a display is    *)
(* what holds (the bits of opts->show, the fields of struct opts).         *)
LastMentionCounts ==
  verdict = "parsing" =>
    /\ opts.rate = LastSaid("rate", DefaultRate) % UintSize
    /\ opts.buffer_scale = LastSaid("buffer_scale", DefaultScale) % UintSize
    /\ opts.run_for = LastSaid("run_for", 0) % UintSize
    /\ (opts.minprio - LastSaid("minprio", 0)) % UintSize = 0
    /\ "spectrum" \in opts.show <=> LastSaid("spectrum", TRUE)
    /\ "signal" \in opts.show <=> LastSaid("signal", FALSE)

=============================================================================
