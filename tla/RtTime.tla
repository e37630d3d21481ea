------------------------------- MODULE RtTime -------------------------------
(***************************************************************************)
(* The arithmetic on struct timespec of rtutils.c and headers/rtutils.h.   *)
(*                                                                         *)
(* A time is a record of seconds and nanoseconds; Second is the number of  *)
(* nanoseconds in a second (SECOND_nS), a parameter so that the carry      *)
(* happens on small numbers.  uint64_t holds more than 500 years of        *)
(* nanoseconds, so the width of the integers is left out.                  *)
(***************************************************************************)
EXTENDS Integers

CONSTANT Second  (* SECOND_nS *)

ASSUME RtTimeAssumption == Second \in Nat \ {0}

(* What the system calls accept as a struct timespec.                      *)
Normal == [tv_sec : Nat, tv_nsec : 0 .. Second - 1]

(* What rtutils_time_increment can leave in its target.                    *)
Carried == [tv_sec : Nat, tv_nsec : 0 .. Second]

Time2ns(n) == n.tv_nsec + Second * n.tv_sec

Ns2time(ns) == [tv_sec |-> ns \div Second, tv_nsec |-> ns % Second]

(* Mutant of TimeIncrement: the carry leaves the nanoseconds as they are.  *)
TimeIncrementUncarried(target, val) ==
  LET nano == target.tv_nsec + val.tv_nsec
      sec == target.tv_sec + val.tv_sec
  IN IF nano > Second
       THEN [tv_sec |-> sec + 1, tv_nsec |-> nano]
       ELSE [tv_sec |-> sec, tv_nsec |-> nano]

(* rtutils_time_increment, as the new value of its target.                 *)
TimeIncrement(target, val) ==
  LET nano == target.tv_nsec + val.tv_nsec
      sec == target.tv_sec + val.tv_sec
  IN IF nano > Second
       THEN [tv_sec |-> sec + 1, tv_nsec |-> nano - Second]
       ELSE [tv_sec |-> sec, tv_nsec |-> nano]

(* Mutant of TimeCmp: the results swapped.                                 *)
TimeCmpSwapped(s0, s1) ==
  LET greater == IF s0.tv_sec = s1.tv_sec THEN s0.tv_nsec > s1.tv_nsec
                                          ELSE s0.tv_sec > s1.tv_sec
  IN IF greater THEN 1 ELSE -1

(* Negative when s0 is greater, positive otherwise, never zero.            *)
TimeCmp(s0, s1) ==
  LET greater == IF s0.tv_sec = s1.tv_sec THEN s0.tv_nsec > s1.tv_nsec
                                          ELSE s0.tv_sec > s1.tv_sec
  IN IF greater THEN -1 ELSE 1

=============================================================================
