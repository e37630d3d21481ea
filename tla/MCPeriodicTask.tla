--------------------------- MODULE MCPeriodicTask ---------------------------
(* Small instances of PeriodicTask; the configurations give the constants. *)
EXTENDS PeriodicTask

=============================================================================
