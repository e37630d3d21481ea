------------------------------- MODULE MCSoto -------------------------------
(* Small instances of Soto; the configurations give the constants.         *)
EXTENDS Soto

=============================================================================
