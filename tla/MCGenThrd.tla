----------------------------- MODULE MCGenThrd -----------------------------
(* Small instances of GenThrd; the configurations give the constants.      *)
EXTENDS GenThrd

=============================================================================
