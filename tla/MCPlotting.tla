----------------------------- MODULE MCPlotting -----------------------------
(* Small instances of Plotting; the configurations give the constants.     *)
EXTENDS Plotting

=============================================================================
