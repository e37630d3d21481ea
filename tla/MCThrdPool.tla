----------------------------- MODULE MCThrdPool -----------------------------
(* Small instances of ThrdPool; the configurations give the constants.     *)
EXTENDS ThrdPool

=============================================================================
