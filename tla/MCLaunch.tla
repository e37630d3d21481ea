------------------------------ MODULE MCLaunch ------------------------------
(* Small instances of Launch; the configurations give the constants.       *)
EXTENDS Launch

(* None, the ones that suit, what makes the buffer wrap around to nothing  *)
(* and to less than it holds, the greatest int, and a negative one.        *)
const_Numbers == {-1, 0, 1, 2, 3, 4, 7}

=============================================================================
