------------------------------ MODULE MCResume ------------------------------
(* Instances of Resume for TLC: two sessions, one run of the command line   *)
(* and one of the application over two days.                                *)
EXTENDS Resume

CONSTANTS s1, s2, c1
=============================================================================
