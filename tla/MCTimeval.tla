----------------------------- MODULE MCTimeval -----------------------------
(* Instances of Timeval for TLC: three microseconds in a millisecond and   *)
(* two milliseconds in a second.                                           *)
EXTENDS Timeval
AllPeriods == 1..IntMax
=============================================================================
