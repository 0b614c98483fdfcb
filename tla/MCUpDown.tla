------------------------------ MODULE MCUpDown ------------------------------
(* Instances of UpDown for TLC. *)
EXTENDS UpDown

CONSTANTS h1, h2    \* host names

OneHost == <<h1>>
TwoHosts == <<h1, h2>>
BothWays == {-1, 2}
InStep == {0}
=============================================================================
