------------------------------ MODULE MCPingd ------------------------------
(* Instances of Pingd for TLC. *)
EXTENDS Pingd

CONSTANTS h1, h2        \* two hosts of pingd.conf

OneHost == <<h1>>
TwoHosts == <<h1, h2>>
=============================================================================
