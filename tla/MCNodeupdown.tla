---------------------------- MODULE MCNodeupdown ----------------------------
(* Instances of Nodeupdown for TLC. *)
EXTENDS Nodeupdown

CONSTANTS n1, n2, n3, long   \* three nodes, and the first with its domain
CONSTANTS s1, s2             \* two servers

ShortNames == [n \in Names |-> IF n = long THEN n1 ELSE n]

(* NAME, IP and REPORTED; with TAGS before REPORTED; elements that lack it. *)
Tags == {<<"nil", "nil", "recent">>, <<"nil", "nil", "old", "nil">>,
         <<"nil", "nil", "nil", "recent">>, <<"nil", "nil", "nil">>, <<"nil">>}

TwoServers == {<<>>, <<s1>>, <<s1, s2>>}

Failover == {<<s1>>, <<s1, s2>>}

TwoNodes == {<<n1, n2>>, <<n2, n1, n2>>}
AnyFile == {NoFile, <<n1>>}
=============================================================================
