---------------------------- MODULE MCContainers ----------------------------
(* Instances of Containers for TLC. *)
EXTENDS Containers

CONSTANTS x1, x2, x3    \* list nodes

TwoEqual == (x1 :> 0) @@ (x2 :> 0) @@ (x3 :> 1)

(* "a" and "ac", which fall into the same slot of two. *)
Strings == {<<97>>, <<97, 99>>}
=============================================================================
