------------------------------ MODULE Bundled -------------------------------
(***************************************************************************)
(* The two libraries the project carries with it: libltdl, which loads its *)
(* modules, and libexpat, which reads what a ganglia server sends.  They   *)
(* share nothing; a behaviour is about one of them.                        *)
(***************************************************************************)
EXTENDS Ltdl, Expat

VARIABLE used    \* the library this behaviour is about

BundledInit ==
  /\ Init /\ XInit /\ used \in {"ltdl", "expat"}
  /\ used = "expat" => ~lib.deplibs      \* one build of libltdl is enough beside it

BundledNext ==
  \/ used = "ltdl" /\ Next /\ UNCHANGED <<xvars, used>>
  \/ used = "expat" /\ XNext /\ UNCHANGED <<vars, used>>

BundledSpec == BundledInit /\ [][BundledNext]_<<vars, xvars, used>>
=============================================================================
