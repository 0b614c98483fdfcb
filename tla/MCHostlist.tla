---------------------------- MODULE MCHostlist ----------------------------
(* Two prefixes; numbers around the change from one digit to two (Base 4:  *)
(* 3 is printed 3, 4 is printed 10), plain and padded to two digits.       *)
EXTENDS Hostlist

Name(p, n, zeros) == [prefix |-> p, suffix |-> <<n, zeros>>]
Brackets(p, list) == [prefix |-> p, list |-> list]
Ends(lo, hi, width) == [lo |-> lo, hi |-> hi, width |-> width]

MCHosts == {[prefix |-> 1, suffix |-> <<>>], Name(1, 4, 0), Name(1, 3, 1)}

(* Two ranges that overlap in some way, and one longer than MaxRange.      *)
MCStrings ==
  { <<Brackets(1, <<Ends(2, 4, 1)>>)>>,
    <<Name(2, 1, 0), Brackets(1, <<Ends(3, 5, 2)>>)>>,
    <<Name(2, 1, 0), Brackets(1, <<Ends(0, 3, 1)>>)>> }

MixedStrings ==
  { <<Brackets(1, <<Ends(3, 4, 1)>>), Brackets(1, <<Ends(3, 4, 1)>>), Name(1, 3, 1)>> }
=============================================================================
