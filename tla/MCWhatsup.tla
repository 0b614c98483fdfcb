------------------------------ MODULE MCWhatsup ------------------------------
(* Instances of Whatsup for TLC. *)
EXTENDS Whatsup

CONSTANTS n1, n2

Module(name, options, functions, setup) ==
  [name |-> name, opens |-> TRUE, valid |-> TRUE, options |-> options,
   functions |-> functions, setup |-> setup]
Opt(letter, type) == [letter |-> letter, type |-> type, long |-> FALSE]
Long(letter, type) == [letter |-> letter, type |-> type, long |-> TRUE]

GetAndConvert == Module("names", <<Opt("x", "GET"), Long("u", "CONVERT"), Long("y", "CONVERT")>>,
                        {"GET", "CONVERT"}, TRUE)
Monitor == Module("monitor", <<Long("M", "MONITOR"), Opt("x", "MONITOR")>>, {"MONITOR"}, TRUE)
NoSetup == [Monitor EXCEPT !.setup = FALSE]
Untyped == Module("untyped", <<Opt("M", "MONITOR"), Opt("z", "?")>>, {"GET"}, TRUE)
Foreign == [Monitor EXCEPT !.valid = FALSE]
Absent == [Monitor EXCEPT !.opens = FALSE]

MCDirs == {<<>>, <<GetAndConvert, Monitor, GetAndConvert>>, <<Monitor, Untyped, GetAndConvert>>,
           <<Foreign, NoSetup>>, <<Absent, GetAndConvert, NoSetup>>}

MCBuiltin == {"h", "p", "b", "u", "d", "t", "r", "l", "f", "e"}
MCOwnLongs == <<"h", "p", "b", "u", "d", "t", "r", "l", "f", "e">>
Yes(letters) == [n \in DOMAIN letters |-> [letter |-> letters[n], ok |-> TRUE, long |-> FALSE]]
YesLong(letters) == [n \in DOMAIN letters |-> [letter |-> letters[n], ok |-> TRUE, long |-> TRUE]]
Given(names, stdin) == [names |-> names, stdin |-> stdin, ok |-> TRUE]

MCOptions == {Yes(<<>>), Yes(<<"u">>), Yes(<<"u", "d", "t">>), Yes(<<"d", "b">>), Yes(<<"r", "u">>),
              Yes(<<"l">>), Yes(<<"l", "f">>), Yes(<<"x">>), Yes(<<"x", "u", "t">>),
              Yes(<<"y", "u">>), YesLong(<<"y", "t">>), Yes(<<"x", "y", "d">>), Yes(<<"M">>),
              YesLong(<<"l", "e">>), YesLong(<<"x">>), Yes(<<"h">>), Yes(<<"z">>),
              <<[letter |-> "p", ok |-> FALSE, long |-> FALSE]>>}
MCNodes == {Null, Given(<<n1, n1>>, FALSE), Given(<<>>, TRUE), Given(<<n2, n1>>, TRUE),
            [Given(<<>>, FALSE) EXCEPT !.ok = FALSE]}
MCCommandLines == [opts : MCOptions, nodes : MCNodes]
MCGetLists == {<<>>, <<n2>>, <<n1, n2, n1>>}
MCConversions == {[n \in {n1, n2} |-> n1], [n \in {n1, n2} |-> IF n = n1 THEN n2 ELSE n1]}
=============================================================================
