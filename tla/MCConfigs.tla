----------------------------- MODULE MCConfigs ------------------------------
(* An instance of Configs for TLC: files written in three layouts, and files *)
(* of arbitrary short lines. *)
EXTENDS Configs

CONSTANT Size       \* symbols of an arbitrary line

(* The option tables. *)
Opt(name, type, type_arg, max, required) ==
  [name |-> <<name>>, type |-> type, type_arg |-> type_arg, callback |-> TRUE,
   max_count |-> max, required_count |-> required, variable |-> TRUE]
Int1(name) == Opt(name, "int", 0, 1, 0)

Table(opts, cs, ignore, failures) ==
  [options |-> opts, casesensitive |-> cs, ignore_unknown |-> ignore,
   failures |-> failures]

MCTables ==
  [c \in {"pingd", "libnodeupdown", "app", "strict", "broken"} |->
   CASE c = "pingd" ->
          Table(<<Int1("ping_period"), Int1("pingd_server_port"),
                  Int1("ping_socket_receive_buffer"),
                  Opt("host", "string", 0, 99, 0)>>, FALSE, FALSE, {"read"})
     [] c = "libnodeupdown" ->
          Table(<<Opt("hostnames", "list_string", -1, 1, 0), Int1("port"),
                  Int1("timeout_len"), Opt("hostsfile", "ignore", 0, 0, 0)>>,
                FALSE, FALSE, {})
     [] c = "app" ->
          Table(<<Opt("list", "list_string", -1, 0, 0), Opt("flag", "flag", 0, 2, 0),
                  Opt("bool", "bool", 0, 0, 0), Opt("int", "int", 0, 0, 0),
                  Opt("double", "double", 0, 0, 0), Opt("string", "string", 0, 0, 0),
                  Opt("pair", "list_int", 2, 0, 0), Opt("reals", "list_double", -1, 0, 0),
                  Opt("old", "ignore", 0, 0, 0),
                  [Opt("unset", "int", 0, 0, 0) EXCEPT !.variable = FALSE]>>,
                FALSE, FALSE, {})
     [] c = "strict" ->
          Table(<<Opt("flag", "flag", 0, 1, 1), Opt("int", "int", 0, 0, 0)>>,
                TRUE, TRUE, {})
     [] OTHER -> Table(<<Opt("pair", "list_int", 0, 0, 0)>>, FALSE, FALSE, {})]

MCNumber == [w \in {"5", "0", "-1", "25", "69"} |->
  CASE w = "5" -> 5 [] w = "0" -> 0 [] w = "-1" -> -1 [] w = "25" -> 25 [] w = "69" -> 69]
MCUpper == [w \in {"YES", "FLAG", "HOST"} |->
  CASE w = "YES" -> "yes" [] w = "FLAG" -> "flag" [] w = "HOST" -> "host"]

(* Writing an argument, and an entry in a layout: on one line; one         *)
(* argument on a line, continued, with comments; or between comments,      *)
(* indented and not quoted where it need not be. *)
Esc(s) == FlattenSeq([k \in DOMAIN s |->
  IF s[k] \in {Backslash, Hash, Quote} THEN <<Backslash, s[k]>> ELSE <<s[k]>>])
Quoted(s) == <<Quote>> \o Esc(s) \o <<Quote>>
Bare(s) == IF s = <<>> \/ Space \in ToSet(s) \/ Last(s) = Backslash THEN Quoted(s) ELSE Esc(s)
Comment == <<Hash, "c", Quote, Backslash>>

EntryLines(e, layout) ==
  CASE layout = "line" ->
         << <<e.name>> \o FlattenSeq([k \in DOMAIN e.args |-> <<Space>> \o Quoted(e.args[k])]) >>
    [] layout = "split" ->
         <<(IF e.args = <<>> THEN <<e.name>> ELSE <<e.name, Space, Backslash>>)>> \o
         [k \in DOMAIN e.args |->
            <<Space>> \o Quoted(e.args[k]) \o
            (IF k < Len(e.args) THEN <<Space, Backslash, Space>> ELSE <<>>) \o Comment]
    [] layout = "decorated" ->
         << <<Space>>, Comment,
            <<Space, e.name>> \o FlattenSeq([k \in DOMAIN e.args |-> <<Space, Space>> \o Bare(e.args[k])])
              \o <<Space>> \o Comment >>

RECURSIVE FileLines(_, _)
FileLines(es, layout) ==
  IF es = <<>> THEN <<>>
  ELSE EntryLines(Head(es), layout) \o FileLines(Tail(es), layout)

StartLine(es, layout, k) ==
  Len(FileLines(SubSeq(es, 1, k - 1), layout)) + (IF layout = "decorated" THEN 3 ELSE 1)

File(es, layout) ==
  [kind |-> "file", lines |-> FileLines(es, layout),
   written |-> [k \in DOMAIN es |-> [name |-> <<es[k].name>>, args |-> es[k].args,
                                      line |-> StartLine(es, layout, k)]]]
Raw(lines) == [kind |-> "file", lines |-> lines, written |-> <<>>]
E1(name, args) == [name |-> name, args |-> args]
UpTo2(S) == {<<>>} \cup {<<a>> : a \in S} \cup {<<a, b>> : a \in S, b \in S}
Layouts == {"line", "split", "decorated"}

(* What each caller may find. *)
Strings == UpTo2({"a", Space, Backslash, Hash, Quote})
ArgLists == {<<a, b>> : a \in Strings, b \in Strings}

AppEntries ==
  {E1("flag", <<>>), E1("FLAG", <<>>), E1("flag", << <<"5">> >>), E1("old", << <<"a">> >>),
   E1("none", <<>>), E1("unset", << <<"5">> >>), E1("string", <<>>), E1("list", <<>>)} \cup
  {E1("bool", << <<w>> >>) : w \in {"yes", "YES", "no", "a"}} \cup
  {E1(n, << <<w>> >>) : n \in {"int", "double", "pair"}, w \in {"5", "69", "1.5"}} \cup
  {E1("pair", << <<"5">>, <<"25">> >>), E1("reals", << <<"1.5">>, <<>>, <<"5">> >>),
   E1("int", << <<>> >>), E1("int", << <<Space, "5">> >>), E1("int", << <<"5", Space>> >>)}

PingdEntries ==
  {E1(n, << <<w>> >>) : n \in {"ping_period", "pingd_server_port"}, w \in DOMAIN MCNumber} \cup
  {E1("ping_socket_receive_buffer", << <<w>> >>) : w \in {"-1", "0", "5"}} \cup
  {E1("host", <<h>>) : h \in {<<>>, <<"n1">>, <<"n[1-2]">>, <<"n[">>, <<"n2", ".", "d">>,
                              <<"10", ".", "1">>, <<"n1", Space, "n2">>}} \cup
  {E1("HOST", << <<"n1">> >>)}

LibraryEntries ==
  {E1(n, << <<w>> >>) : n \in {"port", "timeout_len"}, w \in {"5", "0", "69"}} \cup
  {E1("hostnames", args) : args \in {<< <<"s1">> >>, << <<>>, <<"s2">> >>, << <<>> >>,
                                     << <<"s1", "s2", "s1">> >>, << <<"s1">>, <<"s2">>, <<"s1">> >>}} \cup
  {E1("hostsfile", << <<"a">>, <<"a">> >>)}

Symbols == {Space, Backslash, Hash, Quote, "host", "n1"}
ShortLines(n) == UNION {[1..k -> Symbols] : k \in 0..n}

Odd ==   \* at the limits, and the examples of conffile.h
  {Raw(<< <<"host">> \o [k \in 1..40 |-> Space] \o <<"n1">> >>),
   Raw(<< <<"host", Space>> \o [k \in 1..20 |-> "a"] \o <<Space, Backslash>>, [k \in 1..20 |-> "a"] >>),
   Raw(<< <<"host", "n1", "n1">> >>), Raw(<< <<"host", Space, "a", "a", "a">> >>),
   Raw(<< <<"host">> \o FlattenSeq([k \in 1..4 |-> <<Space, "a">>]) >>),
   Raw(<< <<"host", Space, Quote, Hash, Quote>> >>),
   Raw(<< <<"host", Space, "a", Space, Backslash, Backslash>>, <<"a">> >>),
   Raw(<< <<"host", Space, "a", Backslash>>, <<"n1">> >>),
   [kind |-> "missing"], [kind |-> "refused"]}

MCFiles ==
  [c \in DOMAIN MCTables |->
   CASE c = "pingd" ->
          {File(es, "line") : es \in UpTo2(PingdEntries)} \cup Odd \cup
          {Raw(<<l>>) : l \in ShortLines(Size)} \cup
          {Raw(<<l, m>>) : l \in ShortLines(Size - 1), m \in ShortLines(Size - 1)}
     [] c = "libnodeupdown" ->
          {File(es, "split") : es \in UpTo2(LibraryEntries)} \cup
          {[kind |-> "missing"], [kind |-> "refused"]}
     [] c = "app" ->
          {File(<<E1("list", a), E1("flag", <<>>)>>, l) : a \in ArgLists, l \in Layouts} \cup
          {File(<<e, f>>, l) : e \in AppEntries, f \in AppEntries, l \in {"split", "decorated"}}
     [] OTHER -> {File(es, "line") : es \in UpTo2({E1("flag", <<>>), E1("FLAG", <<>>), E1("none", <<>>),
                                                  E1("int", << <<"a">> >>)})}]

(* pingd *)
Cmd(o, a) == [option |-> o, optarg |-> a]
MCArgvs == {<<>>, <<Cmd("h", "")>>, <<Cmd("c", "other")>>, <<Cmd("d", ""), Cmd("c", "default")>>}
Genders == "pingd_clusterlist_genders.so"
Hostsfile == "pingd_clusterlist_hostsfile.so"
MCInstalls ==
  {[builddir |-> {}, moduledir |-> {Genders, Hostsfile, "foreign.so"}],
   [builddir |-> {Genders}, moduledir |-> {"foreign.so"}]}
MCHostsTexts ==
  {NoHosts, <<>>, << <<"n1", Space, Hash, "c">>, <<Space>>, <<"n2", ".", "d">> >>,
   << <<"n1">>, <<"n1">>, <<"10", ".", "1">> >>, << <<"n1">>, <<".", "d">> >>,
   << <<"n1", Space, "n2">> >>, << <<"a", "a", "a", "a", "a">> >>,
   << [k \in 1..8 |-> Space] >>}
MCGendersDbs == {NoHosts, << <<"n2">>, <<"n2">> >>}
MCForeign == {NoHosts, <<>>, << <<"n1">>, <<"n[">> >>, << <<"n2">> >>}
MCRanges == [w \in {<<"n[1-2]">>, <<"n[">>} |->
               IF w = <<"n[">> THEN <<>> ELSE << <<"n1">>, <<"n2">> >>]
MCDefaults == [ping_period |-> 15, pingd_server_port |-> 9,
               ping_socket_receive_buffer |-> 0]
MCQuads == {<<"10", ".", "1">>}

(* libnodeupdown *)
Arg(h, p, t, m) == [hostname |-> h, port |-> p, timeout_len |-> t, module |-> m]
MCArguments == {Arg(NoName, 0, 0, NoName), Arg(<<"s1">>, 7, 0, "backend_pingd"),
                Arg(NoName, -1, 7, "backend_none")}
MCDirectories ==
  {[builddir |-> {}, moduledir |-> {}],
   [builddir |-> {"backend_pingd"},
    moduledir |-> {"backend_cerebro", "backend_other", "clusterlist_hostsfile", "config_chaos"}],
   [builddir |-> {"backend_ganglia"}, moduledir |-> {"backend_other", "clusterlist_other", "config_site"}]}
MCLacks ==
  [f \in BackendFiles \cup ClusterlistFiles \cup ConfigFiles |->
    CASE f = "backend_pingd" -> {"get_nodename", "load_config"}
      [] f = "clusterlist_hostsfile" -> {"get_updown_data"}
      [] f = "clusterlist_other" -> {"get_nodename"}
      [] OTHER -> {}]
MCConfigModules ==
  [f \in {"config_chaos", "config_site"} |->
    IF f = "config_chaos"
    THEN {NoConfig, [hostnames |-> << <<"m">> >>, port |-> 3, timeout_len |-> 0, flags |-> {"hostnames", "port"}]}
    ELSE {[NoConfig EXCEPT !.timeout_len = 4, !.flags = {"timeout_len"}],
          [NoConfig EXCEPT !.flags = {"port", "hostnames"}]}]
Backend(p, t, c) == [port |-> p, timeout_len |-> t, clusterlist |-> c, hostname |-> <<"me">>]
MCBackendDefaults ==
  [f \in {"backend_cerebro", "backend_ganglia", "backend_pingd", "backend_other"} |->
    CASE f = "backend_cerebro" -> Backend(8, 0, NoName)
      [] f = "backend_other" -> Backend(0, -1, "clusterlist_hostsfile")
      [] OTHER -> Backend(6, 60, NoName)]
=============================================================================
