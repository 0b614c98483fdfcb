---------------------------- MODULE PingdConfig -----------------------------
(***************************************************************************)
(* pingd from its start to its loop: the command line, the configuration   *)
(* file (parsed by Conffile), the clusterlist modules that are asked for   *)
(* hosts when the file names none, and the daemon.  Any ERR_EXIT is "exit".*)
(*                                                                         *)
(* A host name is a sequence of symbols, "." one of them; what hostlist    *)
(* makes of a name is given by Ranges.  Memory does not run out.           *)
(***************************************************************************)
EXTENDS Conffile

CONSTANTS
  Builds,         \* "debug" and "ndebug": -c, -d and the build directory's ...
  Argvs,          \* command lines, the options in order
  Installs,       \* module files found in the build and the module directory
  HostsTexts,     \* what hostsfile_setup may find, NoHosts: nothing to open
  GendersDbs,     \* nodes of the genders database, NoHosts: it does not load
  Foreign,        \* what other modules answer, NoHosts: an error
  NoHosts,
  Ranges,         \* hostlist_create: words that are not one host of this name
  Quads,          \* names inet_aton accepts
  Defaults,       \* PINGD_PING_PERIOD_DEFAULT, ...
  PORT_MAX, MAXHOSTNAMELEN, HOSTSFILE_PARSE_BUFLEN

VARIABLES
  build,
  argv,       \* the options not looked at yet
  installed,
  conf,       \* struct pingd_config
  todo,       \* the module files to try
  ltdl,       \* lt_dlinit calls without their lt_dlexit
  from,       \* history: where hosts came from
  spoiled     \* history: a module gave a name that is no host

pvars == <<build, argv, installed, conf, todo, ltdl, from, spoiled>>

IsPingd == caller = "pingd"
KnownModules == <<"pingd_clusterlist_genders.so", "pingd_clusterlist_hostsfile.so">>

(* _config_default *)
ConfigDefault ==
  [debug |-> 0, config_file |-> "default", hosts |-> <<>>,
   ping_period |-> Defaults.ping_period,
   pingd_server_port |-> Defaults.pingd_server_port,
   ping_socket_receive_buffer |-> Defaults.ping_socket_receive_buffer]

PingdInit ==
  /\ build \in ForCaller("pingd", Builds)
  /\ argv \in ForCaller("pingd", Argvs)
  /\ installed \in ForCaller("pingd", Installs)
  /\ conf = ConfigDefault
  /\ todo = <<>> /\ ltdl = 0 /\ from = {} /\ spoiled = FALSE

Exit ==
  /\ pc' = "exit"
  /\ UNCHANGED <<caller, cf, unread, linebuf, counts, data, written, delivered,
                 build, installed, todo, from, spoiled>>

Goto(next) ==
  /\ pc' = next
  /\ UNCHANGED <<caller, cf, unread, linebuf, counts, data, written, delivered>>

(* _cmdline_parse, one option. *)
CmdlineParse ==
  /\ IsPingd /\ pc = "cmdline" /\ argv # <<>>
  /\ argv' = Tail(argv)
  /\ LET debug == build = "debug"
         c == Head(argv).option
     IN  \/ /\ c \notin (IF debug THEN {"c", "d"} ELSE {})  \* h, v or unknown
            /\ Exit /\ UNCHANGED <<conf, ltdl>>
         \/ /\ debug /\ c = "c"
            /\ conf' = [conf EXCEPT !.config_file = Head(argv).optarg]
            /\ Goto("cmdline")
            /\ UNCHANGED <<build, installed, todo, ltdl, from, spoiled>>
         \/ /\ debug /\ c = "d"
            /\ conf' = [conf EXCEPT !.debug = @ + 1]
            /\ Goto("cmdline")
            /\ UNCHANGED <<build, installed, todo, ltdl, from, spoiled>>
-----------------------------------------------------------------------------
(* _config_file_parse, around and inside conffile_parse. *)
ConfigFileParse ==
  /\ IsPingd /\ pc = "cmdline" /\ argv = <<>>
  /\ \E found \in Files["pingd"] : Setup(found)
  /\ UNCHANGED pvars

(* hostlist_create: names separated by white space. *)
Words(name) ==
  LET ends == {k \in 1..Len(name) : k = Len(name) \/ name[k+1] = Space}
      word(k) == SubSeq(name, 1 + Max({0} \cup {j \in 1..k : name[j] = Space}), k)
  IN  SelectSeq([n \in 1..Cardinality(ends) |->
                   word(SetToSortSeq(ends, <)[n])], LAMBDA w : w # <<>>)

Hosts(name) ==
  LET of(w) == IF w \in DOMAIN Ranges THEN Ranges[w] ELSE <<w>>
      parts == [n \in DOMAIN Words(name) |-> of(Words(name)[n])]
  IN  IF <<>> \in ToSet(parts) THEN <<>> ELSE FlattenSeq(parts)

Short(name) ==
  SubSeq(name, 1, Min({Len(name)} \cup
                      {k - 1 : k \in {j \in 1..Len(name) : name[j] = "."}}))

(* _cb_host: a dotted quad stays as it is; a name that gives no host is    *)
(* fatal. *)
HostArg(name) == IF name \in Quads THEN name ELSE Short(name)

CbHost ==
  /\ IsPingd /\ pc = "callback" /\ options[data.option].name = <<"host">>
  /\ LET hosts == Hosts(HostArg(data.value[1]))
     IN  IF hosts = <<>> THEN Exit /\ UNCHANGED <<conf, ltdl, argv>>
         ELSE /\ conf' = [conf EXCEPT !.hosts = @ \o hosts]
              /\ from' = from \cup {"file"}
              /\ Return
              /\ UNCHANGED <<build, argv, installed, todo, ltdl, spoiled>>

(* conffile_int *)
CbInt ==
  /\ IsPingd /\ pc = "callback"
  /\ \E setting \in {"ping_period", "pingd_server_port",
                     "ping_socket_receive_buffer"} :
       /\ options[data.option].name = <<setting>>
       /\ conf' = [conf EXCEPT ![setting] = data.value[1]]
  /\ Return
  /\ UNCHANGED <<build, argv, installed, todo, ltdl, from, spoiled>>

(* Only the default file may be missing. *)
ConfigFileFailed ==
  /\ IsPingd /\ pc = "failed"
  /\ IF conf.config_file = "default" /\ cf.errnum = "exist"
     THEN Goto("modules") /\ UNCHANGED pvars
     ELSE Exit /\ UNCHANGED <<conf, ltdl, argv>>

PortMax == PORT_MAX

ConfigFileChecks ==
  /\ IsPingd /\ pc = "parsed"
  /\ IF \/ conf.ping_period <= 0
        \/ conf.pingd_server_port <= 0 \/ conf.pingd_server_port > PortMax
        \/ conf.ping_socket_receive_buffer < 0
     THEN Exit /\ UNCHANGED <<conf, ltdl, argv>>
     ELSE Goto("modules") /\ UNCHANGED pvars
-----------------------------------------------------------------------------
(* The clusterlist modules.  An answer is the nodes of get_nodes, an error *)
(* of setup or get_nodes, or the end of the daemon. *)
Answer(kind, nodes) == [kind |-> kind, nodes |-> nodes]

CutComment(line) ==
  SubSeq(line, 1, Min({Len(line)} \cup
                      {k - 1 : k \in {j \in 1..Len(line) : line[j] = Hash}}))

(* hostsfile_setup, one line. *)
HostsLine(answer, text) ==
  LET line == TrimLeft(TrimRight(CutComment(text))) IN
  IF answer.kind # "nodes" THEN answer
  ELSE IF Len(text) + 1 >= HOSTSFILE_PARSE_BUFLEN - 1 THEN Answer("error", <<>>)
  ELSE IF line = <<>> THEN answer
  ELSE IF Space \in ToSet(line) \/ Len(line) > MAXHOSTNAMELEN
       THEN Answer("exit", <<>>)
  ELSE Answer("nodes", Append(answer.nodes, Short(line)))

HostsfileGetNodes(text) ==
  IF text = NoHosts THEN Answer("exit", <<>>)
  ELSE FoldLeft(HostsLine, Answer("nodes", <<>>), text)

GendersGetNodes(db) ==
  IF db = NoHosts THEN Answer("error", <<>>) ELSE Answer("nodes", db)

(* A file that is not a module, or lacks a function, is an error as well. *)
Answers(file) ==
  {Answer("error", <<>>)} \cup
  (CASE file = "pingd_clusterlist_hostsfile.so" ->
          {HostsfileGetNodes(text) : text \in HostsTexts}
     [] file = "pingd_clusterlist_genders.so" ->
          {GendersGetNodes(db) : db \in GendersDbs}
     [] OTHER -> {GendersGetNodes(nodes) : nodes \in Foreign})

(* _load_nodes: the nodes are pushed until one is no host. *)
Pushed(nodes) ==
  SubSeq(nodes, 1, Min({Len(nodes)} \cup
                       {k - 1 : k \in {j \in DOMAIN nodes : Hosts(nodes[j]) = <<>>}}))

LoadNodes(answer, source) ==
  LET pushed == IF answer.kind = "nodes" THEN Pushed(answer.nodes) ELSE <<>>
  IN  /\ conf' = [conf EXCEPT !.hosts = @ \o FlattenSeq(
                    [k \in DOMAIN pushed |-> Hosts(pushed[k])])]
      /\ from' = IF pushed = <<>> THEN from ELSE from \cup {source}
      /\ spoiled' = (spoiled \/ pushed # answer.nodes)

(* _load_module: 0 if all of it was good. *)
Loaded(answer) == answer.kind = "nodes" /\ Pushed(answer.nodes) = answer.nodes

HostsKnown == conf.hosts # <<>>

(* _module_load: lt_dlinit, which may fail, and the files to try. *)
ModuleLoad ==
  /\ IsPingd /\ pc = "modules"
  /\ \/ Goto("hosts") /\ UNCHANGED pvars
     \/ /\ ~HostsKnown
        /\ ltdl' = ltdl + 1
        /\ todo' = (IF build = "debug"
                    THEN [k \in 1..2 |-> [dir |-> "builddir", file |-> KnownModules[k]]]
                    ELSE <<>>)
                   \o [k \in 1..2 |-> [dir |-> "moduledir", file |-> KnownModules[k]]]
        /\ Goto("known")
        /\ UNCHANGED <<build, argv, installed, conf, from, spoiled>>

ModulesEnd ==
  /\ ltdl' = ltdl - 1 /\ todo' = <<>>
  /\ Goto("hosts")

(* _load_builddir_modules, _load_known_modules, _load_unknown_modules: one *)
(* file. *)
LoadModule ==
  /\ IsPingd /\ pc \in {"known", "unknown"} /\ todo # <<>>
  /\ LET m == Head(todo) IN
     IF m.file \notin installed[m.dir]            \* stat
     THEN /\ todo' = Tail(todo) /\ Goto(pc)
          /\ UNCHANGED <<build, argv, installed, conf, ltdl, from, spoiled>>
     ELSE \E answer \in Answers(m.file) :
       \/ answer.kind = "exit" /\ Exit /\ UNCHANGED <<conf, ltdl, argv>>
       \/ /\ answer.kind # "exit"
          /\ LoadNodes(answer, m.file)
          /\ IF Loaded(answer) THEN ModulesEnd
             ELSE /\ todo' = Tail(todo) /\ Goto(pc) /\ UNCHANGED ltdl
          /\ UNCHANGED <<build, argv, installed>>

(* Known modules are in the directory too, and tried again. *)
OpenDir ==
  /\ IsPingd /\ pc = "known" /\ todo = <<>>
  /\ \/ Exit /\ UNCHANGED <<conf, ltdl, argv>>
     \/ /\ \E order \in SetToSeqs(installed["moduledir"]) :
             todo' = [k \in DOMAIN order |->
                        [dir |-> "moduledir", file |-> order[k]]]
        /\ Goto("unknown")
        /\ UNCHANGED <<build, argv, installed, conf, ltdl, from, spoiled>>

UnknownEnd ==
  /\ IsPingd /\ pc = "unknown" /\ todo = <<>>
  /\ ModulesEnd
  /\ UNCHANGED <<build, argv, installed, conf, from, spoiled>>

(* The end of pingd_config_setup. *)
ConfigSetupEnd ==
  /\ IsPingd /\ pc = "hosts"
  /\ IF conf.hosts = <<>> THEN Exit /\ UNCHANGED <<conf, ltdl, argv>>
     ELSE /\ conf' = [conf EXCEPT !.hosts = SetToSeq(ToSet(@))]  \* hostlist_uniq
          /\ Goto("configured")
          /\ UNCHANGED <<build, argv, installed, todo, ltdl, from, spoiled>>

(* main and _daemon_init: the parents exit, either fork may fail. *)
DaemonInit ==
  /\ IsPingd /\ pc = "configured"
  /\ \/ conf.debug = 0 /\ Exit /\ UNCHANGED <<conf, ltdl, argv>>
     \/ Goto("running") /\ UNCHANGED pvars

PingdStep ==
  \/ CmdlineParse \/ ConfigFileParse \/ CbHost \/ CbInt \/ ConfigFileFailed
  \/ ConfigFileChecks \/ ModuleLoad \/ LoadModule \/ OpenDir \/ UnknownEnd
  \/ ConfigSetupEnd \/ DaemonInit
-----------------------------------------------------------------------------
(* What was written for a setting, or its default. *)
Setting(name) ==
  LET ks == {k \in DOMAIN written : SameName(written[k].name, <<name>>)}
  IN  IF ks = {} THEN Defaults[name]
      ELSE IntVal(written[CHOOSE k \in ks : TRUE].args[1])

(* The loop starts with values it can work with, which are the ones of the *)
(* configuration file; with hosts, each once; and all of them from one     *)
(* source, the file before the modules, unless a module named something    *)
(* that is no host.  libltdl is closed by then. *)
PingdConfigured ==
  IsPingd /\ pc = "running" =>
    /\ conf.ping_period > 0 /\ conf.pingd_server_port \in 1..PORT_MAX
    /\ conf.ping_socket_receive_buffer >= 0
    /\ written # <<>> =>
         /\ \A s \in DOMAIN Defaults : conf[s] = Setting(s)
         /\ (\E e \in ToSet(written) : SameName(e.name, <<"host">>)) =>
              from = {"file"}
    /\ conf.hosts # <<>> /\ IsInjective(conf.hosts)
    /\ Cardinality(from) = 1 \/ spoiled
    /\ ltdl = 0
=============================================================================
