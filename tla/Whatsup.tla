------------------------------- MODULE Whatsup -------------------------------
(***************************************************************************)
(* whatsup/whatsup.c: the command.  It loads the options modules found in  *)
(* its directories, parses a command line their options are part of, and   *)
(* then reports the state of the cluster once, logs its changes poll by    *)
(* poll, or leaves the program to the monitor function of a module         *)
(* (whatsup_options_cerebro_monitor.c).                                    *)
(*                                                                         *)
(* libnodeupdown answers each load with some snapshot or an error; what an *)
(* options module answers is a choice of the module: a function that gets  *)
(* names may repeat them, one that converts them may give two nodes the    *)
(* same name, listed once or twice, but neither loses nor invents a node.  *)
(***************************************************************************)
EXTENDS Integers, Sequences, FiniteSets, SequencesExt

CONSTANTS
  Nodes,            \* names that may be listed or reported
  Dirs,             \* module files found, in the order of the directories
  CommandLines,     \* opts: options with long, whether it is given by its long
                    \*   name, and ok, whether the argument is valid;
                    \*   nodes: the rest, Null when there is none
  GetLists,         \* what a get_nodenames function may return; <<>> is a string
                    \*   that is not a list of nodes
  Conversions,      \* the names a convert_nodenames function may give the nodes
  Builtin,          \* letters of whatsup's own options
  OwnLongs,         \* those with a long name, in the order of loptions
  OptionsLen,       \* WHATSUP_OPTIONS_LEN, in letters
  LongOptionsLen,   \* WHATSUP_LONG_OPTIONS_LEN
  MaxPolls,         \* bound on the polls of the log mode
  Null

IsSeq(s) == s \in Seq(ToSet(s))

ASSUME NodesAssumption == IsFiniteSet(Nodes)

ASSUME ModulesAssumption ==
  \A d \in Dirs : IsSeq(d) /\ \A f \in DOMAIN d : IsSeq(d[f].options)

(* The nodes of a command line and those a module gives may repeat.        *)
ASSUME NamesAssumption ==
  /\ \A line \in CommandLines : line.nodes # Null => line.nodes.names \in Seq(Nodes)
  /\ GetLists \subseteq Seq(Nodes)
  /\ \A c \in Conversions : c = [n \in Nodes |-> c[n]]

VARIABLES
  pc,
  dir,              \* the files of this run
  found,            \* the file that readdir returns next
  held,             \* state of each: closed, open, ready (set up)
  modules_list,     \* loaded: file, watch, processed
  monitor_option_exists,
  longs,            \* letters that have a long name in loptions
  args, conf,       \* options still to parse; what was set
  nodes,            \* the rest of the command line
  inputted_nodes,
  snapshot,         \* of the last load
  lists,            \* up_nodes, down_nodes: the names, by what conversion they
                    \*   were made, and whether it merged equal names
  out,              \* what was printed
  polled, polls,    \* upnodes, downnodes of the log mode; loads so far
  first, told,      \* the first snapshot of the log and the last line of each
  status            \* of the process

modvars == <<dir, found, held, modules_list, monitor_option_exists, longs>>
cmdvars == <<args, conf, nodes, inputted_nodes>>
logvars == <<polled, polls, first, told>>
outvars == <<lists, out>>
vars == <<pc, modvars, cmdvars, snapshot, outvars, logvars, status>>

Exit(n) == pc' = "exited" /\ status' = n
Goto(label) == pc' = label /\ UNCHANGED status

Snapshots == {s \in [up : SUBSET Nodes, down : SUBSET Nodes] : s.up \cap s.down = {}}

Init ==
  /\ pc = "modules"
  /\ dir \in Dirs /\ found = 1 /\ held = [f \in DOMAIN dir |-> "closed"]
  /\ modules_list = <<>> /\ monitor_option_exists = 0 /\ longs = ToSet(OwnLongs)
  /\ \E line \in CommandLines : args = line.opts /\ nodes = line.nodes
  /\ conf = [updown |-> "both", count_only |-> FALSE, last_up_time |-> FALSE,
             log_mode |-> FALSE, log_file |-> FALSE]
  /\ inputted_nodes = <<>> /\ snapshot = Null
  /\ lists = Null /\ out = Null
  /\ polled = Null /\ polls = 0 /\ first = Null /\ told = [n \in Nodes |-> "nothing"]
  /\ status = Null
-----------------------------------------------------------------------------
(* Options modules.                                                        *)

Types == {"GET", "CONVERT", "MONITOR"}

Typed(m) == \A n \in DOMAIN m.options : m.options[n].type \in Types

(* Counted while the types are looked at, before the module is accepted.   *)
MonitorOptions(m) ==
  LET bad == SelectInSeq(m.options, LAMBDA o : o.type \notin Types)
      seen == IF bad = 0 THEN m.options ELSE SubSeq(m.options, 1, bad - 1)
  IN  Len(SelectSeq(seen, LAMBDA o : o.type = "MONITOR"))

Loaded(name) == \E n \in DOMAIN modules_list : dir[modules_list[n].file].name = name

Accepted(m) == m.valid /\ Typed(m) /\ ~Loaded(m.name) /\ m.setup

(* _load_options_module: what is left of a file that was opened.           *)
AfterLoad_Leaked(m) ==                                         \* mutant
  IF Accepted(m) THEN "ready" ELSE IF Loaded(m.name) THEN "open" ELSE "closed"
AfterLoad(m) == IF Accepted(m) THEN "ready" ELSE "closed"

_load_options_module ==
  LET m == dir[found]
  IN  /\ pc = "modules" /\ found <= Len(dir)
      /\ found' = found + 1
      /\ IF ~m.opens THEN UNCHANGED <<held, modules_list, monitor_option_exists>>
         ELSE /\ held' = [held EXCEPT ![found] = AfterLoad(m)]
              /\ monitor_option_exists' =
                   monitor_option_exists + (IF m.valid THEN MonitorOptions(m) ELSE 0)
              /\ modules_list' =
                   IF Accepted(m)
                   THEN Append(modules_list, [file |-> found, watch |-> {}, processed |-> {}])
                   ELSE modules_list
      /\ UNCHANGED <<pc, dir, longs, cmdvars, snapshot, outvars, logvars, status>>

(* The options of the modules join those of whatsup, each letter once, as  *)
(* long as there is room: the letters that came before an option are all   *)
(* taken if they fit.                                                      *)
Option(n, k) == dir[modules_list[n].file].options[k]
Options(n) == Len(dir[modules_list[n].file].options)
Letters(n, len) == {Option(n, k).letter : k \in 1..len}

Earlier(n, k) ==
  Builtin \cup UNION {Letters(j, Options(j)) : j \in 1..n - 1} \cup Letters(n, k - 1)

New(n) == {k \in 1..Options(n) : Option(n, k).letter \notin Earlier(n, k)}

(* A long name goes to the end of loptions, which loptions_len puts one    *)
(* entry too early: the first of them replaces the last of whatsup's own.  *)
LongStart == Len(OwnLongs) - 1

LongBefore(n, k) ==
  UNION {{<<j, i>> : i \in {i \in New(j) : Option(j, i).long /\ (j < n \/ i < k)}} : j \in 1..n}

Room(n, k) ==
  /\ Cardinality(Earlier(n, k)) < OptionsLen - 1
  /\ LongStart + Cardinality(LongBefore(n, k)) < LongOptionsLen

Taken(n) == {k \in New(n) : Room(n, k)}
Watch(n) == {Option(n, k).letter : k \in Taken(n)}

LongNames ==
  LET added == UNION {{Option(n, k).letter : k \in {k \in Taken(n) : Option(n, k).long}} :
                        n \in DOMAIN modules_list}
  IN  added \cup ToSet(IF added = {} THEN OwnLongs ELSE SubSeq(OwnLongs, 1, LongStart))

LoadOptionArguments ==
  /\ pc = "modules" /\ found > Len(dir)
  /\ modules_list' = [n \in 1..Len(modules_list) |->
                        [modules_list[n] EXCEPT !.watch = Watch(n)]]
  /\ longs' = LongNames
  /\ Goto("getopt")
  /\ UNCHANGED <<dir, found, held, monitor_option_exists, cmdvars, snapshot, outvars, logvars>>

(* The functions of the modules for a type whose option was used are asked *)
(* in turn until one succeeds.                                             *)
Asked(type) ==
  \E n \in DOMAIN modules_list :
    LET m == dir[modules_list[n].file]
    IN  type \in m.functions /\ \E k \in DOMAIN m.options :
          m.options[k].type = type /\ m.options[k].letter \in modules_list[n].processed
-----------------------------------------------------------------------------
(* _cmdline_parse, an option at a time.                                    *)

Owner(letter) == SelectInSeq(modules_list, LAMBDA x : letter \in x.watch)

(* getopt_long returns the letter of an option it has in one of its lists. *)
Known(o) == IF o.long THEN o.letter \in longs
            ELSE o.letter \in Builtin \/ Owner(o.letter) > 0

Set(o) ==
  CASE o.letter = "b" -> [conf EXCEPT !.updown = "both"]
    [] o.letter = "u" -> [conf EXCEPT !.updown = "up"]
    [] o.letter = "d" -> [conf EXCEPT !.updown = "down"]
    [] o.letter = "t" -> [conf EXCEPT !.count_only = TRUE]
    [] o.letter = "r" -> [conf EXCEPT !.last_up_time = TRUE]
    [] o.letter = "l" -> [conf EXCEPT !.log_mode = TRUE]
    [] o.letter = "f" -> [conf EXCEPT !.log_file = TRUE]
    [] OTHER -> conf

BuiltinOption ==
  /\ pc = "getopt" /\ args # <<>> /\ Known(Head(args)) /\ Head(args).letter \in Builtin
  /\ args' = Tail(args)
  /\ IF Head(args).letter \in {"h", "v"} \/ ~Head(args).ok
     THEN Exit(1) /\ UNCHANGED conf
     ELSE conf' = Set(Head(args)) /\ UNCHANGED <<pc, status>>
  /\ UNCHANGED <<modvars, nodes, inputted_nodes, snapshot, outvars, logvars>>

ModuleOption ==
  /\ pc = "getopt" /\ args # <<>> /\ Known(Head(args)) /\ Owner(Head(args).letter) > 0
  /\ args' = Tail(args)
  /\ \/ /\ modules_list' =
             [modules_list EXCEPT ![Owner(Head(args).letter)].processed = @ \cup {Head(args).letter}]
        /\ UNCHANGED <<pc, status>>
     \/ Exit(1) /\ UNCHANGED modules_list          \* process_option failure
  /\ UNCHANGED <<dir, found, held, monitor_option_exists, longs, conf, nodes, inputted_nodes,
                 snapshot, outvars, logvars>>

UnknownOption ==
  /\ pc = "getopt" /\ args # <<>> /\ ~Known(Head(args))
  /\ Exit(1)
  /\ UNCHANGED <<modvars, cmdvars, snapshot, outvars, logvars>>

(* Nodes of the command line or of standard input, without duplicates.     *)
Unique_Kept(names) == names                                    \* mutant
Unique(names) == SetToSeq(ToSet(names))

NodesGiven ==
  /\ pc = "getopt" /\ args = <<>> /\ nodes # Null /\ nodes.ok
  /\ \/ inputted_nodes' = Unique(nodes.names) /\ Goto("monitor")
     \/ nodes.stdin /\ Exit(1) /\ UNCHANGED inputted_nodes       \* read error, overflow
  /\ UNCHANGED <<modvars, args, conf, nodes, snapshot, outvars, logvars>>

NodesImproper ==
  /\ pc = "getopt" /\ args = <<>> /\ nodes # Null /\ ~nodes.ok
  /\ Exit(1)
  /\ UNCHANGED <<modvars, cmdvars, snapshot, outvars, logvars>>

(* Those of a module are pushed as they are; hostlist_push counts them.    *)
NodesOfModules ==
  /\ pc = "getopt" /\ args = <<>> /\ nodes = Null
  /\ \/ inputted_nodes' = <<>> /\ Goto("monitor")              \* nobody answered
     \/ /\ Asked("GET")
        /\ inputted_nodes' \in GetLists
        /\ IF inputted_nodes' = <<>> THEN Exit(1) ELSE Goto("monitor")
  /\ UNCHANGED <<modvars, args, conf, nodes, snapshot, outvars, logvars>>
-----------------------------------------------------------------------------
(* Monitor mode.  The iterator of modules_list exists only when a module   *)
(* was loaded.                                                             *)
Mode == IF conf.log_mode THEN "open" ELSE "load"

EnterMonitor ==
  /\ pc = "monitor"
  /\ IF monitor_option_exists > 0 /\ modules_list = <<>> THEN Exit("aborted")
     ELSE Goto(IF monitor_option_exists > 0 /\ Asked("MONITOR") THEN "monitoring" ELSE Mode)
  /\ UNCHANGED <<modvars, cmdvars, snapshot, outvars, logvars>>

(* An event of cerebro that is an int is a line.                           *)
MonitorEvent(n, state) ==
  /\ pc = "monitoring"
  /\ told' = [told EXCEPT ![n] = state]
  /\ UNCHANGED <<pc, modvars, cmdvars, snapshot, outvars, polled, polls, first, status>>

MonitorFails ==
  /\ pc = "monitoring" /\ Exit(1)
  /\ UNCHANGED <<modvars, cmdvars, snapshot, outvars, logvars>>
MonitorReturns ==
  /\ pc = "monitoring" /\ Goto(Mode)
  /\ UNCHANGED <<modvars, cmdvars, snapshot, outvars, logvars>>

-----------------------------------------------------------------------------
(* nodeupdown_load_data, of either mode.                                   *)
LoadFails ==
  /\ pc = "load" /\ Exit(1)
  /\ UNCHANGED <<modvars, cmdvars, snapshot, outvars, logvars>>

LoadData ==
  /\ pc = "load" /\ polls < MaxPolls
  /\ snapshot' \in Snapshots
  /\ polls' = polls + 1
  /\ Goto(IF conf.log_mode THEN "log" ELSE "get")
  /\ UNCHANGED <<modvars, cmdvars, outvars, polled, first, told>>

(* _get_nodes, once for the nodes up and once for those down.              *)
(* _get_input_nodes pushes the names that are in that state, one by one.   *)
Push(hl, node, there) == IF node \in there THEN Append(hl, node) ELSE hl
Pushed(names, there) ==
  LET hl[k \in 0..Len(names)] ==
        IF k = 0 THEN <<>> ELSE Push(hl[k - 1], names[k], there)
  IN  hl[Len(names)]

Selected(state) ==
  IF inputted_nodes = <<>> THEN SetToSeq(snapshot[state])
  ELSE Pushed(inputted_nodes, snapshot[state])

Unknown == ToSet(inputted_nodes) \ (snapshot.up \cup snapshot.down)

(* The options module renames the nodes of the buffer, which the rest of   *)
(* the program reads.                                                      *)
Same == [n \in Nodes |-> n]
Renamed(names, c) == [k \in DOMAIN names |-> c[names[k]]]
Converted(names, c, merged) ==
  IF merged THEN Unique(Renamed(names, c)) ELSE Renamed(names, c)

Buffers(names) ==
  {[names |-> names, by |-> Same, merged |-> FALSE]} \cup
  IF Asked("CONVERT")
  THEN {[names |-> Converted(names, c, merged), by |-> c, merged |-> merged] :
          c \in Conversions, merged \in BOOLEAN}
  ELSE {}

GetNodes ==
  /\ pc = "get"
  /\ IF Unknown # {} THEN Exit(1) /\ UNCHANGED lists
     ELSE /\ \E u \in Buffers(Selected("up")), d \in Buffers(Selected("down")) :
               lists' = [up |-> u, down |-> d]
          /\ Goto("output")
  /\ UNCHANGED <<modvars, cmdvars, snapshot, out, logvars>>

(* No memory, an error of libnodeupdown, or names too long for a buffer,   *)
(* converted or not.                                                       *)
GetFails ==
  /\ pc = "get" /\ Exit(1)
  /\ UNCHANGED <<modvars, cmdvars, snapshot, outvars, logvars>>

(* The last times are of both lists.                                       *)
Printed ==
  IF conf.last_up_time THEN {"up", "down"}
  ELSE IF conf.updown = "both" THEN {"up", "down"} ELSE {conf.updown}

ExitVal ==
  IF \/ conf.updown = "up" /\ lists.down.names # <<>>
     \/ conf.updown = "down" /\ lists.up.names # <<>>
  THEN 1 ELSE 0

(* The backend may have no last times; names written out one by one may be *)
(* too long.  What was printed before is no answer.                        *)
OutputFails ==
  /\ pc = "output" /\ (conf.last_up_time \/ ~conf.count_only)
  /\ \E s \in Printed : lists[s].names # <<>>
  /\ Exit(1)
  /\ UNCHANGED <<modvars, cmdvars, snapshot, outvars, logvars>>

_output_mode ==
  /\ pc = "output"
  /\ out' = [s \in Printed |->
               IF conf.count_only /\ ~conf.last_up_time
               THEN [count |-> Len(lists[s].names)] ELSE [list |-> lists[s].names]]
  /\ pc' = "unload" /\ status' = ExitVal
  /\ UNCHANGED <<modvars, cmdvars, snapshot, lists, logvars>>

_unload_options_modules ==
  /\ pc = "unload"
  /\ held' = [f \in DOMAIN dir |->
                IF \E n \in DOMAIN modules_list : modules_list[n].file = f
                THEN "closed" ELSE held[f]]
  /\ modules_list' = <<>>
  /\ pc' = "exited"
  /\ UNCHANGED <<dir, found, monitor_option_exists, longs, cmdvars, snapshot, outvars, logvars, status>>
-----------------------------------------------------------------------------
(* _log_mode                                                               *)
OpenLog ==
  /\ pc = "open"
  /\ \/ Goto("load")
     \/ conf.log_file /\ Exit(1)
  /\ UNCHANGED <<modvars, cmdvars, snapshot, outvars, logvars>>

(* A line for each node that was not in the list of the same state before. *)
Lines ==
  SetToSeq({<<n, "up">> : n \in snapshot.up \ polled.up})
  \o SetToSeq({<<n, "down">> : n \in snapshot.down \ polled.down})

Write(lines) == [n \in Nodes |-> LET k == SelectLastInSeq(lines, LAMBDA l : l[1] = n)
                                 IN  IF k = 0 THEN told[n] ELSE lines[k][2]]

NewLists_First == IF polls = 1 THEN snapshot ELSE polled       \* mutant
NewLists == snapshot

FirstPoll ==
  /\ pc = "log" /\ polled = Null
  /\ polled' = NewLists /\ first' = snapshot
  /\ told' = [n \in Nodes |-> "nothing"]
  /\ Goto("sleep")
  /\ UNCHANGED <<modvars, cmdvars, snapshot, outvars, polls>>

LogChanges ==
  /\ pc = "log" /\ polled # Null
  /\ told' = Write(Lines) /\ polled' = NewLists
  /\ Goto("sleep")
  /\ UNCHANGED <<modvars, cmdvars, snapshot, outvars, polls, first>>

(* A line that cannot be written ends the program.                         *)
LogFails ==
  /\ pc = "log" /\ polled # Null /\ conf.log_file
  /\ \E k \in 0..Len(Lines) - 1 : told' = Write(SubSeq(Lines, 1, k))
  /\ Exit(1)
  /\ UNCHANGED <<modvars, cmdvars, snapshot, outvars, polled, polls, first>>

Sleep ==
  /\ pc = "sleep"
  /\ Goto("load")
  /\ UNCHANGED <<modvars, cmdvars, snapshot, outvars, logvars>>

Next ==
  \/ _load_options_module \/ LoadOptionArguments
  \/ BuiltinOption \/ ModuleOption \/ UnknownOption
  \/ NodesGiven \/ NodesImproper \/ NodesOfModules
  \/ EnterMonitor \/ MonitorFails \/ MonitorReturns
  \/ \E n \in Nodes, state \in {"up", "down"} : MonitorEvent(n, state)
  \/ LoadFails \/ LoadData \/ GetNodes \/ GetFails \/ OutputFails \/ _output_mode
  \/ _unload_options_modules
  \/ OpenLog \/ FirstPoll \/ LogChanges \/ LogFails \/ Sleep

Spec == Init /\ [][Next]_vars
-----------------------------------------------------------------------------
(* The program ended without an error.                                     *)
Answered == pc = "exited" /\ out # Null

(* The nodes asked for, as they were named, or else all of the cluster;    *)
(* and how often the nodes in a state are named: once each, but as often   *)
(* as a module named them.                                                 *)
AskedFor ==
  LET names == IF nodes # Null THEN nodes.names ELSE inputted_nodes
  IN  IF names = <<>> THEN snapshot.up \cup snapshot.down ELSE ToSet(names)

Times(s) ==
  IF nodes = Null /\ inputted_nodes # <<>>
  THEN Cardinality({k \in DOMAIN inputted_nodes : inputted_nodes[k] \in snapshot[s]})
  ELSE Cardinality(AskedFor \cap snapshot[s])

(* The exit value and the lists (whatsup.1, "The exit value of whatsup"):  *)
(* what is printed is the state, in one load, of all nodes asked for,      *)
(* under the names that the module which converts them gave them; nodes of *)
(* the command line count once, however they were repeated, converted      *)
(* names too unless the module merged them; and 0 says that no node that   *)
(* was asked for is in the other state.                                    *)
ExactAnswer ==
  Answered =>
    LET other == CASE conf.updown = "up" -> snapshot.down
                   [] conf.updown = "down" -> snapshot.up
                   [] OTHER -> {}
        called(s) == {lists[s].by[n] : n \in AskedFor \cap snapshot[s]}
        number(s) == IF lists[s].merged THEN Cardinality(called(s)) ELSE Times(s)
    IN  /\ AskedFor \subseteq snapshot.up \cup snapshot.down
        /\ \A s \in DOMAIN out :
             IF "count" \in DOMAIN out[s] THEN out[s].count = number(s)
             ELSE ToSet(out[s].list) = called(s) /\ Len(out[s].list) = number(s)
        /\ status = 0 <=> AskedFor \cap other = {}

(* Whoever saw the first snapshot and read the log knows the state of      *)
(* every node the last poll listed, also of one that was missing in        *)
(* between (whatsup.1, --log).                                             *)
LogReplays ==
  pc = "sleep" =>
    \A n \in snapshot.up \cup snapshot.down, s \in {"up", "down"} :
      n \in snapshot[s] <=>
        \/ told[n] = s
        \/ told[n] = "nothing" /\ n \in first[s]

(* A module in the list is set up and open and the others are closed, also *)
(* after a rejection; every option has one owner, and a module was told of *)
(* its own options only; in the end all are cleaned up and closed.         *)
ModulesHeld ==
  /\ DOMAIN held = DOMAIN dir
  /\ \A f \in DOMAIN dir :
       held[f] = IF \E n \in DOMAIN modules_list : modules_list[n].file = f
                 THEN "ready" ELSE "closed"
  /\ \A i \in DOMAIN modules_list :
       /\ modules_list[i].watch \cap Builtin = {}
       /\ modules_list[i].processed \subseteq modules_list[i].watch
       /\ \A j \in DOMAIN modules_list : i # j =>
            /\ dir[modules_list[i].file].name # dir[modules_list[j].file].name
            /\ modules_list[i].watch \cap modules_list[j].watch = {}
  /\ Answered => modules_list = <<>>
=============================================================================
