----------------------------- MODULE Nodeupdown -----------------------------
(***************************************************************************)
(* libnodeupdown: handles, the load of one handle, and the state that all  *)
(* the handles of a process share without knowing it: the modules loaded   *)
(* (nodeupdown_module.c keeps them in static variables), the list of the   *)
(* hostsfile clusterlist module, and libltdl's reference counts.           *)
(*                                                                         *)
(* The library is called by one thread, so a load is never interleaved     *)
(* with another call; it is still a sequence of steps here, because every  *)
(* one of them may fail and the failure undoes what was done so far.       *)
(* The backends are pingd's, ganglia's and cerebro's, the cluster list one *)
(* of the hostsfile module, the genders module or the built-in default.    *)
(* Memory does not run out.  The error number kept in a handle, which no   *)
(* function of the library reads but the one that returns it, is left out. *)
(***************************************************************************)
EXTENDS Integers, Sequences, FiniteSets, SequencesExt

CONSTANTS
  Handles,          \* handles the application may create
  Names,            \* node names, some with a domain
  Short,            \* the name of each without it
  Backends,         \* the backend modules a load may come to use
  Listers,          \* the clusterlist module there is, "default": none
  HostTags,         \* ganglia's HOST elements: what the attribute values are
  Targets,          \* server lists a load may be asked to try (hostnames)
  HostsFiles,       \* contents the hosts file or the genders database may
                    \* have, NoFile: missing
  MayEdit,          \* it may be edited while the process runs
  MayTruncate,      \* reading the hosts file may fail midway
  MayPassNull,      \* the application may call load_data with no handle
  MayList,          \* it uses a list of nodes
  NoFile, NoHandle, NoList

Nodes == {n \in Names : Short[n] = n}

ASSUME NodesAssumption ==
  IsFiniteSet(Handles) /\ NoHandle \notin Handles /\ IsFiniteSet(Names)
ASSUME ChoicesAssumption ==
  /\ {MayEdit, MayTruncate, MayPassNull, MayList} \subseteq BOOLEAN
  /\ Short \in [Names -> Nodes]
  /\ Backends \subseteq {"pingd", "ganglia", "cerebro"}
  /\ Listers \subseteq {"default", "hostsfile", "genders"}
  /\ HostsFiles \subseteq Seq(Nodes) \cup {NoFile} /\ NoFile \notin Seq(Nodes)

VARIABLES
  live,         \* handles created and not destroyed
  handle,       \* struct nodeupdown of each of them, and the history of its
                \* last load: mixed, it went on to another server with
                \* nodes of one that had failed
  ltdl_refs,    \* lt_dlinit calls not matched by an lt_dlexit
  dl_refs,      \* open lt_dlhandles of each module
  modules,      \* the static *_module_info pointers
  hosts,        \* the static list, or genders handle, of the clusterlist module
  cerebro_handle,   \* the static handle of the cerebro backend
  lister,       \* the clusterlist module that is installed
  file,         \* the hosts file or genders database
  nodelist,     \* the entries of the application's list of nodes
  pc,           \* where nodeupdown_load_data is
  cur,          \* its handle
  targets,      \* the servers it will try: the argument, the default, or ...
  listed,       \* ... the hostnames of a configuration
  i,            \* the loop counter over them
  said          \* names the server being read has reported

statics == <<hosts, cerebro_handle>>
shared == <<ltdl_refs, dl_refs, modules, statics>>
outside == <<lister, file, nodelist>>
call == <<cur, targets, listed, i, said>>
vars == <<live, handle, shared, outside, pc, call>>

None == [n \in Names |-> 0]                       \* an empty hostlist
hostlist_count(l) == SumFunction(l)
Push(l, n) == [l EXCEPT ![n] = @ + 1]             \* hostlist_push: a multiset
Discovered(rec, n) == rec.up_nodes[n] > 0 \/ rec.down_nodes[n] > 0

Files == Backends \cup (Listers \ {"default"})
NoModules == [backend |-> "none", clusterlist |-> "none", config |-> FALSE]
clusterlist_module_found == modules.clusterlist \in {"hostsfile", "genders"}

(* _initialize_handle *)
Initialized ==
  [load_state |-> "unloaded", ltdl_initialized |-> FALSE, up_nodes |-> None,
   down_nodes |-> None, last_up_times |-> {}, numnodes |-> 0,
   mixed |-> FALSE]

Init ==
  /\ live = {} /\ handle = [h \in Handles |-> Initialized]
  /\ ltdl_refs = 0 /\ dl_refs = [m \in Files |-> 0]
  /\ modules = NoModules /\ hosts = NoFile /\ cerebro_handle = "none"
  /\ lister \in Listers /\ file \in HostsFiles /\ nodelist = NoList
  /\ pc = "idle" /\ cur = NoHandle
  /\ targets = <<>> /\ listed = FALSE /\ i = 1 /\ said = {}

EndCall ==
  /\ pc' = "idle" /\ cur' = NoHandle
  /\ targets' = <<>> /\ listed' = FALSE /\ i' = 1 /\ said' = {}

(***************************************************************************)
(* _free_handle_data: clean up and close whatever modules the process has  *)
(* loaded, then give back this handle's reference to libltdl; the last     *)
(* reference closes every module left.                                     *)
(***************************************************************************)
LtdlHeld_Always(h) == TRUE                                     \* mutant
LtdlHeld(h) == handle[h].ltdl_initialized

BackendUnload(refs) ==
  [m \in Files |-> IF m = modules.backend THEN refs[m] - 1 ELSE refs[m]]
ClusterlistUnload(refs) ==
  [m \in Files |-> IF m = modules.clusterlist THEN refs[m] - 1 ELSE refs[m]]
Unloaded == ClusterlistUnload(BackendUnload(dl_refs))

HostsLeft_Kept == hosts                                        \* mutant
HostsLeft == IF clusterlist_module_found THEN NoFile ELSE hosts

(* cerebro_backend_cleanup destroys the handle and keeps the pointer to    *)
(* it, which is forgotten only when the module is unmapped. *)
CerebroHandleLeft(refs) ==
  IF "cerebro" \in Files /\ refs["cerebro"] = 0 THEN "none"
  ELSE IF modules.backend = "cerebro" /\ cerebro_handle = "open"
       THEN "destroyed" ELSE cerebro_handle

FreeHandleData(h) ==
  /\ handle' = [handle EXCEPT ![h] = Initialized]
  /\ modules' = NoModules /\ hosts' = HostsLeft
  /\ ltdl_refs' = IF LtdlHeld(h) THEN ltdl_refs - 1 ELSE ltdl_refs
  /\ dl_refs' = IF LtdlHeld(h) /\ ltdl_refs = 1 THEN [m \in Files |-> 0]
                ELSE Unloaded
  /\ cerebro_handle' = CerebroHandleLeft(dl_refs')

HandleCreate(h) ==
  /\ pc = "idle" /\ h \notin live
  /\ live' = live \cup {h}
  /\ handle' = [handle EXCEPT ![h] = Initialized]
  /\ UNCHANGED <<shared, outside, pc, call>>

HandleDestroy(h) ==
  /\ pc = "idle" /\ h \in live
  /\ live' = live \ {h}
  /\ FreeHandleData(h)
  /\ UNCHANGED <<outside, pc, call>>

(***************************************************************************)
(* nodeupdown_load_data, from its entry ...                                *)
(***************************************************************************)
LoadNull ==
  /\ MayPassNull /\ pc = "idle"
  /\ pc' = "crashed"               \* _free_handle_data dereferences handle
  /\ UNCHANGED <<live, handle, shared, outside, call>>

LoadLoaded(h) ==
  /\ pc = "idle" /\ h \in live /\ handle[h].load_state = "loaded"
  /\ FreeHandleData(h)
  /\ UNCHANGED <<live, outside, pc, call>>

LoadCall(h) ==
  /\ pc = "idle" /\ h \in live /\ handle[h].load_state = "unloaded"
  /\ \E ts \in Targets, l \in BOOLEAN :
       /\ l \/ Len(ts) = 1
       /\ targets' = ts /\ listed' = l
  /\ pc' = "init" /\ cur' = h
  /\ UNCHANGED <<live, handle, shared, outside, i, said>>

(* "goto cleanup" *)
Fail ==
  /\ FreeHandleData(cur)
  /\ EndCall
  /\ UNCHANGED <<live, outside>>

LtDlInit ==
  /\ pc = "init"
  /\ \/ Fail
     \/ /\ ltdl_refs' = ltdl_refs + 1
        /\ handle' = [handle EXCEPT ![cur].ltdl_initialized = TRUE]
        /\ pc' = "backend"
        /\ UNCHANGED <<live, dl_refs, modules, statics, outside, call>>

(* _read_conffile, then backend_module_load and backend_module_setup;      *)
(* which module it is depends on the argument and on the files there are   *)
(* (the module NodeupdownConfig).  Only cerebro has anything to set up.    *)
LoadBackend ==
  /\ pc = "backend"
  /\ \/ Fail
     \/ \E b \in Backends :
          /\ modules' = [modules EXCEPT !.backend = b]
          /\ dl_refs' = [dl_refs EXCEPT ![b] = @ + 1]
          /\ cerebro_handle' = IF b = "cerebro" /\ cerebro_handle = "none"
                               THEN "open" ELSE cerebro_handle
          /\ pc' = "clusterlist"
          /\ UNCHANGED <<live, handle, ltdl_refs, hosts, outside, call>>

LoadClusterlist ==
  /\ pc = "clusterlist"
  /\ pc' = "setup"
  /\ modules' = [modules EXCEPT !.clusterlist = lister]
  /\ dl_refs' = IF lister = "default" THEN dl_refs
                ELSE [dl_refs EXCEPT ![lister] = @ + 1]
  /\ UNCHANGED <<live, handle, ltdl_refs, statics, outside, call>>

(* hostsfile_clusterlist_setup: a missing file is no nodes, a line that    *)
(* cannot be read is the end of the file.  genders_util_setup: the         *)
(* database keeps a node once; the handle of a setup before is overwritten.*)
HostsfileSetup ==
  IF file = NoFile THEN {<<>>}
  ELSE {SubSeq(file, 1, n) : n \in IF MayTruncate THEN 0..Len(file)
                                   ELSE {Len(file)}}
GendersSetup == IF file = NoFile THEN {} ELSE {SetToSeq(ToSet(file))}

(* A file that cannot be opened or parsed is an error, a missing one only  *)
(* to genders. *)
SetupClusterlist ==
  /\ pc = "setup"
  /\ \/ /\ clusterlist_module_found
        /\ file # NoFile \/ lister = "genders"
        /\ Fail
     \/ /\ pc' = "config"
        /\ hosts' \in CASE modules.clusterlist = "hostsfile" -> HostsfileSetup
                       [] modules.clusterlist = "genders" -> GendersSetup
                       [] OTHER -> {hosts}
        /\ UNCHANGED <<live, handle, ltdl_refs, dl_refs, modules,
                       cerebro_handle, outside, call>>

(* The config module, then the port and the timeout; see NodeupdownConfig. *)
LoadConfig ==
  /\ pc = "config"
  /\ \/ Fail
     \/ /\ modules' = [modules EXCEPT !.config = TRUE]
        /\ handle' = [handle EXCEPT ![cur].load_state = "setup"]
        /\ pc' = "connect"
        /\ UNCHANGED <<live, ltdl_refs, dl_refs, statics, outside, call>>

(***************************************************************************)
(* ... over the servers to try: the backend's get_updown_data ...          *)
(***************************************************************************)
NextTarget_Same == i                                           \* mutant
NextTarget == i + 1

(* The next server is tried over what the handle has by now.               *)
GoneOn(rec) ==
  [rec EXCEPT !.mixed = @ \/ \E n \in Names : Discovered(rec, n)]

AttemptFails(rec) ==
  IF listed
  THEN /\ i' = NextTarget /\ pc' = "connect" /\ said' = {}
       /\ handle' = [handle EXCEPT ![cur] = GoneOn(rec)]
       /\ UNCHANGED <<live, shared, outside, cur, targets, listed>>
  ELSE Fail

NoServerLeft ==
  /\ pc = "connect" /\ i > Len(targets)
  /\ Fail

(* A destroyed cerebro handle: libcerebro knows it by its magic, if the    *)
(* memory is still as it was. *)
Dangling == modules.backend = "cerebro" /\ cerebro_handle = "destroyed"

(* _low_timeout_connect, or cerebro_get_metric_data, which connects and    *)
(* reads at once. *)
Connect ==
  /\ pc = "connect" /\ i <= Len(targets)
  /\ \/ AttemptFails(handle[cur])
     \/ /\ ~Dangling /\ pc' = "read"
        /\ UNCHANGED <<live, handle, shared, outside, call>>

(* Or the memory is not as it was: for the connection, or for the cleanup  *)
(* of a load that failed before. *)
UseAfterFree ==
  /\ Dangling /\ pc # "idle" /\ pc' = "crashed"
  /\ UNCHANGED <<live, handle, shared, outside, call>>

(* _add_node: nodes outside the cluster are ignored, the others listed by  *)
(* the name the cluster list has for them. *)
HostsfileIsNode(n) == hosts # <<>> => Short[n] \in ToSet(hosts)
GendersIsNode(n) == Short[n] \in ToSet(hosts)

InCluster_Always(n) == TRUE                                    \* mutant
InCluster(n) ==
  CASE modules.clusterlist = "hostsfile" -> HostsfileIsNode(n)
    [] modules.clusterlist = "genders" -> GendersIsNode(n)
    [] OTHER -> TRUE

Shortened(n) == Short[n]
GetNodename(n) == IF clusterlist_module_found THEN Shortened(n) ELSE n

AddNode(rec, n, up) ==
  IF ~InCluster(n) THEN rec
  ELSE IF up THEN [rec EXCEPT !.up_nodes = Push(@, GetNodename(n))]
  ELSE [rec EXCEPT !.down_nodes = Push(@, GetNodename(n))]

(* A server reports a host once, by one of its names. *)
Unsaid == {n \in Names : \A m \in said : Short[m] # Short[n]}

Report(n, up) ==
  /\ said' = said \cup {n}
  /\ handle' = [handle EXCEPT ![cur] = AddNode(@, n, up)]
  /\ UNCHANGED <<live, shared, outside, pc, cur, targets, listed, i>>

(* pingd_backend_get_updown_data, one line: the stamp is recent or not.    *)
ReadLine ==
  /\ pc = "read" /\ modules.backend = "pingd"
  /\ \E n \in Unsaid, up \in BOOLEAN : Report(n, up)

(* ganglia's _xml_parse_start, one HOST element.  tag[1] to tag[4] are the *)
(* values of its attributes, "nil" if atol makes 0 of them. *)
Reported(tag) == IF tag[3] # "nil" THEN tag[3] ELSE tag[4]

ReadHost ==
  /\ pc = "read" /\ modules.backend = "ganglia"
  /\ \E n \in Unsaid, tag \in HostTags :
       IF Len(tag) < 3 \/ (tag[3] = "nil" /\ Len(tag) < 4)
       THEN AttemptFails(handle[cur])
       ELSE Report(n, Reported(tag) = "recent")

(* cerebro_backend_get_updown_data, one node: the time it was last up is   *)
(* kept by the name reported, in the cluster or not, and only once.        *)
AddLastUpTime(rec, n) == [rec EXCEPT !.last_up_times = @ \cup {n}]

ReadMetric ==
  /\ pc = "read" /\ modules.backend = "cerebro"
  /\ \E n \in Unsaid, up \in BOOLEAN :
       LET rec == AddNode(handle[cur], n, up) IN
       \/ /\ n \notin rec.last_up_times
          /\ said' = said \cup {n}
          /\ handle' = [handle EXCEPT ![cur] = AddLastUpTime(rec, n)]
          /\ UNCHANGED <<live, shared, outside, pc, cur, targets, listed, i>>
       \/ n \in rec.last_up_times /\ AttemptFails(rec)

ReadError ==
  /\ pc = "read"
  /\ AttemptFails(handle[cur])

(* The end of the response is success.  pingd's may also be that of a      *)
(* server that died; ganglia's is an error then, for the document lacks    *)
(* its end. *)
ReadEOF ==
  /\ pc = "read"
  /\ pc' = "compare"
  /\ UNCHANGED <<live, handle, shared, outside, call>>

ReadStep == ReadLine \/ ReadHost \/ ReadMetric \/ ReadError \/ ReadEOF

(***************************************************************************)
(* ... to the comparison with the cluster list, where a node nobody        *)
(* reported is down.                                                       *)
(***************************************************************************)
(* nodeupdown_not_discovered_check, for every node of the cluster list: it  *)
(* goes through nodeupdown_add_down_node, which takes the node, by the same *)
(* name, since it comes from the cluster list, and a second time finds it.  *)
NotDiscovered(rec) == {n \in ToSet(hosts) : ~Discovered(rec, n)}

CompareToClusterlist(rec) ==
  IF ~clusterlist_module_found THEN rec
  ELSE [rec EXCEPT !.down_nodes = [n \in Names |->
         IF n \in NotDiscovered(rec) THEN 1 ELSE rec.down_nodes[n]]]

NumNodes(rec) ==
  IF clusterlist_module_found THEN Len(hosts)
  ELSE hostlist_count(rec.up_nodes) + hostlist_count(rec.down_nodes)

Compare ==
  /\ pc = "compare"
  /\ LET rec == CompareToClusterlist(handle[cur])
     IN  handle' = [handle EXCEPT ![cur] =
           [rec EXCEPT !.load_state = "loaded", !.numnodes = NumNodes(rec)]]
  /\ EndCall
  /\ UNCHANGED <<live, shared, outside>>

LoadStep ==
  \/ LtDlInit \/ LoadBackend \/ LoadClusterlist \/ SetupClusterlist
  \/ LoadConfig \/ NoServerLeft \/ Connect \/ UseAfterFree \/ Compare
-----------------------------------------------------------------------------
(* The queries.  _is_node asks the cluster list first, if a module for it  *)
(* is loaded now. *)
Known_UpOnly(h, n) ==                                          \* mutant
  IF clusterlist_module_found THEN InCluster(n)
  ELSE handle[h].up_nodes[n] > 0
Known(h, n) ==
  IF clusterlist_module_found THEN InCluster(n)
  ELSE handle[h].up_nodes[n] > 0 \/ handle[h].down_nodes[n] > 0

IsNode(h, n, up) ==
  LET list == IF up THEN handle[h].up_nodes ELSE handle[h].down_nodes
  IN  IF handle[h].load_state # "loaded" THEN "notloaded"
      ELSE IF ~Known(h, n) THEN "notfound"
      ELSE IF list[GetNodename(n)] > 0 THEN "1" ELSE "0"

IsNodeUp(h, n) == IsNode(h, n, TRUE)
IsNodeDown(h, n) == IsNode(h, n, FALSE)

(* get_up_nodes_list into a list of len entries. *)
NodeCount(h, up) ==
  hostlist_count(IF up THEN handle[h].up_nodes ELSE handle[h].down_nodes)

GetNodesList(h, up, len) ==
  IF handle[h].load_state # "loaded" THEN "notloaded"
  ELSE IF len <= 0 THEN "parameters"
  ELSE IF NodeCount(h, up) > len THEN "overflow"
  ELSE "success"

(* nodeupdown_last_up_time: the name is looked up as it is. *)
LastUpTime(h, n) ==
  IF handle[h].load_state # "loaded" THEN "notloaded"
  ELSE IF handle[h].last_up_times = {} THEN "notsupported"
  ELSE IF n \notin handle[h].last_up_times THEN "notfound" ELSE "success"

(* The application's list.  Clear and destroy take it for a list of the    *)
(* nodes the handle has NOW: of a list that is shorter, made before the    *)
(* handle was loaded again, they use entries there are not.                *)
NodelistCreate(h) ==
  /\ MayList /\ pc = "idle" /\ nodelist = NoList
  /\ h \in live /\ handle[h].load_state = "loaded"
  /\ nodelist' = handle[h].numnodes
  /\ UNCHANGED <<live, handle, shared, lister, file, pc, call>>

NodelistOverrun(h) == handle[h].numnodes > nodelist

NodelistClear(h) ==
  /\ pc = "idle" /\ nodelist # NoList
  /\ h \in live /\ handle[h].load_state = "loaded"
  /\ pc' = IF NodelistOverrun(h) THEN "crashed" ELSE pc
  /\ UNCHANGED <<live, handle, shared, outside, call>>

NodelistDestroy(h) ==
  /\ pc = "idle" /\ nodelist # NoList
  /\ h \in live /\ handle[h].load_state = "loaded"
  /\ IF NodelistOverrun(h) THEN pc' = "crashed" /\ UNCHANGED nodelist
     ELSE nodelist' = NoList /\ UNCHANGED pc
  /\ UNCHANGED <<live, handle, shared, lister, file, call>>

EditFile ==
  /\ MayEdit /\ file' \in HostsFiles
  /\ UNCHANGED <<live, handle, shared, lister, nodelist, pc, call>>

Next ==
  \/ \E h \in Handles : \/ HandleCreate(h) \/ HandleDestroy(h)
                        \/ LoadLoaded(h) \/ LoadCall(h)
                        \/ NodelistCreate(h) \/ NodelistClear(h)
                        \/ NodelistDestroy(h)
  \/ LoadStep \/ ReadStep
  \/ LoadNull \/ EditFile

Spec == Init /\ [][Next]_vars

(* The library's thread runs, and a server that accepted sends lines until *)
(* it closes: nothing in the library ends a read that gets no answer.      *)
FairSpec == Spec /\ WF_vars(LoadStep) /\ WF_vars(ReadStep)
-----------------------------------------------------------------------------
Loaded(h) == h \in live /\ handle[h].load_state = "loaded"

(* Every lt_dlinit is matched by exactly one lt_dlexit, whichever step of  *)
(* a load fails: the count is the number of handles that hold a reference. *)
LtdlBalanced ==
  ltdl_refs = Cardinality({h \in live : handle[h].ltdl_initialized})

(* When no handle holds libltdl, nothing of a module is left behind: no    *)
(* open handle, no module pointer, no cluster list, no cerebro handle.     *)
NothingLeftBehind ==
  ltdl_refs = 0 =>
    /\ modules = NoModules /\ hosts = NoFile /\ cerebro_handle = "none"
    /\ \A m \in Files : dl_refs[m] = 0

(* With a cluster list a loaded handle knows exactly its nodes, whichever  *)
(* of the servers failed before one answered, if the file is not edited    *)
(* and is read whole.  It says of a node that it is up or that it is down, *)
(* never both, and counts it once, unless a server failed after it had     *)
(* told of a node: the load goes on with that node to the next one.        *)
UpOrDownOnce(h) ==
  \A n \in Names : handle[h].up_nodes[n] + handle[h].down_nodes[n] <= 1
ExactlyTheCluster ==
  \A h \in Handles : Loaded(h) =>
    /\ handle[h].mixed \/ UpOrDownOnce(h)
    /\ lister # "default" /\ file \notin {NoFile, <<>>} =>
         {n \in Names : Discovered(handle[h], n)} = ToSet(file)

(* A list made by nodelist_create holds what get_up_nodes_list and         *)
(* get_down_nodes_list return, with the same exception.                    *)
ListsFit ==
  \A h \in Handles : Loaded(h) /\ ~handle[h].mixed =>
    \A up \in BOOLEAN :
      /\ GetNodesList(h, up, handle[h].numnodes) # "overflow"
      /\ (\E n \in Names : Discovered(handle[h], n)) =>
           GetNodesList(h, up, handle[h].numnodes) = "success"

(* A node in one of the lists of a handle is a node the handle answers     *)
(* queries about, by any of its names, and the answers agree with the      *)
(* lists; when the backend tells times, there is one for every node up.    *)
Answers ==
  pc = "idle" =>
    \A h \in Handles, n \in Names : Loaded(h) /\ Discovered(handle[h], GetNodename(n)) =>
      /\ (IsNodeUp(h, n) = "1") = (handle[h].up_nodes[GetNodename(n)] > 0)
      /\ (IsNodeDown(h, n) = "1") = (handle[h].down_nodes[GetNodename(n)] > 0)
      /\ handle[h].last_up_times # {} /\ handle[h].up_nodes[n] > 0 =>
           \E m \in Names : Short[m] = Short[n] /\ LastUpTime(h, m) = "success"

(* The lists have room for the nodes, and the queries agree with them.     *)
ListedIsKnown == ListsFit /\ Answers

(* A load comes to an end if the servers it connects to do.                *)
LoadEnds == pc # "idle" ~> pc \in {"idle", "crashed"}
=============================================================================
