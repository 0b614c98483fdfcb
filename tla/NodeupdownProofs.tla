------------------------- MODULE NodeupdownProofs -------------------------
(***************************************************************************)
(* Theorems about Nodeupdown: the references to libltdl are balanced, the  *)
(* last of them leaves nothing behind, and a handle that is loaded knows   *)
(* the cluster.                                                            *)
(***************************************************************************)
EXTENDS Nodeupdown, FiniteSetTheorems, NaturalsInduction, WellFoundedInduction,
        TLAPS

(* The fields of struct nodeupdown and what they hold.  The number of      *)
(* nodes, a sum, is left untyped. *)
IsHandle(r) ==
  r \in [load_state : {"unloaded", "setup", "loaded"},
         ltdl_initialized : BOOLEAN,
         up_nodes : [Names -> Nat], down_nodes : [Names -> Nat],
         last_up_times : SUBSET Names, numnodes : {r.numnodes},
         mixed : BOOLEAN]

TypeOK ==
  /\ live \subseteq Handles
  /\ handle = [h \in Handles |-> handle[h]]
  /\ \A h \in Handles : IsHandle(handle[h])
  /\ ltdl_refs \in Nat
  /\ dl_refs \in [Files -> Int]
  /\ modules \in [backend : Backends \cup {"none"},
                  clusterlist : {"none", lister}, config : BOOLEAN]
  /\ cerebro_handle \in {"none", "open", "destroyed"}
  /\ lister \in Listers /\ file \in HostsFiles
  /\ hosts \in Seq(Nodes) \cup {NoFile}
  /\ targets \in Targets \cup {<<>>} /\ listed \in BOOLEAN
  /\ i \in Nat \ {0} /\ said \subseteq Names
  /\ pc \in {"idle", "init", "backend", "clusterlist", "setup", "config",
             "connect", "read", "compare", "crashed"}

Calling == pc \notin {"idle", "crashed"}
Held == {h \in live : handle[h].ltdl_initialized}

(* Whose the references to libltdl are: the handle being loaded has one    *)
(* from its second step on, and of the other handles only those that are   *)
(* loaded.                                                                 *)
Custody ==
  /\ ltdl_refs = Cardinality(Held)
  /\ Calling => cur \in live /\ handle[cur].load_state # "loaded"
  /\ pc = "init" => handle[cur] = Initialized
  /\ Calling /\ pc # "init" => handle[cur].ltdl_initialized
  /\ pc = "idle" => cur = NoHandle
  /\ pc # "crashed" => \A h \in live \ {cur} :
       handle[h] = Initialized \/ handle[h].load_state = "loaded"

(* What the process shares is there because of a module.                   *)
Shared ==
  /\ ~clusterlist_module_found => hosts = NoFile
  /\ "cerebro" \notin Backends => cerebro_handle = "none"
  /\ NothingLeftBehind

IInv == TypeOK /\ Custody /\ Shared
-----------------------------------------------------------------------------
(* What the model's helpers keep.                                          *)
LEMMA InitializedType == IsHandle(Initialized)
BY DEF IsHandle, Initialized, None

LEMMA NoneFile == "none" \notin Files /\ "default" \notin Files
BY ChoicesAssumption DEF Files

(* nodeupdown_add_up_node and nodeupdown_add_down_node only lengthen the   *)
(* lists.                                                                  *)
LEMMA AddNodeType ==
  ASSUME NEW r, IsHandle(r), NEW n \in Names, NEW up \in BOOLEAN
  PROVE  /\ IsHandle(AddNode(r, n, up))
         /\ AddNode(r, n, up).load_state = r.load_state
         /\ AddNode(r, n, up).ltdl_initialized = r.ltdl_initialized
         /\ AddNode(r, n, up).last_up_times = r.last_up_times
         /\ AddNode(r, n, up).mixed = r.mixed
<1>1. GetNodename(n) \in Names
  BY ChoicesAssumption DEF GetNodename, Shortened, Nodes
<1> DEFINE g == GetNodename(n)
           u == Push(r.up_nodes, g)
           d == Push(r.down_nodes, g)
<1>2. u \in [Names -> Nat] /\ d \in [Names -> Nat]
  BY <1>1 DEF IsHandle, Push
<1> HIDE DEF g, u, d
<1>3. /\ IsHandle([r EXCEPT !.up_nodes = u])
      /\ [r EXCEPT !.up_nodes = u].load_state = r.load_state
      /\ [r EXCEPT !.up_nodes = u].ltdl_initialized = r.ltdl_initialized
      /\ [r EXCEPT !.up_nodes = u].last_up_times = r.last_up_times
      /\ [r EXCEPT !.up_nodes = u].mixed = r.mixed
  BY <1>2 DEF IsHandle
<1>4. /\ IsHandle([r EXCEPT !.down_nodes = d])
      /\ [r EXCEPT !.down_nodes = d].load_state = r.load_state
      /\ [r EXCEPT !.down_nodes = d].ltdl_initialized = r.ltdl_initialized
      /\ [r EXCEPT !.down_nodes = d].last_up_times = r.last_up_times
      /\ [r EXCEPT !.down_nodes = d].mixed = r.mixed
  BY <1>2 DEF IsHandle
<1>5. AddNode(r, n, up) \in
        {r, [r EXCEPT !.up_nodes = u], [r EXCEPT !.down_nodes = d]}
  BY DEF AddNode, u, d, g
<1> QED BY <1>3, <1>4, <1>5

LEMMA AddLastUpTimeType ==
  ASSUME NEW r, IsHandle(r), NEW n \in Names
  PROVE  /\ IsHandle(AddLastUpTime(r, n))
         /\ AddLastUpTime(r, n).load_state = r.load_state
         /\ AddLastUpTime(r, n).ltdl_initialized = r.ltdl_initialized
<1> DEFINE s == r.last_up_times \cup {n}
<1>1. s \subseteq Names
  BY DEF IsHandle
<1> HIDE DEF s
<1>2. /\ IsHandle([r EXCEPT !.last_up_times = s])
      /\ [r EXCEPT !.last_up_times = s].load_state = r.load_state
      /\ [r EXCEPT !.last_up_times = s].ltdl_initialized = r.ltdl_initialized
  BY <1>1 DEF IsHandle
<1> QED BY <1>2 DEF AddLastUpTime, s

LEMMA CompareType ==
  ASSUME NEW r, IsHandle(r)
  PROVE  /\ IsHandle(CompareToClusterlist(r))
         /\ CompareToClusterlist(r).ltdl_initialized = r.ltdl_initialized
         /\ CompareToClusterlist(r).mixed = r.mixed
<1> DEFINE d == [n \in Names |->
                   IF n \in NotDiscovered(r) THEN 1 ELSE r.down_nodes[n]]
<1>1. d \in [Names -> Nat]
  BY DEF IsHandle
<1> HIDE DEF d
<1>2. /\ IsHandle([r EXCEPT !.down_nodes = d])
      /\ [r EXCEPT !.down_nodes = d].ltdl_initialized = r.ltdl_initialized
      /\ [r EXCEPT !.down_nodes = d].mixed = r.mixed
  BY <1>1 DEF IsHandle
<1>3. CompareToClusterlist(r) \in {r, [r EXCEPT !.down_nodes = d]}
  BY DEF CompareToClusterlist, d
<1> QED BY <1>2, <1>3

LEMMA GoneOnType ==
  ASSUME NEW r, IsHandle(r)
  PROVE  LET s == GoneOn(r)
         IN  /\ IsHandle(s) /\ s.load_state = r.load_state
             /\ s.ltdl_initialized = r.ltdl_initialized
             /\ s.up_nodes = r.up_nodes /\ s.down_nodes = r.down_nodes
             /\ s.last_up_times = r.last_up_times
             /\ s.mixed = (r.mixed \/ \E n \in Names : Discovered(r, n))
<1> DEFINE m == r.mixed \/ \E n \in Names : Discovered(r, n)
<1>1. m \in BOOLEAN
  BY DEF IsHandle
<1>2. GoneOn(r) = [r EXCEPT !.mixed = m]
  BY DEF GoneOn
<1> HIDE DEF m
<1>3. /\ IsHandle([r EXCEPT !.mixed = m])
      /\ [r EXCEPT !.mixed = m].load_state = r.load_state
      /\ [r EXCEPT !.mixed = m].ltdl_initialized = r.ltdl_initialized
      /\ [r EXCEPT !.mixed = m].up_nodes = r.up_nodes
      /\ [r EXCEPT !.mixed = m].down_nodes = r.down_nodes
      /\ [r EXCEPT !.mixed = m].last_up_times = r.last_up_times
      /\ [r EXCEPT !.mixed = m].mixed = m
  BY <1>1 DEF IsHandle
<1> QED BY <1>2, <1>3 DEF m

(* A change of one handle that does not touch its reference.               *)
LEMMA HeldKept ==
  ASSUME TypeOK, NEW h \in Handles, NEW r, handle' = [handle EXCEPT ![h] = r],
         r.ltdl_initialized = handle[h].ltdl_initialized, live' = live
  PROVE  Held' = Held
BY DEF TypeOK, Held

LEMMA HeldFinite ==
  ASSUME TypeOK
  PROVE  IsFiniteSet(Held) /\ Cardinality(Held) \in Nat
BY FS_Subset, FS_CardinalityType, NodesAssumption DEF TypeOK, Held
-----------------------------------------------------------------------------
(* The cleanup gives back the reference of the handle and no other, and    *)
(* leaves the process as IInv wants it.                                    *)
LEMMA FreeLemma ==
  ASSUME IInv, NEW h \in Handles, h \in live, FreeHandleData(h),
         live' \in {live, live \ {h}}, UNCHANGED outside
  PROVE  /\ handle' = [g \in Handles |-> handle'[g]]
         /\ \A g \in Handles : IsHandle(handle'[g])
         /\ handle'[h] = Initialized
         /\ \A g \in Handles \ {h} : handle'[g] = handle[g]
         /\ ltdl_refs' \in Nat /\ ltdl_refs' = Cardinality(Held')
         /\ dl_refs' \in [Files -> Int]
         /\ modules' = NoModules
         /\ hosts' \in {hosts, NoFile}
         /\ cerebro_handle' \in {"none", "open", "destroyed"}
         /\ Shared'
<1> USE DEF IInv
<1>1. /\ handle' = [handle EXCEPT ![h] = Initialized]
      /\ handle' = [g \in Handles |-> handle'[g]]
      /\ \A g \in Handles : IsHandle(handle'[g])
      /\ handle'[h] = Initialized
      /\ \A g \in Handles \ {h} : handle'[g] = handle[g]
  BY InitializedType DEF FreeHandleData, TypeOK
<1>2. Held' = Held \ {h}
  BY <1>1 DEF Held, Initialized, TypeOK
<1>3. LtdlHeld(h) <=> h \in Held
  BY DEF LtdlHeld, Held
<1>4. Cardinality(Held') =
        IF h \in Held THEN Cardinality(Held) - 1 ELSE Cardinality(Held)
  BY <1>2, HeldFinite, FS_RemoveElement
<1>5. h \in Held => ltdl_refs # 0
  BY HeldFinite, FS_EmptySet DEF Custody
<1>6. ltdl_refs' \in Nat /\ ltdl_refs' = Cardinality(Held')
  BY <1>3, <1>4, <1>5 DEF FreeHandleData, Custody, TypeOK
<1>7. dl_refs' \in [Files -> Int]
  BY DEF FreeHandleData, TypeOK, Unloaded, ClusterlistUnload, BackendUnload
<1>8. modules' = NoModules
  BY DEF FreeHandleData
<1>9. hosts' = NoFile
  BY DEF FreeHandleData, HostsLeft, Shared
<1>10. cerebro_handle' \in {"none", "open", "destroyed"}
  BY DEF FreeHandleData, CerebroHandleLeft, TypeOK
<1>11. "cerebro" \notin Backends => cerebro_handle' = "none"
  <2>1. "cerebro" \notin Backends => modules.backend # "cerebro"
    BY DEF TypeOK
  <2> QED BY <2>1, NoneFile, ChoicesAssumption
    DEF FreeHandleData, CerebroHandleLeft, Shared, Files
<1>12. ltdl_refs' = 0 => \A m \in Files : dl_refs'[m] = 0
  <2> SUFFICES ASSUME ltdl_refs' = 0 PROVE \A m \in Files : dl_refs'[m] = 0
    OBVIOUS
  <2>1. CASE LtdlHeld(h)
    BY <2>1 DEF FreeHandleData, TypeOK
  <2>2. CASE ~LtdlHeld(h)
    <3>1. ltdl_refs = 0
      BY <2>2 DEF FreeHandleData
    <3>2. /\ modules.backend = "none" /\ modules.clusterlist = "none"
          /\ \A m \in Files : dl_refs[m] = 0
      BY <3>1 DEF Shared, NothingLeftBehind, NoModules
    <3>3. \A m \in Files : dl_refs'[m] = dl_refs[m]
      BY <2>2, <3>2, NoneFile
      DEF FreeHandleData, Unloaded, ClusterlistUnload, BackendUnload, TypeOK
    <3> QED BY <3>2, <3>3
  <2> QED BY <2>1, <2>2
<1>13. ltdl_refs' = 0 => cerebro_handle' = "none"
  <2>1. CASE "cerebro" \in Backends
    BY <1>12, <2>1 DEF FreeHandleData, CerebroHandleLeft, Files
  <2> QED BY <1>11, <2>1
<1>14. Shared'
  BY <1>8, <1>9, <1>11, <1>12, <1>13
  DEF Shared, NothingLeftBehind, clusterlist_module_found, NoModules
<1> QED BY <1>1, <1>6, <1>7, <1>8, <1>9, <1>10, <1>14
-----------------------------------------------------------------------------
LEMMA IInvInit == Init => IInv
<1> SUFFICES ASSUME Init PROVE IInv
  OBVIOUS
<1>1. TypeOK
  <2>1. modules \in [backend : Backends \cup {"none"},
                    clusterlist : {"none", lister}, config : BOOLEAN]
    BY DEF Init, NoModules
  <2>2. \A h \in Handles : handle[h] = Initialized
    BY DEF Init
  <2>3. \A h \in Handles : IsHandle(handle[h])
    BY <2>2, InitializedType
  <2>4. handle = [h \in Handles |-> handle[h]]
    BY DEF Init
  <2>5. /\ live \subseteq Handles
        /\ ltdl_refs \in Nat /\ dl_refs \in [Files -> Int]
        /\ lister \in Listers /\ file \in HostsFiles
        /\ hosts \in Seq(Nodes) \cup {NoFile} /\ cerebro_handle = "none"
    BY DEF Init
  <2>6. targets \in Targets \cup {<<>>} /\ listed \in BOOLEAN
    BY DEF Init
  <2>7. i \in Nat \ {0} /\ said \subseteq Names /\ pc = "idle"
    BY DEF Init
  <2> QED BY <2>1, <2>3, <2>4, <2>5, <2>6, <2>7 DEF TypeOK
<1>2. Held = {}
  BY DEF Held, Init
<1>3. Custody
  BY <1>2, FS_EmptySet DEF Custody, Init, Calling
<1>4. Shared
  BY DEF Shared, NothingLeftBehind, Init
<1> QED BY <1>1, <1>3, <1>4 DEF IInv

(* A load that fails, wherever it does.                                    *)
LEMMA FailStep ==
  ASSUME IInv, Calling, Fail
  PROVE  IInv'
<1>1. cur \in live /\ cur \in Handles
  BY DEF IInv, Custody, TypeOK
<1>2. FreeHandleData(cur) /\ live' \in {live, live \ {cur}} /\ UNCHANGED outside
  BY DEF Fail
<1>3. TypeOK'
  <2>1. modules' = NoModules
    BY <1>1, <1>2, FreeLemma
  <2>2. modules' \in [backend : Backends \cup {"none"},
                     clusterlist : {"none", lister'}, config : BOOLEAN]
    BY <2>1 DEF NoModules
  <2>3. /\ handle' = [h \in Handles |-> handle'[h]]
        /\ \A h \in Handles : IsHandle(handle'[h])
        /\ ltdl_refs' \in Nat /\ dl_refs' \in [Files -> Int]
        /\ cerebro_handle' \in {"none", "open", "destroyed"}
        /\ hosts' \in Seq(Nodes) \cup {NoFile}
    BY <1>1, <1>2, FreeLemma DEF IInv, TypeOK
  <2>4. /\ live' \subseteq Handles
        /\ lister' \in Listers /\ file' \in HostsFiles
    BY DEF IInv, TypeOK, Fail, outside
  <2>5. targets' \in Targets \cup {<<>>} /\ listed' \in BOOLEAN
    BY DEF Fail, EndCall
  <2>6. i' \in Nat \ {0} /\ said' \subseteq Names /\ pc' = "idle"
    BY DEF Fail, EndCall
  <2> QED BY <2>2, <2>3, <2>4, <2>5, <2>6 DEF TypeOK
<1>4. Custody'
  <2>1. pc' = "idle" /\ cur' = NoHandle /\ live' = live /\ NoHandle \notin Handles
    BY NodesAssumption DEF Fail, EndCall
  <2>2. pc # "crashed"
    BY DEF Calling
  <2>3. \A h \in live :
          handle'[h] = Initialized \/ handle'[h].load_state = "loaded"
    <3> TAKE h \in live
    <3>1. CASE h = cur
      BY <3>1, <1>1, <1>2, FreeLemma
    <3>2. CASE h # cur
      BY <3>2, <2>2, <1>1, <1>2, FreeLemma DEF IInv, Custody, TypeOK
    <3> QED BY <3>1, <3>2
  <2> QED BY <1>1, <1>2, <2>1, <2>3, FreeLemma DEF Custody, Calling
<1> QED BY <1>1, <1>2, <1>3, <1>4, FreeLemma DEF IInv

(* A step of a load that changes nothing of its handle but the nodes and   *)
(* the times read so far.                                                  *)
LEMMA HandleStep ==
  ASSUME IInv, Calling, pc # "init", NEW r, IsHandle(r),
         r.ltdl_initialized = handle[cur].ltdl_initialized,
         r.load_state \in {handle[cur].load_state, "setup"},
         handle' = [handle EXCEPT ![cur] = r],
         UNCHANGED <<live, ltdl_refs, cur>>,
         pc' \in {"connect", "read"}
  PROVE  /\ handle' = [h \in Handles |-> handle'[h]]
         /\ \A h \in Handles : IsHandle(handle'[h])
         /\ Custody'
<1>1. cur \in live /\ cur \in Handles
  BY DEF IInv, Custody, TypeOK
<1>2. /\ handle' = [h \in Handles |-> handle'[h]]
      /\ \A h \in Handles : IsHandle(handle'[h])
  BY <1>1 DEF IInv, TypeOK
<1>3. Held' = Held
  BY <1>1, HeldKept DEF IInv
<1>4. handle'[cur] = r /\ \A h \in Handles \ {cur} : handle'[h] = handle[h]
  BY <1>1 DEF IInv, TypeOK
<1>5. \A h \in live \ {cur} :
        handle'[h] = Initialized \/ handle'[h].load_state = "loaded"
  BY <1>4 DEF IInv, Custody, Calling, TypeOK
<1>6. handle'[cur].load_state # "loaded" /\ handle'[cur].ltdl_initialized
  BY <1>4 DEF IInv, Custody
<1>7. ltdl_refs' = Cardinality(Held')
  BY <1>3 DEF IInv, Custody
<1> QED BY <1>1, <1>2, <1>5, <1>6, <1>7 DEF Custody, Calling

(* A server that does not give its data: the next one or the end.          *)
LEMMA AttemptFailsStep ==
  ASSUME IInv, pc \in {"connect", "read"}, NEW r, IsHandle(r),
         r.ltdl_initialized = handle[cur].ltdl_initialized,
         r.load_state = handle[cur].load_state, AttemptFails(r)
  PROVE  IInv'
<1>1. Calling
  BY DEF Calling
<1>2. CASE ~listed
  BY <1>1, <1>2, FailStep DEF AttemptFails
<1>3. CASE listed
  <2> DEFINE s == GoneOn(r)
  <2>1. /\ handle' = [handle EXCEPT ![cur] = s] /\ pc' = "connect"
        /\ UNCHANGED <<live, shared, outside, cur, targets, listed>>
        /\ i' = i + 1 /\ said' = {}
    BY <1>3 DEF AttemptFails, NextTarget
  <2>5. /\ IsHandle(s) /\ s.load_state = handle[cur].load_state
        /\ s.ltdl_initialized = handle[cur].ltdl_initialized
    BY GoneOnType
  <2> HIDE DEF s
  <2>2. /\ handle' = [h \in Handles |-> handle'[h]]
        /\ \A h \in Handles : IsHandle(handle'[h])
        /\ Custody'
    BY <1>1, <2>1, <2>5, HandleStep DEF shared
  <2>3. TypeOK'
    BY <2>1, <2>2 DEF IInv, TypeOK, shared, statics, outside
  <2>4. Shared'
    BY <2>1 DEF IInv, Shared, NothingLeftBehind, clusterlist_module_found,
                shared, statics
  <2> QED BY <2>2, <2>3, <2>4 DEF IInv
<1> QED BY <1>2, <1>3

(* A host, a node or a metric read.                                        *)
LEMMA ReportStep ==
  ASSUME IInv, pc = "read", NEW n \in Names, NEW r, IsHandle(r),
         r.ltdl_initialized = handle[cur].ltdl_initialized,
         r.load_state = handle[cur].load_state,
         handle' = [handle EXCEPT ![cur] = r], said' = said \cup {n},
         UNCHANGED <<live, shared, outside, pc, cur, targets, listed, i>>
  PROVE  IInv'
<1>1. Calling
  BY DEF Calling
<1>2. /\ handle' = [h \in Handles |-> handle'[h]]
      /\ \A h \in Handles : IsHandle(handle'[h])
      /\ Custody'
  BY <1>1, HandleStep DEF shared
<1>3. TypeOK'
  BY <1>2 DEF IInv, TypeOK, shared, statics, outside
<1>4. Shared'
  BY DEF IInv, Shared, NothingLeftBehind, clusterlist_module_found,
         shared, statics
<1> QED BY <1>2, <1>3, <1>4 DEF IInv
-----------------------------------------------------------------------------
(* The calls that come and go at once.                                     *)
LEMMA CreateStep ==
  ASSUME IInv, NEW h \in Handles, HandleCreate(h)
  PROVE  IInv'
<1>1. /\ live' = live \cup {h} /\ handle' = [handle EXCEPT ![h] = Initialized]
      /\ h \notin live /\ pc = "idle"
      /\ UNCHANGED <<shared, outside, pc, call>>
  BY DEF HandleCreate
<1>2. /\ handle' = [g \in Handles |-> handle'[g]]
      /\ handle'[h] = Initialized
      /\ \A g \in Handles \ {h} : handle'[g] = handle[g]
  BY <1>1 DEF IInv, TypeOK
<1>3. \A g \in Handles : IsHandle(handle'[g])
  BY <1>2, InitializedType DEF IInv, TypeOK
<1>4. TypeOK'
  BY <1>1, <1>2, <1>3 DEF IInv, TypeOK, shared, statics, outside, call
<1>5. Held' = Held
  BY <1>1, <1>2 DEF IInv, TypeOK, Held, Initialized
<1>6. Custody'
  BY <1>1, <1>2, <1>5 DEF IInv, TypeOK, Custody, Calling, shared, call
<1>7. Shared'
  BY <1>1 DEF IInv, Shared, NothingLeftBehind, clusterlist_module_found,
              shared, statics
<1> QED BY <1>4, <1>6, <1>7 DEF IInv

LEMMA DestroyStep ==
  ASSUME IInv, NEW h \in Handles, HandleDestroy(h) \/ LoadLoaded(h)
  PROVE  IInv'
<1>1. /\ h \in live /\ pc = "idle" /\ FreeHandleData(h)
      /\ live' \in {live, live \ {h}} /\ UNCHANGED <<outside, pc, call>>
  BY DEF HandleDestroy, LoadLoaded
<1>2. /\ handle' = [g \in Handles |-> handle'[g]]
      /\ \A g \in Handles : IsHandle(handle'[g])
      /\ handle'[h] = Initialized
      /\ \A g \in Handles \ {h} : handle'[g] = handle[g]
      /\ ltdl_refs' \in Nat /\ ltdl_refs' = Cardinality(Held')
      /\ dl_refs' \in [Files -> Int]
      /\ modules' = NoModules
      /\ hosts' \in {hosts, NoFile}
      /\ cerebro_handle' \in {"none", "open", "destroyed"}
      /\ Shared'
  BY <1>1, FreeLemma DEF outside
<1>3. modules' \in [backend : Backends \cup {"none"},
                    clusterlist : {"none", lister'}, config : BOOLEAN]
  BY <1>2 DEF NoModules
<1>4. TypeOK'
  BY <1>1, <1>2, <1>3 DEF IInv, TypeOK, outside, call
<1>5. Custody'
  BY <1>1, <1>2 DEF IInv, TypeOK, Custody, Calling, call
<1> QED BY <1>2, <1>4, <1>5 DEF IInv

LEMMA CallStep ==
  ASSUME IInv, NEW h \in Handles, LoadCall(h)
  PROVE  IInv'
<1>1. /\ h \in live /\ pc = "idle" /\ pc' = "init" /\ cur' = h
      /\ handle[h].load_state = "unloaded"
      /\ UNCHANGED <<live, handle, shared, outside, i, said>>
  BY DEF LoadCall
<1>2. targets' \in Targets /\ listed' \in BOOLEAN
  BY DEF LoadCall
<1>3. TypeOK'
  BY <1>1, <1>2 DEF IInv, TypeOK, shared, statics, outside
<1>4. handle[h] = Initialized
  BY <1>1, NodesAssumption DEF IInv, TypeOK, Custody
<1>5. Held' = Held
  BY <1>1 DEF Held
<1>6. Custody'
  <2>1. pc' = "init" /\ cur' = h /\ h \in live' /\ handle'[h] = handle[h]
        /\ ltdl_refs' = Cardinality(Held')
    BY <1>1, <1>5 DEF IInv, Custody, shared
  <2>2. \A g \in live' :
          handle'[g] = Initialized \/ handle'[g].load_state = "loaded"
    BY <1>1, NodesAssumption DEF IInv, TypeOK, Custody
  <2> QED BY <1>1, <1>4, <2>1, <2>2 DEF Custody, Calling
<1>7. Shared'
  BY <1>1 DEF IInv, Shared, NothingLeftBehind, clusterlist_module_found,
              shared, statics
<1> QED BY <1>3, <1>6, <1>7 DEF IInv

(* The list of an application, the administrator, a call with no handle    *)
(* and a stutter: nothing IInv speaks of but pc and the file.              *)
LEMMA OutsideStep ==
  ASSUME IInv, UNCHANGED <<live, handle, shared, lister, call>>,
         file' \in HostsFiles, pc' \in {pc, "crashed"}
  PROVE  IInv'
<1>1. TypeOK'
  BY DEF IInv, TypeOK, shared, statics, call
<1>2. Held' = Held
  BY DEF Held
<1>3. Custody'
  BY <1>2 DEF IInv, Custody, Calling, shared, call
<1>4. Shared'
  BY DEF IInv, Shared, NothingLeftBehind, clusterlist_module_found,
         shared, statics
<1> QED BY <1>1, <1>3, <1>4 DEF IInv
-----------------------------------------------------------------------------
(* What the setup of a cluster list gives.                                 *)
LEMMA HostsfileSetupType ==
  ASSUME TypeOK
  PROVE  HostsfileSetup \subseteq Seq(Nodes)
<1>1. CASE file = NoFile
  BY <1>1 DEF HostsfileSetup
<1>2. CASE file # NoFile
  <2>1. file \in Seq(Nodes)
    BY <1>2, ChoicesAssumption DEF TypeOK
  <2>2. \A n \in 0..Len(file) : SubSeq(file, 1, n) \in Seq(Nodes)
    BY <2>1
  <2> QED BY <1>2, <2>1, <2>2 DEF HostsfileSetup
<1> QED BY <1>1, <1>2

(* SetToSeq enumerates a finite set.                                       *)
LEMMA SetToSeqLemma ==
  ASSUME NEW S, IsFiniteSet(S)
  PROVE  SetToSeq(S) \in Seq(S) /\ ToSet(SetToSeq(S)) = S
<1> DEFINE n == Cardinality(S)
           Enum(f) == f \in [1..n -> S] /\ IsInjective(f)
<1>1. n \in Nat /\ ExistsBijection(1..n, S)
  BY FS_CardinalityType
<1>2. PICK f : f \in Bijection(1..n, S)
  BY <1>1 DEF ExistsBijection
<1>3. f \in [1..n -> S] /\ IsInjective(f)
  BY <1>2 DEF Bijection, Injection, IsInjective
<1>4. SetToSeq(S) \in [1..n -> S] /\ IsInjective(SetToSeq(S))
  BY <1>3 DEF SetToSeq
<1>5. SetToSeq(S) \in Injection(1..n, S)
  BY <1>4 DEF Injection, IsInjective
<1>6. IsFiniteSet(1..n) /\ Cardinality(1..n) = n
  BY <1>1, FS_Interval
<1>7. SetToSeq(S) \in Surjection(1..n, S)
  BY <1>5, <1>6, FS_Injection
<1> QED BY <1>1, <1>4, <1>7 DEF Surjection, ToSet

LEMMA GendersSetupType ==
  ASSUME TypeOK
  PROVE  /\ GendersSetup \subseteq Seq(Nodes)
         /\ \A s \in GendersSetup : file # NoFile /\ ToSet(s) = ToSet(file)
<1>1. CASE file = NoFile
  BY <1>1 DEF GendersSetup
<1>2. CASE file # NoFile
  <2>1. file \in Seq(Nodes)
    BY <1>2, ChoicesAssumption DEF TypeOK
  <2>2. ToSet(file) \subseteq Nodes
    BY <2>1 DEF ToSet
  <2>3. IsFiniteSet(ToSet(file))
    <3>1. /\ Len(file) \in Nat /\ DOMAIN file = 1..Len(file)
          /\ file \in Surjection(1..Len(file), ToSet(file))
      BY <2>1 DEF Surjection, ToSet
    <3> QED BY <3>1, FS_Interval, FS_Surjection
  <2>4. /\ SetToSeq(ToSet(file)) \in Seq(ToSet(file))
        /\ ToSet(SetToSeq(ToSet(file))) = ToSet(file)
    BY <2>3, SetToSeqLemma
  <2>5. SetToSeq(ToSet(file)) \in Seq(Nodes)
    BY <2>2, <2>4
  <2> QED BY <1>2, <2>4, <2>5 DEF GendersSetup
<1> QED BY <1>1, <1>2
-----------------------------------------------------------------------------
(* The steps of a load.                                                    *)
LEMMA LoadingHolds ==
  ASSUME IInv, Calling, pc # "init"
  PROVE  cur \in Handles /\ cur \in Held /\ ltdl_refs # 0
<1>1. cur \in Handles /\ cur \in Held
  BY DEF IInv, TypeOK, Custody, Held
<1>2. Held # {} /\ IsFiniteSet(Held) /\ ltdl_refs = Cardinality(Held)
  BY <1>1, HeldFinite DEF IInv, Custody
<1> QED BY <1>1, <1>2, FS_EmptySet

LEMMA InitHandleType ==
  ASSUME NEW r, IsHandle(r)
  PROVE  IsHandle([r EXCEPT !.ltdl_initialized = TRUE])
BY DEF IsHandle

LEMMA LtDlInitStep ==
  ASSUME IInv, LtDlInit
  PROVE  IInv'
<1>1. CASE Fail
  BY <1>1, FailStep DEF LtDlInit, Calling
<1>2. CASE ~Fail
  <2>1. /\ pc = "init" /\ pc' = "backend" /\ ltdl_refs' = ltdl_refs + 1
        /\ handle' = [handle EXCEPT ![cur].ltdl_initialized = TRUE]
        /\ UNCHANGED <<live, dl_refs, modules, statics, outside, call>>
    BY <1>2 DEF LtDlInit
  <2>2. cur \in live /\ cur \in Handles /\ handle[cur] = Initialized
    BY <2>1 DEF IInv, TypeOK, Custody, Calling
  <2>3. /\ IsHandle(handle'[cur]) /\ handle'[cur].ltdl_initialized
        /\ handle'[cur].load_state = "unloaded"
        /\ handle' = [h \in Handles |-> handle'[h]]
        /\ \A h \in Handles \ {cur} : handle'[h] = handle[h]
    <3> DEFINE r == [Initialized EXCEPT !.ltdl_initialized = TRUE]
    <3>1. /\ handle'[cur] = r
          /\ handle' = [h \in Handles |-> handle'[h]]
          /\ \A h \in Handles \ {cur} : handle'[h] = handle[h]
      BY <2>1, <2>2 DEF IInv, TypeOK
    <3>2. r.ltdl_initialized /\ r.load_state = "unloaded"
      BY DEF Initialized
    <3>3. IsHandle(r)
      BY InitializedType, InitHandleType
    <3> QED BY <3>1, <3>2, <3>3
  <2>4. TypeOK'
    <3>1. \A h \in Handles : IsHandle(handle'[h])
      BY <2>3 DEF IInv, TypeOK
    <3>2. ltdl_refs' \in Nat
      BY <2>1 DEF IInv, TypeOK
    <3>3. handle' = [h \in Handles |-> handle'[h]]
      BY <2>3
    <3> QED BY <2>1, <3>1, <3>2, <3>3 DEF IInv, TypeOK, statics, outside, call
  <2>5. Held' = Held \cup {cur} /\ cur \notin Held
    <3>1. ~handle[cur].ltdl_initialized
      BY <2>2 DEF Initialized
    <3> QED BY <2>1, <2>2, <2>3, <3>1 DEF Held, IInv, TypeOK
  <2>6. ltdl_refs' = Cardinality(Held')
    BY <2>1, <2>5, HeldFinite, FS_AddElement DEF IInv, Custody
  <2>7. Custody'
    BY <2>1, <2>2, <2>3, <2>6 DEF IInv, TypeOK, Custody, Calling, call
  <2>8. Shared'
    BY <2>1 DEF IInv, TypeOK, Shared, NothingLeftBehind,
                clusterlist_module_found, statics
  <2> QED BY <2>4, <2>7, <2>8 DEF IInv
<1> QED BY <1>1, <1>2

(* While a load goes on its handle holds libltdl, so a step may leave      *)
(* modules open.                                                           *)
LEMMA ModuleStep ==
  ASSUME IInv, Calling, pc # "init", TypeOK',
         UNCHANGED <<live, handle, ltdl_refs, cur>>,
         pc' \notin {"init", "idle", "crashed"},
         ~clusterlist_module_found' => hosts' = NoFile,
         "cerebro" \notin Backends => cerebro_handle' = "none"
  PROVE  IInv'
<1>1. Custody'
  BY DEF IInv, Custody, Calling, Held
<1>2. Shared'
  BY LoadingHolds DEF Shared, NothingLeftBehind
<1> QED BY <1>1, <1>2 DEF IInv

LEMMA LoadBackendStep ==
  ASSUME IInv, LoadBackend
  PROVE  IInv'
<1>1. Calling /\ pc = "backend"
  BY DEF LoadBackend, Calling
<1>2. CASE Fail
  BY <1>1, <1>2, FailStep
<1>3. CASE ~Fail
  <2>1. PICK b \in Backends :
          /\ modules' = [modules EXCEPT !.backend = b]
          /\ dl_refs' = [dl_refs EXCEPT ![b] = @ + 1]
          /\ cerebro_handle' = IF b = "cerebro" /\ cerebro_handle = "none"
                               THEN "open" ELSE cerebro_handle
          /\ pc' = "clusterlist"
          /\ UNCHANGED <<live, handle, ltdl_refs, hosts, outside, call>>
    BY <1>3 DEF LoadBackend
  <2>2. TypeOK'
    BY <2>1 DEF IInv, TypeOK, Files, outside, call
  <2>3. clusterlist_module_found' = clusterlist_module_found
    BY <2>1 DEF IInv, TypeOK, clusterlist_module_found
  <2>4. /\ ~clusterlist_module_found' => hosts' = NoFile
        /\ "cerebro" \notin Backends => cerebro_handle' = "none"
    BY <2>1, <2>3 DEF IInv, Shared
  <2> QED BY <1>1, <2>1, <2>2, <2>4, ModuleStep DEF call
<1> QED BY <1>2, <1>3

LEMMA LoadClusterlistStep ==
  ASSUME IInv, LoadClusterlist
  PROVE  IInv'
<1>1. /\ pc = "clusterlist" /\ pc' = "setup"
      /\ modules' = [modules EXCEPT !.clusterlist = lister]
      /\ dl_refs' = IF lister = "default" THEN dl_refs
                    ELSE [dl_refs EXCEPT ![lister] = @ + 1]
      /\ UNCHANGED <<live, handle, ltdl_refs, statics, outside, call>>
  BY DEF LoadClusterlist
<1>2. Calling
  BY <1>1 DEF Calling
<1>3. TypeOK'
  BY <1>1 DEF IInv, TypeOK, Files, statics, outside, call
<1>4. ~clusterlist_module_found' => ~clusterlist_module_found
  BY <1>1 DEF IInv, TypeOK, clusterlist_module_found
<1>5. /\ ~clusterlist_module_found' => hosts' = NoFile
      /\ "cerebro" \notin Backends => cerebro_handle' = "none"
  BY <1>1, <1>4 DEF IInv, Shared, statics
<1> QED BY <1>1, <1>2, <1>3, <1>5, ModuleStep DEF call

LEMMA SetupClusterlistStep ==
  ASSUME IInv, SetupClusterlist
  PROVE  IInv'
<1>1. Calling /\ pc = "setup"
  BY DEF SetupClusterlist, Calling
<1>2. CASE Fail
  BY <1>1, <1>2, FailStep
<1>3. CASE ~Fail
  <2>1. /\ pc' = "config"
        /\ hosts' \in CASE modules.clusterlist = "hostsfile" -> HostsfileSetup
                        [] modules.clusterlist = "genders" -> GendersSetup
                        [] OTHER -> {hosts}
        /\ UNCHANGED <<live, handle, ltdl_refs, dl_refs, modules,
                       cerebro_handle, outside, call>>
    BY <1>3 DEF SetupClusterlist
  <2>2. hosts' \in Seq(Nodes) \cup {NoFile}
    BY <2>1, HostsfileSetupType, GendersSetupType DEF IInv, TypeOK
  <2>3. TypeOK'
    BY <2>1, <2>2 DEF IInv, TypeOK, outside, call
  <2>4. /\ ~clusterlist_module_found' => hosts' = NoFile
        /\ "cerebro" \notin Backends => cerebro_handle' = "none"
    BY <2>1 DEF IInv, Shared, clusterlist_module_found
  <2> QED BY <1>1, <2>1, <2>3, <2>4, ModuleStep DEF call
<1> QED BY <1>2, <1>3

LEMMA LoadConfigStep ==
  ASSUME IInv, LoadConfig
  PROVE  IInv'
<1>1. Calling /\ pc = "config"
  BY DEF LoadConfig, Calling
<1>2. CASE Fail
  BY <1>1, <1>2, FailStep
<1>3. CASE ~Fail
  <2> DEFINE r == [handle[cur] EXCEPT !.load_state = "setup"]
  <2>1. /\ modules' = [modules EXCEPT !.config = TRUE]
        /\ handle' = [handle EXCEPT ![cur] = r]
        /\ pc' = "connect"
        /\ UNCHANGED <<live, ltdl_refs, dl_refs, statics, outside, call>>
    BY <1>3 DEF LoadConfig
  <2>2. IsHandle(handle[cur])
    BY <1>1, LoadingHolds DEF IInv, TypeOK
  <2>3. /\ IsHandle(r) /\ r.load_state = "setup"
        /\ r.ltdl_initialized = handle[cur].ltdl_initialized
    BY <2>2 DEF IsHandle
  <2> HIDE DEF r
  <2>4. /\ handle' = [h \in Handles |-> handle'[h]]
        /\ \A h \in Handles : IsHandle(handle'[h])
        /\ Custody'
    BY <1>1, <2>1, <2>3, HandleStep DEF call
  <2>5. modules' \in [backend : Backends \cup {"none"},
                      clusterlist : {"none", lister'}, config : BOOLEAN]
    BY <2>1 DEF IInv, TypeOK, outside
  <2>6. TypeOK'
    BY <2>1, <2>4, <2>5 DEF IInv, TypeOK, statics, outside, call
  <2>7. Shared'
    BY <1>1, <2>1, LoadingHolds
    DEF IInv, TypeOK, Shared, NothingLeftBehind, clusterlist_module_found,
        statics
  <2> QED BY <2>4, <2>6, <2>7 DEF IInv
<1> QED BY <1>2, <1>3

LEMMA ConnectStep ==
  ASSUME IInv, Connect \/ ReadEOF
  PROVE  IInv'
<1>1. Calling /\ pc \in {"connect", "read"}
  BY DEF Connect, ReadEOF, Calling
<1>2. IsHandle(handle[cur])
  BY <1>1, LoadingHolds DEF IInv, TypeOK
<1>3. CASE AttemptFails(handle[cur])
  BY <1>1, <1>2, <1>3, AttemptFailsStep
<1>4. CASE ~AttemptFails(handle[cur])
  <2>1. /\ pc' \in {"read", "compare"}
        /\ UNCHANGED <<live, handle, shared, outside, call>>
    BY <1>4 DEF Connect, ReadEOF
  <2>2. TypeOK'
    BY <2>1 DEF IInv, TypeOK, shared, statics, outside, call
  <2>3. /\ ~clusterlist_module_found' => hosts' = NoFile
        /\ "cerebro" \notin Backends => cerebro_handle' = "none"
    BY <2>1 DEF IInv, Shared, clusterlist_module_found, shared, statics
  <2> QED BY <1>1, <2>1, <2>2, <2>3, ModuleStep DEF shared, call
<1> QED BY <1>3, <1>4

LEMMA CrashStep ==
  ASSUME IInv, UseAfterFree
  PROVE  IInv'
BY OutsideStep DEF UseAfterFree, IInv, TypeOK, outside

LEMMA LoadedType ==
  ASSUME NEW r, IsHandle(r), NEW n
  PROVE  LET s == [r EXCEPT !.load_state = "loaded", !.numnodes = n]
         IN  /\ IsHandle(s) /\ s.load_state = "loaded"
             /\ s.ltdl_initialized = r.ltdl_initialized
             /\ s.up_nodes = r.up_nodes /\ s.down_nodes = r.down_nodes
             /\ s.last_up_times = r.last_up_times /\ s.mixed = r.mixed
BY DEF IsHandle

LEMMA CompareStep ==
  ASSUME IInv, Compare
  PROVE  IInv'
<1> DEFINE r == CompareToClusterlist(handle[cur])
           s == [r EXCEPT !.load_state = "loaded", !.numnodes = NumNodes(r)]
<1>1. /\ pc = "compare" /\ handle' = [handle EXCEPT ![cur] = s]
      /\ EndCall /\ UNCHANGED <<live, shared, outside>>
  BY DEF Compare
<1>2. Calling /\ cur \in Handles /\ cur \in Held /\ ltdl_refs # 0
  BY <1>1, LoadingHolds DEF Calling
<1>3. IsHandle(r) /\ r.ltdl_initialized = handle[cur].ltdl_initialized
  BY <1>2, CompareType DEF IInv, TypeOK
<1> HIDE DEF r
<1>4. /\ IsHandle(s) /\ s.load_state = "loaded"
      /\ s.ltdl_initialized = handle[cur].ltdl_initialized
  BY <1>3, LoadedType
<1> HIDE DEF s
<1>5. /\ handle' = [h \in Handles |-> handle'[h]]
      /\ handle'[cur] = s /\ \A h \in Handles \ {cur} : handle'[h] = handle[h]
  BY <1>1, <1>2 DEF IInv, TypeOK
<1>6. \A h \in Handles : IsHandle(handle'[h])
  BY <1>4, <1>5 DEF IInv, TypeOK
<1>7. TypeOK'
  <2>1. targets' \in Targets \cup {<<>>} /\ listed' \in BOOLEAN
    BY <1>1 DEF EndCall
  <2>2. i' \in Nat \ {0} /\ said' \subseteq Names /\ pc' = "idle"
    BY <1>1 DEF EndCall
  <2> QED BY <1>1, <1>5, <1>6, <2>1, <2>2
    DEF IInv, TypeOK, shared, statics, outside
<1>8. Held' = Held
  BY <1>1, <1>2, <1>4, HeldKept DEF IInv
<1>9. Custody'
  <2>1. pc' = "idle" /\ cur' = NoHandle /\ NoHandle \notin Handles
    BY <1>1, NodesAssumption DEF EndCall
  <2>2. \A h \in live' :
          handle'[h] = Initialized \/ handle'[h].load_state = "loaded"
    BY <1>1, <1>2, <1>4, <1>5 DEF IInv, TypeOK, Custody, Calling
  <2> QED BY <1>1, <1>8, <2>1, <2>2 DEF IInv, Custody, Calling, shared
<1>10. Shared'
  BY <1>1 DEF IInv, Shared, NothingLeftBehind, clusterlist_module_found,
              shared, statics
<1> QED BY <1>7, <1>9, <1>10 DEF IInv

LEMMA ReadingStep ==
  ASSUME IInv, ReadStep
  PROVE  IInv'
<1>1. pc = "read" /\ Calling
  BY DEF ReadStep, ReadLine, ReadHost, ReadMetric, ReadError, ReadEOF, Calling
<1>2. IsHandle(handle[cur]) /\ cur \in Handles
  BY <1>1, LoadingHolds DEF IInv, TypeOK
<1>3. ASSUME NEW n \in Names, NEW up \in BOOLEAN, Report(n, up)
      PROVE  IInv'
  <2> DEFINE r == AddNode(handle[cur], n, up)
  <2>1. /\ handle' = [handle EXCEPT ![cur] = r] /\ said' = said \cup {n}
        /\ UNCHANGED <<live, shared, outside, pc, cur, targets, listed, i>>
    BY <1>3 DEF Report
  <2>2. /\ IsHandle(r) /\ r.load_state = handle[cur].load_state
        /\ r.ltdl_initialized = handle[cur].ltdl_initialized
    BY <1>2, AddNodeType
  <2> HIDE DEF r
  <2> QED BY <1>1, <2>1, <2>2, ReportStep
<1>4. ASSUME AttemptFails(handle[cur])
      PROVE  IInv'
  BY <1>1, <1>2, <1>4, AttemptFailsStep
<1>5. CASE ReadLine
  BY <1>3, <1>5 DEF ReadLine, Unsaid
<1>6. CASE ReadHost
  <2>1. PICK n \in Names, up \in BOOLEAN :
          AttemptFails(handle[cur]) \/ Report(n, up)
    BY <1>6 DEF ReadHost, Unsaid
  <2> QED BY <1>3, <1>4, <2>1
<1>7. CASE ReadMetric
  <2>1. PICK n \in Names, up \in BOOLEAN :
          LET rec == AddNode(handle[cur], n, up) IN
          \/ /\ said' = said \cup {n}
             /\ handle' = [handle EXCEPT ![cur] = AddLastUpTime(rec, n)]
             /\ UNCHANGED <<live, shared, outside, pc, cur, targets, listed, i>>
          \/ AttemptFails(rec)
    BY <1>7 DEF ReadMetric, Unsaid
  <2> DEFINE r == AddNode(handle[cur], n, up)
             s == AddLastUpTime(r, n)
  <2>2. /\ IsHandle(r) /\ r.load_state = handle[cur].load_state
        /\ r.ltdl_initialized = handle[cur].ltdl_initialized
    BY <1>2, AddNodeType
  <2>3. /\ IsHandle(s) /\ s.load_state = handle[cur].load_state
        /\ s.ltdl_initialized = handle[cur].ltdl_initialized
    BY <2>2, AddLastUpTimeType
  <2>4. \/ /\ said' = said \cup {n} /\ handle' = [handle EXCEPT ![cur] = s]
           /\ UNCHANGED <<live, shared, outside, pc, cur, targets, listed, i>>
        \/ AttemptFails(r)
    BY <2>1
  <2> HIDE DEF r, s
  <2> QED BY <1>1, <2>2, <2>3, <2>4, ReportStep, AttemptFailsStep
<1>8. CASE ReadError
  BY <1>4, <1>8 DEF ReadError
<1>9. CASE ReadEOF
  BY <1>9, ConnectStep
<1> QED BY <1>5, <1>6, <1>7, <1>8, <1>9 DEF ReadStep

LEMMA IInvNext == IInv /\ [Next]_vars => IInv'
<1> SUFFICES ASSUME IInv, [Next]_vars PROVE IInv'
  OBVIOUS
<1>1. ASSUME NEW h \in Handles,
             \/ HandleCreate(h) \/ HandleDestroy(h)
             \/ LoadLoaded(h) \/ LoadCall(h)
      PROVE  IInv'
  BY <1>1, CreateStep, DestroyStep, CallStep
<1>2. ASSUME \/ \E h \in Handles : \/ NodelistCreate(h) \/ NodelistClear(h)
                                   \/ NodelistDestroy(h)
             \/ LoadNull \/ EditFile \/ UNCHANGED vars
      PROVE  IInv'
  <2>1. /\ UNCHANGED <<live, handle, shared, lister, call>>
        /\ file' \in HostsFiles /\ pc' \in {pc, "crashed"}
    BY <1>2 DEF NodelistCreate, NodelistClear, NodelistDestroy, LoadNull,
                EditFile, vars, outside, IInv, TypeOK
  <2> QED BY <2>1, OutsideStep
<1>3. ASSUME NoServerLeft
      PROVE  IInv'
  BY <1>3, FailStep DEF NoServerLeft, Calling
<1>4. ASSUME LoadStep
      PROVE  IInv'
  BY <1>3, <1>4, LtDlInitStep, LoadBackendStep, LoadClusterlistStep,
     SetupClusterlistStep, LoadConfigStep, ConnectStep, CrashStep, CompareStep
  DEF LoadStep
<1>5. ASSUME ReadStep
      PROVE  IInv'
  BY <1>5, ReadingStep
<1> QED BY <1>1, <1>2, <1>4, <1>5 DEF Next

(* In every state the handles, the modules and the call in progress are    *)
(* well typed, and the references to libltdl are accounted for: IInv.      *)
THEOREM Accounted == Spec => []IInv
BY IInvInit, IInvNext, PTL DEF Spec

(* Whichever step of nodeupdown_load_data fails and in whatever order the  *)
(* handles are loaded and destroyed, every lt_dlinit is matched by one     *)
(* lt_dlexit.                                                              *)
THEOREM ReferencesBalanced == Spec => []LtdlBalanced
<1>1. IInv => LtdlBalanced
  BY DEF IInv, Custody, LtdlBalanced, Held
<1> QED BY <1>1, Accounted, PTL

(* _free_handle_data of the last handle that holds libltdl closes every    *)
(* module, and forgets the cluster list and the handle of cerebro.         *)
THEOREM LastOneCleansUp == Spec => []NothingLeftBehind
<1>1. IInv => NothingLeftBehind
  BY DEF IInv, Shared
<1> QED BY <1>1, Accounted, PTL
-----------------------------------------------------------------------------
(* What a load makes of the cluster.  The invariant holds of the handles   *)
(* of a process whose hosts file, or genders database, is not edited and   *)
(* is read whole: without the first a handle knows the cluster that was,   *)
(* and without the second a part of it.                                    *)
Steady == ~MayEdit /\ ~MayTruncate

FileNodes == IF file = NoFile THEN {} ELSE ToSet(file)

(* Nodes outside the cluster are ignored; an empty hosts file ignores none.*)
Filtered == lister = "genders" \/ (lister = "hostsfile" /\ FileNodes # {})

Fresh(r) ==
  /\ \A n \in Names : r.up_nodes[n] = 0 /\ r.down_nodes[n] = 0
  /\ r.last_up_times = {}
Once(r) == \A n \in Names : r.up_nodes[n] + r.down_nodes[n] <= 1
Within(r) == Filtered => \A n \in Names : Discovered(r, n) => n \in FileNodes
Complete(r) == Filtered => \A n \in FileNodes : Discovered(r, n)
UpTimed(r) ==
  \A n \in Names : r.up_nodes[n] > 0 =>
    \E m \in r.last_up_times : Short[m] = Short[n]
Timed(r) == r.last_up_times # {} => UpTimed(r)

(* The cluster list of the process, when its module is set up, is the file.*)
Listing ==
  /\ pc \in {"idle", "config", "connect", "read", "compare"} =>
       (clusterlist_module_found =>
          hosts \in Seq(Nodes) /\ ToSet(hosts) = FileNodes)
  /\ pc \in {"setup", "config", "connect", "read", "compare"} =>
       modules.clusterlist = lister

(* A load has nothing until it connects, and then what the servers said:   *)
(* the one being read, unless one before it failed midway.                 *)
Unread == pc \in {"init", "backend", "clusterlist", "setup", "config"}

Single(r) ==
  /\ Once(r)
  /\ \A n \in Names : Discovered(r, n) => \E m \in said : Short[m] = Short[n]

Collected(r) ==
  /\ r.mixed \/ Single(r)
  /\ Within(r)
  /\ modules.backend = "cerebro" => UpTimed(r)
  /\ modules.backend # "cerebro" => r.last_up_times = {}

Reading ==
  /\ pc = "idle" => said = {}
  /\ Unread => said = {} /\ Fresh(handle[cur])
  /\ pc = "connect" => said = {}
  /\ pc \in {"connect", "read", "compare"} => Collected(handle[cur])

Exact(r) == (r.mixed \/ Once(r)) /\ Within(r) /\ Complete(r) /\ Timed(r)
Exactness ==
  /\ Listing /\ Reading
  /\ \A h \in live : handle[h].load_state = "loaded" => Exact(handle[h])
-----------------------------------------------------------------------------
LEMMA FreshInitialized == Fresh(Initialized)
BY DEF Fresh, Initialized, None

LEMMA SameName ==
  ASSUME NEW n \in Names
  PROVE  GetNodename(n) \in Names /\ Short[GetNodename(n)] = Short[n]
BY ChoicesAssumption DEF GetNodename, Shortened, Nodes

(* What nodeupdown_add_up_node and nodeupdown_add_down_node do.            *)
LEMMA AddNodeEffect ==
  ASSUME NEW r, IsHandle(r), NEW n \in Names, NEW up \in BOOLEAN
  PROVE  \/ AddNode(r, n, up) = r
         \/ /\ InCluster(n)
            /\ AddNode(r, n, up).last_up_times = r.last_up_times
            /\ \A k \in Names :
                 /\ k # GetNodename(n) =>
                      /\ AddNode(r, n, up).up_nodes[k] = r.up_nodes[k]
                      /\ AddNode(r, n, up).down_nodes[k] = r.down_nodes[k]
                 /\ k = GetNodename(n) =>
                      AddNode(r, n, up).up_nodes[k] + AddNode(r, n, up).down_nodes[k]
                        = r.up_nodes[k] + r.down_nodes[k] + 1
<1> DEFINE g == GetNodename(n)
           u == Push(r.up_nodes, g)
           d == Push(r.down_nodes, g)
<1>1. g \in Names
  BY SameName
<1>2. /\ u[g] = r.up_nodes[g] + 1 /\ d[g] = r.down_nodes[g] + 1
      /\ r.up_nodes[g] \in Nat /\ r.down_nodes[g] \in Nat
      /\ \A k \in Names : k # g => u[k] = r.up_nodes[k] /\ d[k] = r.down_nodes[k]
  BY <1>1 DEF IsHandle, Push
<1> HIDE DEF g, u, d
<1>3. /\ [r EXCEPT !.up_nodes = u].up_nodes = u
      /\ [r EXCEPT !.up_nodes = u].down_nodes = r.down_nodes
      /\ [r EXCEPT !.up_nodes = u].last_up_times = r.last_up_times
  BY DEF IsHandle
<1>4. /\ [r EXCEPT !.down_nodes = d].down_nodes = d
      /\ [r EXCEPT !.down_nodes = d].up_nodes = r.up_nodes
      /\ [r EXCEPT !.down_nodes = d].last_up_times = r.last_up_times
  BY DEF IsHandle
<1>5. \/ AddNode(r, n, up) = r
      \/ InCluster(n) /\ AddNode(r, n, up) = [r EXCEPT !.up_nodes = u]
      \/ InCluster(n) /\ AddNode(r, n, up) = [r EXCEPT !.down_nodes = d]
  BY DEF AddNode, u, d, g
<1>6. GetNodename(n) = g
  BY DEF g
<1>7. CASE AddNode(r, n, up) = r
  BY <1>7
<1>8. CASE InCluster(n) /\ AddNode(r, n, up) = [r EXCEPT !.up_nodes = u]
  BY <1>2, <1>3, <1>6, <1>8
<1>9. CASE InCluster(n) /\ AddNode(r, n, up) = [r EXCEPT !.down_nodes = d]
  BY <1>2, <1>4, <1>6, <1>9
<1> QED BY <1>5, <1>7, <1>8, <1>9

(* A name the cluster list takes is one of its nodes.                      *)
LEMMA InClusterLemma ==
  ASSUME TypeOK, Listing, pc = "read", Filtered, NEW n \in Names, InCluster(n)
  PROVE  GetNodename(n) \in FileNodes
<1>1. /\ modules.clusterlist = lister /\ lister \in {"hostsfile", "genders"}
      /\ hosts \in Seq(Nodes) /\ ToSet(hosts) = FileNodes
  BY DEF Listing, Filtered, clusterlist_module_found
<1>2. hosts = <<>> => ToSet(hosts) = {}
  BY DEF ToSet
<1>3. Short[n] \in FileNodes
  BY <1>1, <1>2 DEF InCluster, HostsfileIsNode, GendersIsNode, Filtered
<1> QED BY <1>1, <1>3 DEF GetNodename, Shortened, clusterlist_module_found

(* A host the server reports for the first time.                           *)
LEMMA CollectedAdd ==
  ASSUME TypeOK, Listing, pc = "read", NEW r, IsHandle(r), Collected(r),
         NEW n \in Unsaid, NEW up \in BOOLEAN
  PROVE  LET a == AddNode(r, n, up) IN
         /\ a.mixed = r.mixed
         /\ r.mixed \/ Once(a)
         /\ r.mixed \/ \A k \in Names : Discovered(a, k) =>
              \E m \in said \cup {n} : Short[m] = Short[k]
         /\ Within(a) /\ a.last_up_times = r.last_up_times
         /\ \A k \in Names : a.up_nodes[k] > 0 =>
              r.up_nodes[k] > 0 \/ Short[k] = Short[n]
<1> DEFINE a == AddNode(r, n, up)
           g == GetNodename(n)
<1>1. n \in Names /\ \A m \in said : Short[m] # Short[n]
  BY DEF Unsaid
<1>2. g \in Names /\ Short[g] = Short[n]
  BY <1>1, SameName
<1>5. a.mixed = r.mixed
  BY <1>1, AddNodeType
<1>3. CASE a = r
  BY <1>3 DEF Collected, Single
<1>4. CASE a # r
  <2>1. /\ InCluster(n) /\ a.last_up_times = r.last_up_times
        /\ \A k \in Names :
             /\ k # g => /\ a.up_nodes[k] = r.up_nodes[k]
                         /\ a.down_nodes[k] = r.down_nodes[k]
             /\ k = g => a.up_nodes[k] + a.down_nodes[k]
                           = r.up_nodes[k] + r.down_nodes[k] + 1
    BY <1>1, <1>4, AddNodeEffect
  <2>2. \A k \in Names : /\ r.up_nodes[k] \in Nat /\ r.down_nodes[k] \in Nat
                         /\ a.up_nodes[k] \in Nat /\ a.down_nodes[k] \in Nat
    BY <1>1, AddNodeType DEF IsHandle
  <2>3. r.mixed \/ ~Discovered(r, g)
    BY <1>1, <1>2 DEF Collected, Single
  <2> HIDE DEF a, g
  <2>4. r.mixed \/ Once(a)
    <3> SUFFICES ASSUME ~r.mixed, NEW k \in Names
                 PROVE  a.up_nodes[k] + a.down_nodes[k] <= 1
      BY DEF Once
    <3>1. CASE k = g
      BY <2>1, <2>2, <2>3, <3>1 DEF Discovered
    <3>2. CASE k # g
      BY <2>1, <3>2 DEF Collected, Single, Once
    <3> QED BY <3>1, <3>2
  <2>5. \A k \in Names : Discovered(a, k) => Discovered(r, k) \/ k = g
    BY <2>1 DEF Discovered
  <2>6. Within(a)
    BY <1>1, <2>1, <2>5, InClusterLemma DEF Collected, Within, g
  <2>7. r.mixed \/ \A k \in Names : Discovered(a, k) =>
          \E m \in said \cup {n} : Short[m] = Short[k]
    BY <1>2, <2>5 DEF Collected, Single
  <2>8. \A k \in Names : a.up_nodes[k] > 0 =>
          r.up_nodes[k] > 0 \/ Short[k] = Short[n]
    BY <1>2, <2>1
  <2> QED BY <1>5, <2>1, <2>4, <2>6, <2>7, <2>8 DEF a
<1> QED BY <1>3, <1>4, <1>5

(* compare_to_clusterlist adds the nodes of the list nobody spoke of.      *)
LEMMA ComparedExact ==
  ASSUME TypeOK, Listing, pc = "compare", NEW r, IsHandle(r), Collected(r)
  PROVE  Exact(CompareToClusterlist(r))
<1> DEFINE c == CompareToClusterlist(r)
<1>1. /\ \A n \in Names : r.up_nodes[n] \in Nat /\ r.down_nodes[n] \in Nat
      /\ r.mixed \/ Once(r)
      /\ Within(r) /\ Timed(r)
  BY DEF IsHandle, Collected, Single, Timed
<1>2. CASE ~clusterlist_module_found
  <2>1. c = r
    BY <1>2 DEF CompareToClusterlist
  <2>2. ~Filtered
    BY <1>2 DEF Listing, Filtered, clusterlist_module_found
  <2> QED BY <1>1, <2>1, <2>2 DEF Exact, Complete
<1>3. CASE clusterlist_module_found
  <2> DEFINE d == [n \in Names |->
                     IF n \in NotDiscovered(r) THEN 1 ELSE r.down_nodes[n]]
  <2>1. c = [r EXCEPT !.down_nodes = d]
    BY <1>3 DEF CompareToClusterlist
  <2>2. /\ [r EXCEPT !.down_nodes = d].down_nodes = d
        /\ [r EXCEPT !.down_nodes = d].up_nodes = r.up_nodes
        /\ [r EXCEPT !.down_nodes = d].last_up_times = r.last_up_times
    BY DEF IsHandle
  <2>3. c.down_nodes = d /\ c.up_nodes = r.up_nodes
        /\ c.last_up_times = r.last_up_times
    BY <2>1, <2>2
  <2>4. ToSet(hosts) = FileNodes /\ FileNodes \subseteq Names
    <3>1. ToSet(hosts) = FileNodes /\ hosts \in Seq(Nodes)
      BY <1>3 DEF Listing
    <3> QED BY <3>1 DEF ToSet, Nodes
  <2>5. \A n \in Names : n \in NotDiscovered(r) <=>
          n \in FileNodes /\ ~Discovered(r, n)
    BY <2>4 DEF NotDiscovered
  <2>6. \A n \in Names :
          /\ c.up_nodes[n] = r.up_nodes[n]
          /\ c.down_nodes[n] = IF n \in FileNodes /\ ~Discovered(r, n) THEN 1
                               ELSE r.down_nodes[n]
    BY <2>3, <2>5
  <2>12. c.mixed = r.mixed
    BY CompareType
  <2> HIDE DEF c, d
  <2>7. c.mixed \/ Once(c)
    BY <2>12, <1>1, <2>6 DEF Once, Discovered
  <2>8. \A n \in Names : Discovered(c, n) => Discovered(r, n) \/ n \in FileNodes
    BY <2>6 DEF Discovered
  <2>9. Within(c)
    BY <1>1, <2>8 DEF Within
  <2>10. Complete(c)
    BY <2>4, <2>6 DEF Complete, Discovered
  <2>11. Timed(c)
    BY <1>1, <2>3, <2>6 DEF Timed, UpTimed
  <2> QED BY <2>7, <2>9, <2>10, <2>11 DEF Exact, c
<1> QED BY <1>2, <1>3

LEMMA SteadyFile ==
  ASSUME Steady, [Next]_vars
  PROVE  UNCHANGED <<lister, file>>
BY DEF Steady, Next, vars, outside, HandleCreate, HandleDestroy, LoadLoaded,
  LoadCall, NodelistCreate, NodelistClear, NodelistDestroy, LoadNull, EditFile,
  LoadStep, LtDlInit, LoadBackend, LoadClusterlist, SetupClusterlist,
  LoadConfig, NoServerLeft, Connect, UseAfterFree, Compare, ReadStep, ReadLine,
  ReadHost, ReadMetric, ReadError, ReadEOF, Report, AttemptFails, Fail

(* What is exact stays so while the file stays as it is.                   *)
LEMMA ExactKept ==
  ASSUME UNCHANGED <<lister, file>>, NEW h \in Handles, Exact(handle'[h])
  PROVE  Exact(handle[h])'
BY DEF Exact, Once, Within, Complete, Timed, UpTimed, Discovered, Filtered,
       FileNodes

LEMMA LoadedKept ==
  ASSUME Exactness, UNCHANGED <<lister, file>>, live' \subseteq Handles,
         \A h \in live' : handle'[h].load_state = "loaded" =>
           (h \in live /\ handle'[h] = handle[h]) \/ Exact(handle'[h])
  PROVE  (\A h \in live : handle[h].load_state = "loaded" => Exact(handle[h]))'
<1>1. \A h \in live' : handle'[h].load_state = "loaded" => Exact(handle'[h])
  BY DEF Exactness
<1> QED BY <1>1, ExactKept
-----------------------------------------------------------------------------
(* The cleanup of a handle.                                                *)
LEMMA ExactFree ==
  ASSUME IInv, Exactness, UNCHANGED <<lister, file>>,
         NEW h \in Handles, h \in live, FreeHandleData(h),
         live' \in {live, live \ {h}}, UNCHANGED outside,
         pc' = "idle", said' = {}
  PROVE  Exactness'
<1>1. /\ handle'[h] = Initialized /\ modules' = NoModules
      /\ \A g \in Handles \ {h} : handle'[g] = handle[g]
  BY FreeLemma
<1>2. Listing'
  BY <1>1 DEF Listing, clusterlist_module_found, NoModules
<1>3. Reading'
  BY DEF Reading, Unread
<1>4. live \subseteq Handles
  BY DEF IInv, TypeOK
<1>5. \A g \in live' : handle'[g].load_state = "loaded" =>
        g \in live /\ handle'[g] = handle[g]
  BY <1>1, <1>4 DEF Initialized
<1> QED BY <1>2, <1>3, <1>4, <1>5, LoadedKept DEF Exactness

LEMMA ExactFail ==
  ASSUME IInv, Exactness, UNCHANGED <<lister, file>>, Calling, Fail
  PROVE  Exactness'
BY ExactFree DEF Fail, EndCall, IInv, Custody, TypeOK

LEMMA ExactIdle ==
  ASSUME IInv, Exactness, UNCHANGED <<lister, file>>, NEW h \in Handles,
         HandleCreate(h) \/ HandleDestroy(h) \/ LoadLoaded(h)
  PROVE  Exactness'
<1>1. CASE HandleDestroy(h) \/ LoadLoaded(h)
  <2>1. /\ h \in live /\ FreeHandleData(h) /\ pc' = "idle" /\ said' = said
        /\ live' \in {live, live \ {h}} /\ UNCHANGED outside /\ pc = "idle"
    BY <1>1 DEF HandleDestroy, LoadLoaded, call
  <2> QED BY <2>1, ExactFree DEF Exactness, Reading
<1>2. CASE HandleCreate(h)
  <2>1. /\ pc = "idle" /\ pc' = "idle" /\ said' = said
        /\ live' = live \cup {h} /\ handle' = [handle EXCEPT ![h] = Initialized]
        /\ modules' = modules /\ hosts' = hosts
    BY <1>2 DEF HandleCreate, call, shared, statics
  <2>2. /\ handle'[h] = Initialized
        /\ \A g \in Handles \ {h} : handle'[g] = handle[g]
        /\ live \subseteq Handles
    BY <2>1 DEF IInv, TypeOK
  <2>3. Listing'
    BY <2>1 DEF Exactness, Listing, clusterlist_module_found, FileNodes
  <2>4. Reading'
    BY <2>1 DEF Exactness, Reading, Unread
  <2>5. \A g \in live' : handle'[g].load_state = "loaded" =>
          g \in live /\ handle'[g] = handle[g]
    BY <2>1, <2>2 DEF Initialized
  <2> QED BY <2>1, <2>2, <2>3, <2>4, <2>5, LoadedKept DEF Exactness
<1> QED BY <1>1, <1>2

LEMMA ExactOutside ==
  ASSUME IInv, Exactness,
         UNCHANGED <<live, handle, shared, lister, file, call>>,
         pc' \in {pc, "crashed"}
  PROVE  Exactness'
<1>1. Listing'
  BY DEF Exactness, Listing, clusterlist_module_found, FileNodes, shared,
         statics
<1>2. Reading'
  BY DEF Exactness, Reading, Unread, Fresh, Collected, Single, Once, Within,
         UpTimed, Discovered, Filtered, FileNodes, shared, call
<1> QED BY <1>1, <1>2, LoadedKept DEF Exactness, IInv, TypeOK
-----------------------------------------------------------------------------
(* The steps of a load before it reads.                                    *)
LEMMA ExactCall ==
  ASSUME IInv, IInv', Exactness, UNCHANGED <<lister, file>>, NEW h \in Handles,
         LoadCall(h)
  PROVE  Exactness'
<1>1. /\ pc = "idle" /\ pc' = "init" /\ said' = said /\ cur' = h
      /\ UNCHANGED <<live, handle>>
  BY DEF LoadCall
<1>2. handle'[cur'] = Initialized
  BY <1>1 DEF IInv, Custody
<1>3. Listing'
  BY <1>1 DEF Listing
<1>4. Reading'
  BY <1>1, <1>2, FreshInitialized DEF Exactness, Reading, Fresh
<1> QED BY <1>1, <1>3, <1>4, LoadedKept DEF Exactness, IInv, TypeOK

(* A step that leaves the lists of the handle as they are.                 *)
LEMMA ExactPrepare ==
  ASSUME IInv, Exactness, UNCHANGED <<lister, file>>, Calling, Unread,
         pc' \in {"backend", "clusterlist", "setup", "config", "connect"},
         UNCHANGED <<live, cur, said>>, Listing',
         \A h \in Handles \ {cur} : handle'[h] = handle[h],
         handle'[cur].up_nodes = handle[cur].up_nodes,
         handle'[cur].down_nodes = handle[cur].down_nodes,
         handle'[cur].last_up_times = handle[cur].last_up_times,
         handle'[cur].load_state # "loaded"
  PROVE  Exactness'
<1>1. Fresh(handle[cur]) /\ said = {} /\ live \subseteq Handles
  BY DEF Exactness, Reading, IInv, TypeOK
<1>4. Fresh(handle'[cur])
  BY <1>1 DEF Fresh
<1>5. Collected(handle[cur])'
  BY <1>4 DEF Fresh, Collected, Single, Once, Within, UpTimed, Discovered
<1>2. Reading'
  BY <1>1, <1>4, <1>5 DEF Reading, Fresh, Unread
<1>3. \A h \in live' : handle'[h].load_state = "loaded" =>
        h \in live /\ handle'[h] = handle[h]
  BY <1>1
<1> QED BY <1>1, <1>2, <1>3, LoadedKept DEF Exactness

LEMMA ExactLtDlInit ==
  ASSUME IInv, Exactness, UNCHANGED <<lister, file>>, LtDlInit
  PROVE  Exactness'
<1>1. Calling /\ Unread /\ pc = "init"
  BY DEF LtDlInit, Calling, Unread
<1>2. CASE Fail
  BY <1>1, <1>2, ExactFail
<1>3. CASE ~Fail
  <2> DEFINE r == [handle[cur] EXCEPT !.ltdl_initialized = TRUE]
  <2>1. /\ handle' = [handle EXCEPT ![cur] = r] /\ pc' = "backend"
        /\ UNCHANGED <<live, cur, said>>
    BY <1>3 DEF LtDlInit, call
  <2>2. cur \in Handles /\ IsHandle(handle[cur])
    BY <1>1 DEF IInv, TypeOK, Custody
  <2>3. /\ r.up_nodes = handle[cur].up_nodes
        /\ r.down_nodes = handle[cur].down_nodes
        /\ r.last_up_times = handle[cur].last_up_times
        /\ r.load_state = handle[cur].load_state
    BY <2>2 DEF IsHandle
  <2> HIDE DEF r
  <2>4. handle'[cur] = r /\ \A h \in Handles \ {cur} : handle'[h] = handle[h]
    BY <2>1, <2>2 DEF IInv, TypeOK
  <2>5. Listing' /\ r.load_state # "loaded"
    BY <1>1, <2>1, <2>3 DEF Listing, IInv, Custody
  <2> QED BY <1>1, <2>1, <2>3, <2>4, <2>5, ExactPrepare
<1> QED BY <1>2, <1>3

LEMMA ExactModules ==
  ASSUME IInv, Exactness, UNCHANGED <<lister, file>>,
         LoadBackend \/ LoadClusterlist
  PROVE  Exactness'
<1>1. Calling /\ Unread /\ cur \in live
  BY DEF LoadBackend, LoadClusterlist, Calling, Unread, IInv, Custody
<1>2. CASE Fail
  BY <1>1, <1>2, ExactFail
<1>3. CASE ~Fail
  <2>1. UNCHANGED <<live, handle, cur, said>>
    BY <1>3 DEF LoadBackend, LoadClusterlist, call
  <2>2. \/ pc' = "clusterlist"
        \/ pc' = "setup" /\ modules' = [modules EXCEPT !.clusterlist = lister]
    BY <1>3 DEF LoadBackend, LoadClusterlist
  <2>3. Listing'
    BY <2>2 DEF Listing, IInv, TypeOK
  <2> QED BY <1>1, <2>1, <2>2, <2>3, ExactPrepare DEF IInv, Custody
<1> QED BY <1>2, <1>3

LEMMA ExactSetup ==
  ASSUME Steady, IInv, Exactness, UNCHANGED <<lister, file>>, SetupClusterlist
  PROVE  Exactness'
<1>1. Calling /\ Unread /\ cur \in live /\ pc = "setup"
  BY DEF SetupClusterlist, Calling, Unread, IInv, Custody
<1>2. CASE Fail
  BY <1>1, <1>2, ExactFail
<1>3. CASE ~Fail
  <2>1. /\ pc' = "config" /\ modules' = modules
        /\ hosts' \in CASE modules.clusterlist = "hostsfile" -> HostsfileSetup
                        [] modules.clusterlist = "genders" -> GendersSetup
                        [] OTHER -> {hosts}
        /\ UNCHANGED <<live, handle, cur, said>>
    BY <1>3 DEF SetupClusterlist, call
  <2>2. \A s \in HostsfileSetup : s \in Seq(Nodes) /\ ToSet(s) = FileNodes
    <3>1. CASE file = NoFile
      BY <3>1 DEF HostsfileSetup, FileNodes, ToSet
    <3>2. CASE file # NoFile
      <4>1. file \in Seq(Nodes)
        BY <3>2, ChoicesAssumption DEF IInv, TypeOK
      <4>2. SubSeq(file, 1, Len(file)) = file
        BY <4>1
      <4> QED BY <3>2, <4>1, <4>2 DEF HostsfileSetup, Steady, FileNodes
    <3> QED BY <3>1, <3>2
  <2>3. \A s \in GendersSetup : s \in Seq(Nodes) /\ ToSet(s) = FileNodes
    BY GendersSetupType DEF FileNodes, IInv
  <2>4. modules.clusterlist = lister
    BY <1>1 DEF Exactness, Listing
  <2>5. clusterlist_module_found =>
          hosts' \in Seq(Nodes) /\ ToSet(hosts') = FileNodes
    BY <2>1, <2>2, <2>3 DEF clusterlist_module_found
  <2>6. Listing'
    BY <2>1, <2>4, <2>5 DEF Listing, clusterlist_module_found, FileNodes
  <2> QED BY <1>1, <2>1, <2>6, ExactPrepare DEF IInv, Custody
<1> QED BY <1>2, <1>3

LEMMA ExactConfig ==
  ASSUME IInv, Exactness, UNCHANGED <<lister, file>>, LoadConfig
  PROVE  Exactness'
<1>1. Calling /\ Unread /\ pc = "config"
  BY DEF LoadConfig, Calling, Unread
<1>2. CASE Fail
  BY <1>1, <1>2, ExactFail
<1>3. CASE ~Fail
  <2> DEFINE r == [handle[cur] EXCEPT !.load_state = "setup"]
  <2>1. /\ handle' = [handle EXCEPT ![cur] = r] /\ pc' = "connect"
        /\ modules' = [modules EXCEPT !.config = TRUE] /\ hosts' = hosts
        /\ UNCHANGED <<live, cur, said>>
    BY <1>3 DEF LoadConfig, call, statics
  <2>2. cur \in Handles /\ IsHandle(handle[cur])
    BY <1>1 DEF IInv, TypeOK, Custody
  <2>3. /\ r.up_nodes = handle[cur].up_nodes
        /\ r.down_nodes = handle[cur].down_nodes
        /\ r.last_up_times = handle[cur].last_up_times
        /\ r.load_state = "setup"
    BY <2>2 DEF IsHandle
  <2> HIDE DEF r
  <2>4. handle'[cur] = r /\ \A h \in Handles \ {cur} : handle'[h] = handle[h]
    BY <2>1, <2>2 DEF IInv, TypeOK
  <2>5. modules'.clusterlist = modules.clusterlist
    BY <2>1 DEF IInv, TypeOK
  <2>6. Listing'
    BY <1>1, <2>1, <2>5
    DEF Exactness, Listing, clusterlist_module_found, FileNodes
  <2> QED BY <1>1, <2>1, <2>3, <2>4, <2>6, ExactPrepare
<1> QED BY <1>2, <1>3
-----------------------------------------------------------------------------
(* ... and over the servers.                                               *)
LEMMA CollectedKept ==
  ASSUME UNCHANGED <<lister, file, modules>>, Within(handle'[cur']),
         handle'[cur'].mixed \/ Once(handle'[cur']),
         handle'[cur'].mixed \/ \A k \in Names : Discovered(handle'[cur'], k) =>
           \E m \in said' : Short[m] = Short[k],
         modules.backend = "cerebro" => UpTimed(handle'[cur']),
         modules.backend # "cerebro" => handle'[cur'].last_up_times = {}
  PROVE  Collected(handle[cur])'
BY DEF Collected, Single, Once, Within, UpTimed, Discovered, Filtered, FileNodes

LEMMA ExactAttempt ==
  ASSUME IInv, Exactness, UNCHANGED <<lister, file>>,
         pc \in {"connect", "read"}, NEW r, IsHandle(r),
         r.load_state # "loaded", Within(r),
         modules.backend = "cerebro" => UpTimed(r),
         modules.backend # "cerebro" => r.last_up_times = {},
         AttemptFails(r)
  PROVE  Exactness'
<1>1. Calling /\ cur \in live /\ cur \in Handles /\ live \subseteq Handles
  BY DEF Calling, IInv, Custody, TypeOK
<1>2. CASE ~listed
  BY <1>1, <1>2, ExactFail DEF AttemptFails
<1>3. CASE listed
  <2> DEFINE s == GoneOn(r)
  <2>1. /\ pc' = "connect" /\ said' = {} /\ cur' = cur
        /\ handle' = [handle EXCEPT ![cur] = s]
        /\ live' = live /\ modules' = modules /\ hosts' = hosts
    BY <1>3 DEF AttemptFails, shared, statics
  <2>2. /\ IsHandle(s) /\ s.load_state = r.load_state
        /\ s.up_nodes = r.up_nodes /\ s.down_nodes = r.down_nodes
        /\ s.last_up_times = r.last_up_times
        /\ s.mixed = (r.mixed \/ \E n \in Names : Discovered(r, n))
    BY GoneOnType
  <2> HIDE DEF s
  <2>3. Listing'
    BY <2>1 DEF Exactness, Listing, clusterlist_module_found, FileNodes
  <2>4. handle'[cur] = s
    BY <1>1, <2>1 DEF IInv, TypeOK
  <2>7. s.mixed \/ \A n \in Names : ~Discovered(s, n)
    BY <2>2 DEF Discovered
  <2>8. s.mixed \/ Once(s)
    <3>1. \A n \in Names : s.up_nodes[n] \in Nat /\ s.down_nodes[n] \in Nat
      BY <2>2 DEF IsHandle
    <3> QED BY <2>7, <3>1 DEF Once, Discovered
  <2>9. Within(s)
    BY <2>2 DEF Within, Discovered
  <2>10. /\ modules.backend = "cerebro" => UpTimed(s)
         /\ modules.backend # "cerebro" => s.last_up_times = {}
    BY <2>2 DEF UpTimed
  <2>11. Collected(handle[cur])'
    BY <2>1, <2>4, <2>7, <2>8, <2>9, <2>10, CollectedKept
  <2>5. Reading'
    BY <2>1, <2>11 DEF Reading, Unread
  <2>6. \A h \in live' : handle'[h].load_state = "loaded" =>
          h \in live /\ handle'[h] = handle[h]
    BY <1>1, <2>1, <2>2, <2>4 DEF IInv, TypeOK
  <2> QED BY <1>1, <2>1, <2>3, <2>5, <2>6, LoadedKept DEF Exactness
<1> QED BY <1>2, <1>3

(* The connection, the lines, and the end of the response.                 *)
LEMMA ExactRead ==
  ASSUME IInv, Exactness, UNCHANGED <<lister, file>>,
         pc \in {"connect", "read"}, pc' \in {"read", "compare"},
         UNCHANGED <<live, cur, modules, hosts>>,
         \A h \in Handles \ {cur} : handle'[h] = handle[h],
         handle'[cur].load_state # "loaded",
         Collected(handle[cur])'
  PROVE  Exactness'
<1>1. Listing'
  BY DEF Exactness, Listing, clusterlist_module_found, FileNodes
<1>2. Reading'
  BY DEF Reading, Unread
<1>3. live \subseteq Handles
  BY DEF IInv, TypeOK
<1> QED BY <1>1, <1>2, <1>3, LoadedKept DEF Exactness

LEMMA ExactConnect ==
  ASSUME IInv, Exactness, UNCHANGED <<lister, file>>,
         Connect \/ ReadEOF
  PROVE  Exactness'
<1>1. /\ pc \in {"connect", "read"} /\ IsHandle(handle[cur])
      /\ handle[cur].load_state # "loaded" /\ Collected(handle[cur])
  BY DEF Connect, ReadEOF, IInv, TypeOK, Custody, Calling, Exactness, Reading
<1>2. CASE AttemptFails(handle[cur])
  BY <1>1, <1>2, ExactAttempt DEF Collected
<1>3. CASE ~AttemptFails(handle[cur])
  <2>1. /\ pc' \in {"read", "compare"} /\ handle' = handle
        /\ UNCHANGED <<live, cur, modules, hosts, said>>
    BY <1>3 DEF Connect, ReadEOF, shared, statics, call
  <2>3. Collected(handle[cur])'
    BY <1>1, <2>1, CollectedKept DEF Collected, Single
  <2> QED BY <1>1, <2>1, <2>3, ExactRead
<1> QED BY <1>2, <1>3

LEMMA ExactReading ==
  ASSUME IInv, Exactness, UNCHANGED <<lister, file>>, ReadStep
  PROVE  Exactness'
<1>1. pc = "read" /\ Calling
  BY DEF ReadStep, ReadLine, ReadHost, ReadMetric, ReadError, ReadEOF, Calling
<1>2. /\ TypeOK /\ IsHandle(handle[cur]) /\ cur \in Handles
      /\ handle[cur].load_state # "loaded"
      /\ Listing /\ Collected(handle[cur])
  BY <1>1 DEF IInv, TypeOK, Custody, Exactness, Reading
<1>3. ASSUME AttemptFails(handle[cur])
      PROVE  Exactness'
  BY <1>1, <1>2, <1>3, ExactAttempt DEF Collected
<1>4. ASSUME NEW n \in Unsaid, NEW up \in BOOLEAN, Report(n, up),
             modules.backend # "cerebro"
      PROVE  Exactness'
  <2> DEFINE r == AddNode(handle[cur], n, up)
  <2>1. /\ handle' = [handle EXCEPT ![cur] = r] /\ said' = said \cup {n}
        /\ pc' = "read" /\ UNCHANGED <<live, cur, modules, hosts>>
    BY <1>1, <1>4 DEF Report, shared, statics
  <2>2. /\ r.mixed \/ Once(r)
        /\ r.mixed \/ \A k \in Names : Discovered(r, k) =>
             \E m \in said \cup {n} : Short[m] = Short[k]
        /\ Within(r) /\ r.last_up_times = handle[cur].last_up_times
    BY <1>1, <1>2, CollectedAdd
  <2>3. r.load_state = handle[cur].load_state
    BY <1>2, AddNodeType DEF Unsaid
  <2> HIDE DEF r
  <2>4. handle'[cur] = r /\ \A h \in Handles \ {cur} : handle'[h] = handle[h]
    BY <1>2, <2>1 DEF TypeOK
  <2>5. Collected(handle[cur])'
    BY <1>2, <1>4, <2>1, <2>2, <2>4, CollectedKept DEF Collected
  <2> QED BY <1>1, <1>2, <2>1, <2>3, <2>4, <2>5, ExactRead
<1>5. CASE ReadLine
  BY <1>4, <1>5 DEF ReadLine
<1>6. CASE ReadHost
  <2>1. PICK n \in Unsaid, up \in BOOLEAN :
          AttemptFails(handle[cur]) \/ Report(n, up)
    BY <1>6 DEF ReadHost
  <2>2. modules.backend # "cerebro"
    BY <1>6 DEF ReadHost
  <2> QED BY <1>3, <1>4, <2>1, <2>2
<1>7. CASE ReadMetric
  <2>1. PICK n \in Unsaid, up \in BOOLEAN :
          LET rec == AddNode(handle[cur], n, up) IN
          \/ /\ said' = said \cup {n}
             /\ handle' = [handle EXCEPT ![cur] = AddLastUpTime(rec, n)]
             /\ UNCHANGED <<live, shared, outside, pc, cur, targets, listed, i>>
          \/ AttemptFails(rec) /\ n \in rec.last_up_times
    BY <1>7 DEF ReadMetric
  <2> DEFINE r == AddNode(handle[cur], n, up)
             s == AddLastUpTime(r, n)
  <2>2. IsHandle(r) /\ r.load_state = handle[cur].load_state
    BY <1>2, AddNodeType DEF Unsaid
  <2>5. /\ r.mixed \/ Once(r)
        /\ r.mixed \/ \A k \in Names : Discovered(r, k) =>
             \E m \in said \cup {n} : Short[m] = Short[k]
        /\ Within(r)
        /\ r.last_up_times = handle[cur].last_up_times
        /\ \A k \in Names : r.up_nodes[k] > 0 =>
             handle[cur].up_nodes[k] > 0 \/ Short[k] = Short[n]
    BY <1>1, <1>2, CollectedAdd
  <2>6. modules.backend = "cerebro" /\ UpTimed(handle[cur])
    BY <1>2, <1>7 DEF ReadMetric, Collected
  <2>3. CASE AttemptFails(r) /\ n \in r.last_up_times
    <3> HIDE DEF r, s
    <3>1. UpTimed(r)
      BY <2>3, <2>5, <2>6 DEF UpTimed
    <3> QED BY <1>1, <1>2, <2>2, <2>3, <2>5, <2>6, <3>1, ExactAttempt
  <2>4. CASE ~(AttemptFails(r) /\ n \in r.last_up_times)
    <3>1. /\ handle' = [handle EXCEPT ![cur] = s] /\ said' = said \cup {n}
          /\ pc' = "read" /\ UNCHANGED <<live, cur, modules, hosts>>
      BY <1>1, <2>1, <2>4 DEF shared, statics
    <3>3. /\ s.up_nodes = r.up_nodes /\ s.down_nodes = r.down_nodes
          /\ s.last_up_times = r.last_up_times \cup {n}
          /\ s.load_state = r.load_state /\ s.mixed = r.mixed
      BY <2>2 DEF AddLastUpTime, IsHandle
    <3> HIDE DEF r, s
    <3>4. /\ s.mixed \/ Once(s)
          /\ s.mixed \/ \A k \in Names : Discovered(s, k) =>
               \E m \in said \cup {n} : Short[m] = Short[k]
          /\ Within(s)
      BY <2>5, <3>3 DEF Once, Within, Discovered
    <3>6. UpTimed(s)
      BY <2>5, <2>6, <3>3 DEF UpTimed
    <3>7. handle'[cur] = s /\ \A h \in Handles \ {cur} : handle'[h] = handle[h]
      BY <1>2, <3>1 DEF TypeOK
    <3>8. Collected(handle[cur])'
      BY <2>6, <3>1, <3>4, <3>6, <3>7, CollectedKept
    <3> QED BY <1>1, <1>2, <2>2, <3>1, <3>3, <3>7, <3>8, ExactRead
  <2> QED BY <2>3, <2>4
<1>8. CASE ReadError
  BY <1>3, <1>8 DEF ReadError
<1>9. CASE ReadEOF
  BY <1>9, ExactConnect
<1> QED BY <1>5, <1>6, <1>7, <1>8, <1>9 DEF ReadStep

LEMMA ExactCompare ==
  ASSUME IInv, Exactness, UNCHANGED <<lister, file>>, Compare
  PROVE  Exactness'
<1> DEFINE r == CompareToClusterlist(handle[cur])
           s == [r EXCEPT !.load_state = "loaded", !.numnodes = NumNodes(r)]
<1>1. /\ pc = "compare" /\ handle' = [handle EXCEPT ![cur] = s]
      /\ pc' = "idle" /\ said' = {}
      /\ UNCHANGED <<live, modules, hosts>>
  BY DEF Compare, EndCall, shared, statics
<1>2. /\ TypeOK /\ IsHandle(handle[cur]) /\ cur \in Handles
      /\ Listing /\ Collected(handle[cur])
  BY <1>1 DEF IInv, TypeOK, Custody, Calling, Exactness, Reading
<1>3. Exact(r) /\ IsHandle(r)
  BY <1>1, <1>2, ComparedExact, CompareType
<1> HIDE DEF r
<1>4. /\ s.up_nodes = r.up_nodes /\ s.down_nodes = r.down_nodes
      /\ s.last_up_times = r.last_up_times /\ s.mixed = r.mixed
  BY <1>3, LoadedType
<1> HIDE DEF s
<1>5. Exact(s)
  BY <1>3, <1>4
  DEF Exact, Once, Within, Complete, Timed, UpTimed, Discovered
<1>6. handle'[cur] = s /\ \A h \in Handles \ {cur} : handle'[h] = handle[h]
  BY <1>1, <1>2 DEF TypeOK
<1>7. Listing'
  BY <1>1, <1>2 DEF Listing, clusterlist_module_found, FileNodes
<1>8. Reading'
  BY <1>1 DEF Reading, Unread
<1>9. live' \subseteq Handles
  BY <1>1, <1>2 DEF TypeOK
<1>10. \A h \in live' : handle'[h].load_state = "loaded" =>
         (h \in live /\ handle'[h] = handle[h]) \/ Exact(handle'[h])
  BY <1>1, <1>5, <1>6, <1>9
<1> QED BY <1>7, <1>8, <1>9, <1>10, LoadedKept DEF Exactness

LEMMA ExactnessInit == Init => Exactness
BY DEF Init, Exactness, Listing, Reading, Unread, clusterlist_module_found,
       NoModules

LEMMA ExactnessNext ==
  ASSUME Steady
  PROVE  IInv /\ IInv' /\ Exactness /\ [Next]_vars => Exactness'
<1> SUFFICES ASSUME IInv, IInv', Exactness, [Next]_vars PROVE Exactness'
  OBVIOUS
<1>1. UNCHANGED <<lister, file>>
  BY SteadyFile
<1>2. ASSUME NEW h \in Handles,
             \/ HandleCreate(h) \/ HandleDestroy(h)
             \/ LoadLoaded(h) \/ LoadCall(h)
      PROVE  Exactness'
  BY <1>1, <1>2, ExactIdle, ExactCall
<1>3. ASSUME \/ \E h \in Handles : \/ NodelistCreate(h) \/ NodelistClear(h)
                                   \/ NodelistDestroy(h)
             \/ LoadNull \/ EditFile \/ UseAfterFree \/ UNCHANGED vars
      PROVE  Exactness'
  <2>1. /\ UNCHANGED <<live, handle, shared, call>> /\ pc' \in {pc, "crashed"}
    BY <1>3 DEF NodelistCreate, NodelistClear, NodelistDestroy, LoadNull,
                EditFile, UseAfterFree, vars
  <2> QED BY <1>1, <2>1, ExactOutside
<1>4. ASSUME NoServerLeft
      PROVE  Exactness'
  BY <1>1, <1>4, ExactFail DEF NoServerLeft, Calling
<1>5. ASSUME LoadStep
      PROVE  Exactness'
  BY <1>1, <1>3, <1>4, <1>5, ExactLtDlInit, ExactModules, ExactSetup,
     ExactConfig, ExactConnect, ExactCompare
  DEF LoadStep
<1>6. ASSUME ReadStep
      PROVE  Exactness'
  BY <1>1, <1>6, ExactReading
<1> QED BY <1>2, <1>3, <1>5, <1>6 DEF Next

LEMMA AlwaysExact ==
  ASSUME Steady
  PROVE  Spec => []Exactness
<1>1. Init => Exactness
  BY ExactnessInit
<1>2. IInv /\ IInv' /\ Exactness /\ [Next]_vars => Exactness'
  BY ExactnessNext
<1> QED BY <1>1, <1>2, Accounted, PTL DEF Spec

(* While the hosts file, or the genders database, is not edited and can be *)
(* read, nodeupdown_load_data leaves a handle that knows exactly the nodes *)
(* of the cluster, whatever other handles of the process do and whichever  *)
(* servers failed before one answered; and if none of those that failed    *)
(* had told of a node, the handle says of each node that it is up or that  *)
(* it is down, once.                                                       *)
THEOREM LoadedIsExact ==
  ASSUME Steady
  PROVE  Spec => []ExactlyTheCluster
<1>1. IInv /\ Exactness => ExactlyTheCluster
  <2> SUFFICES ASSUME IInv, Exactness, NEW h \in Handles, Loaded(h)
               PROVE  /\ handle[h].mixed \/ UpOrDownOnce(h)
                      /\ lister # "default" /\ file \notin {NoFile, <<>>} =>
                           {n \in Names : Discovered(handle[h], n)} = ToSet(file)
    BY DEF ExactlyTheCluster
  <2>1. Exact(handle[h])
    BY DEF Exactness, Loaded
  <2>2. handle[h].mixed \/ UpOrDownOnce(h)
    BY <2>1 DEF Exact, Once, UpOrDownOnce
  <2>3. ASSUME lister # "default", file \notin {NoFile, <<>>}
        PROVE  {n \in Names : Discovered(handle[h], n)} = ToSet(file)
    <3>1. file \in Seq(Nodes) /\ FileNodes = ToSet(file)
      BY <2>3, ChoicesAssumption DEF IInv, TypeOK, FileNodes
    <3>2. Len(file) \in Nat \ {0} /\ DOMAIN file = 1..Len(file)
      BY <2>3, <3>1
    <3>3. FileNodes # {} /\ FileNodes \subseteq Names
      BY <3>1, <3>2 DEF ToSet, Nodes
    <3>4. Filtered
      BY <2>3, <3>3, ChoicesAssumption DEF Filtered, IInv, TypeOK
    <3> QED BY <2>1, <3>1, <3>3, <3>4 DEF Exact, Within, Complete
  <2> QED BY <2>2, <2>3
<1> QED BY <1>1, AlwaysExact, Accounted, PTL

(* nodeupdown_is_node_up and nodeupdown_is_node_down answer what the lists *)
(* of the handle say, under every name of a node, also when another handle *)
(* has loaded or given up the cluster list since; and every node up has    *)
(* its time if the backend told any.                                       *)
THEOREM QueriesMatch ==
  ASSUME Steady
  PROVE  Spec => []Answers
<1>1. IInv /\ Exactness => Answers
  <2> SUFFICES ASSUME IInv, Exactness, pc = "idle", NEW h \in Handles,
                      NEW n \in Names, Loaded(h),
                      Discovered(handle[h], GetNodename(n))
               PROVE  /\ (IsNodeUp(h, n) = "1") =
                           (handle[h].up_nodes[GetNodename(n)] > 0)
                      /\ (IsNodeDown(h, n) = "1") =
                           (handle[h].down_nodes[GetNodename(n)] > 0)
                      /\ handle[h].last_up_times # {} /\ handle[h].up_nodes[n] > 0 =>
                           \E m \in Names : /\ Short[m] = Short[n]
                                            /\ LastUpTime(h, m) = "success"
    BY DEF Answers
  <2>1. /\ Exact(handle[h]) /\ handle[h].load_state = "loaded"
        /\ handle[h].last_up_times \subseteq Names
    BY DEF Exactness, Loaded, IInv, TypeOK, IsHandle
  <2>2. Known(h, n)
    <3>1. CASE ~clusterlist_module_found
      BY <3>1 DEF Known, Discovered, GetNodename
    <3>2. CASE clusterlist_module_found
      <4>1. /\ hosts \in Seq(Nodes) /\ ToSet(hosts) = FileNodes
            /\ modules.clusterlist = lister
            /\ lister \in {"hostsfile", "genders"}
            /\ GetNodename(n) = Short[n] /\ Short[n] \in Names
        BY <3>2, ChoicesAssumption
        DEF Exactness, Listing, IInv, TypeOK, GetNodename, Shortened, Nodes,
            clusterlist_module_found
      <4>2. Filtered => Short[n] \in FileNodes
        BY <2>1, <4>1 DEF Exact, Within
      <4>3. CASE lister = "genders"
        BY <3>2, <4>1, <4>2, <4>3 DEF Known, InCluster, GendersIsNode, Filtered
      <4>4. CASE lister = "hostsfile" /\ hosts = <<>>
        BY <3>2, <4>1, <4>4 DEF Known, InCluster, HostsfileIsNode
      <4>5. CASE lister = "hostsfile" /\ hosts # <<>>
        <5>1. Len(hosts) \in Nat \ {0} /\ DOMAIN hosts = 1..Len(hosts)
          BY <4>1, <4>5
        <5>2. hosts[1] \in ToSet(hosts)
          BY <5>1 DEF ToSet
        <5>3. FileNodes # {}
          BY <4>1, <5>2
        <5> QED BY <3>2, <4>1, <4>2, <4>5, <5>3
          DEF Known, InCluster, HostsfileIsNode, Filtered
      <4> QED BY <4>1, <4>3, <4>4, <4>5
    <3> QED BY <3>1, <3>2
  <2>3. \A up \in BOOLEAN :
          (IsNode(h, n, up) = "1") =
            ((IF up THEN handle[h].up_nodes ELSE handle[h].down_nodes)
               [GetNodename(n)] > 0)
    BY <2>1, <2>2 DEF IsNode
  <2>4. ASSUME handle[h].last_up_times # {}, handle[h].up_nodes[n] > 0
        PROVE  \E m \in Names : /\ Short[m] = Short[n]
                                /\ LastUpTime(h, m) = "success"
    <3>1. PICK m \in handle[h].last_up_times : Short[m] = Short[n]
      BY <2>1, <2>4 DEF Exact, Timed, UpTimed
    <3> QED BY <2>1, <3>1 DEF LastUpTime
  <2> QED BY <2>3, <2>4 DEF IsNodeUp, IsNodeDown
<1> QED BY <1>1, AlwaysExact, Accounted, PTL
-----------------------------------------------------------------------------
(***************************************************************************)
(* How many nodes a list holds.  hostlist_count is a fold over the names,  *)
(* which the prover knows by its definition only, as a recursive function  *)
(* on the sets of names: what holds of it is shown for the smallest set    *)
(* it could fail for.                                                      *)
(***************************************************************************)
LEMMA LeastLemma ==
  ASSUME NEW T, T \subseteq Nat, T # {}
  PROVE  \E x \in T : \A y \in T : x <= y
<1>1. PICK x \in T : \A y \in T : ~(<<y, x>> \in OpToRel(<, Nat))
  BY NatLessThanWellFounded, WFMin
<1>2. \A y \in T : x \in Nat /\ y \in Nat /\ ~(y < x)
  BY <1>1, Zenon DEF OpToRel
<1> QED BY <1>2

LEMMA SubsetInduction ==
  ASSUME NEW D, IsFiniteSet(D), NEW I, {} \in I,
         \A s \in SUBSET D : s # {} /\ (\A x \in s : s \ {x} \in I) => s \in I
  PROVE  SUBSET D \subseteq I
<1> DEFINE Bad == (SUBSET D) \ I
           Sizes == {Cardinality(s) : s \in Bad}
<1>1. \A s \in SUBSET D : IsFiniteSet(s) /\ Cardinality(s) \in Nat
  BY FS_Subset, FS_CardinalityType
<1>2. ASSUME Bad # {}
      PROVE  FALSE
  <2>1. Sizes \subseteq Nat /\ Sizes # {}
    BY <1>1, <1>2
  <2>2. PICK k \in Sizes : \A m \in Sizes : k <= m
    <3> HIDE DEF Sizes
    <3> QED BY <2>1, LeastLemma
  <2>3. PICK s \in Bad : Cardinality(s) = k
    BY <2>2
  <2> s \in SUBSET D /\ s \notin I
    BY <2>3
  <2>5. \A b \in SUBSET D : b \notin I => k <= Cardinality(b)
    BY <2>2
  <2>4. ASSUME NEW x \in s
        PROVE  s \ {x} \in I
    <3>1. Cardinality(s \ {x}) = Cardinality(s) - 1
      BY <1>1, <2>3, FS_RemoveElement
    <3>2. s \ {x} \in SUBSET D /\ Cardinality(s) \in Nat
      BY <1>1, <2>3
    <3>3. ~(k <= Cardinality(s \ {x}))
      BY <2>3, <3>1, <3>2
    <3> QED BY <2>5, <3>2, <3>3
  <2> QED BY <2>4
<1> QED BY <1>2

(* The recursive function that defines the fold exists ...                 *)
Sums(w, D, f) ==
  w[{}] = 0 /\ \A s \in SUBSET D : s # {} => \E x \in s : w[s] = f[x] + w[s \ {x}]

LEMMA SumExists ==
  ASSUME NEW D, IsFiniteSet(D), NEW f \in [D -> Nat]
  PROVE  \E w : /\ SumFunction(f) = w[D] /\ Sums(w, D, f)
<1> DEFINE Pick(s) == CHOOSE x \in s : TRUE
           Less(s) == s \ {Pick(s)}
           Of(g, s) == IF s = {} THEN 0 ELSE f[Pick(s)] + g[Less(s)]
           F(g) == [s \in SUBSET D |-> Of(g, s)]
           w == CHOOSE g : g = F(g)
           Upto(n, g) == /\ g \in [SUBSET D -> Nat]
                         /\ \A s \in SUBSET D : Cardinality(s) < n => g[s] = Of(g, s)
           Has(n) == \E g : Upto(n, g)
           Sizes == {n \in Nat : ~Has(n)}
<1>1. SumFunction(f) = w[D]
  BY DEF SumFunction, SumFunctionOnSet, FoldFunctionOnSet, MapThenFoldSet
<1> HIDE DEF w
<1>2. \A s \in SUBSET D : s # {} => Pick(s) \in s /\ f[Pick(s)] \in Nat /\ Less(s) \in SUBSET D
  OBVIOUS
<1>3. \A s \in SUBSET D : IsFiniteSet(s) /\ Cardinality(s) \in Nat
  BY FS_Subset, FS_CardinalityType
<1>4. \A s \in SUBSET D : s # {} => Cardinality(Less(s)) = Cardinality(s) - 1
  BY <1>2, <1>3, FS_RemoveElement
<1> HIDE DEF Pick, Less
<1>5. Has(0)
  <2>1. Upto(0, [s \in SUBSET D |-> 0])
    BY <1>3
  <2> QED BY <2>1
<1>6. ASSUME NEW n \in Nat, Has(n)
      PROVE  Has(n + 1)
  <2> PICK g : Upto(n, g)
    BY <1>6
  <2> DEFINE h == [s \in SUBSET D |-> IF Cardinality(s) = n THEN Of(g, s) ELSE g[s]]
  <2>1. h \in [SUBSET D -> Nat]
    BY <1>2, <1>6
  <2>2. \A s \in SUBSET D : h[s] = IF Cardinality(s) = n THEN Of(g, s) ELSE g[s]
    OBVIOUS
  <2> HIDE DEF h
  <2>3. ASSUME NEW s \in SUBSET D, Cardinality(s) < n + 1
        PROVE  h[s] = Of(h, s)
    <3>1. h[s] = Of(g, s)
      BY <1>3, <1>6, <2>2, <2>3
    <3>2. s # {} => h[Less(s)] = g[Less(s)]
      BY <1>2, <1>3, <1>4, <2>2, <2>3
    <3> QED BY <3>1, <3>2
  <2> QED BY <2>1, <2>3
<1>7. Has(Cardinality(D) + 1)
  <2> HIDE DEF Has
  <2>1. ASSUME Sizes # {}
        PROVE  FALSE
    <3>1. PICK n \in Sizes : \A m \in Sizes : n <= m
      <4>1. Sizes \subseteq Nat
        OBVIOUS
      <4> HIDE DEF Sizes
      <4> QED BY <2>1, <4>1, LeastLemma
    <3>2. n \in Nat /\ n # 0
      BY <1>5
    <3>3. n - 1 \in Nat /\ ~(n <= n - 1) /\ (n - 1) + 1 = n
      BY <3>2
    <3>4. Has(n - 1)
      BY <3>1, <3>3
    <3> QED BY <1>6, <3>3, <3>4
  <2>2. Cardinality(D) + 1 \in Nat
    BY <1>3
  <2> QED BY <2>1, <2>2
<1>8. PICK g : Upto(Cardinality(D) + 1, g)
  BY <1>7
<1>9. g = F(g)
  <2>1. \A s \in SUBSET D : Cardinality(s) < Cardinality(D) + 1
    BY <1>3, FS_Subset
  <2>2. \A s \in SUBSET D : g[s] = Of(g, s)
    BY <1>8, <2>1
  <2>3. g = [s \in SUBSET D |-> g[s]]
    BY <1>8
  <2> HIDE DEF Of
  <2> QED BY <2>2, <2>3
<1>10. w = F(w)
  <2> HIDE DEF F
  <2> QED BY <1>9 DEF w
<1>11. w[{}] = 0 /\ \A s \in SUBSET D : s # {} => w[s] = f[Pick(s)] + w[Less(s)]
  BY <1>10
<1> QED BY <1>1, <1>2, <1>11 DEF Less, Sums
(* ... so a list holds every name as often as it says, and no more names   *)
(* than the set they are of, if each is there once.                        *)
LEMMA SumBounds ==
  ASSUME NEW D, IsFiniteSet(D), NEW f \in [D -> Nat]
  PROVE  /\ SumFunction(f) \in Nat
         /\ \A n \in D : f[n] <= SumFunction(f)
         /\ \A Q \in SUBSET D : (\A n \in D : f[n] <= IF n \in Q THEN 1 ELSE 0) =>
              SumFunction(f) <= Cardinality(Q)
<1>1. PICK w : /\ SumFunction(f) = w[D] /\ Sums(w, D, f)
  BY SumExists, Zenon
<1>2. w[{}] = 0 /\ \A s \in SUBSET D : s # {} => \E x \in s : w[s] = f[x] + w[s \ {x}]
  BY <1>1 DEF Sums
<1>3. SumFunction(f) = w[D] /\ D \in SUBSET D
  BY <1>1
<1>4. \A s \in SUBSET D : w[s] \in Nat /\ \A n \in s : f[n] <= w[s]
  <2> DEFINE I == {s \in SUBSET D : w[s] \in Nat /\ \A n \in s : f[n] <= w[s]}
  <2>1. {} \in I
    BY <1>2
  <2>2. ASSUME NEW s \in SUBSET D, s # {}, \A x \in s : s \ {x} \in I
        PROVE  s \in I
    <3>1. PICK x \in s : w[s] = f[x] + w[s \ {x}]
      BY <1>2, <2>2
    <3>2. /\ f[x] \in Nat /\ w[s \ {x}] \in Nat
          /\ \A n \in s \ {x} : f[n] \in Nat /\ f[n] <= w[s \ {x}]
      BY <2>2
    <3>3. w[s] \in Nat /\ \A n \in s : f[n] <= w[s]
      BY <3>1, <3>2
    <3> QED BY <3>3
  <2>3. SUBSET D \subseteq I
    <3> HIDE DEF I
    <3> QED BY <2>1, <2>2, SubsetInduction
  <2> QED BY <2>3
<1>5. ASSUME NEW Q \in SUBSET D, \A n \in D : f[n] <= IF n \in Q THEN 1 ELSE 0
      PROVE  w[D] <= Cardinality(Q)
  <2> DEFINE I == {s \in SUBSET D : w[s] <= Cardinality(s \cap Q)}
  <2>1. \A s \in SUBSET D : IsFiniteSet(s \cap Q) /\ Cardinality(s \cap Q) \in Nat
    BY FS_Subset, FS_CardinalityType
  <2>2. {} \in I
    <3>1. {} \cap Q = {} /\ Cardinality({}) = 0
      BY FS_EmptySet
    <3> QED BY <1>2, <3>1
  <2>3. ASSUME NEW s \in SUBSET D, s # {}, \A x \in s : s \ {x} \in I
        PROVE  s \in I
    <3>1. PICK x \in s : w[s] = f[x] + w[s \ {x}]
      BY <1>2, <2>3
    <3>2. w[s \ {x}] \in Nat /\ w[s \ {x}] <= Cardinality((s \ {x}) \cap Q)
      BY <1>4, <2>3
    <3>3. CASE x \in Q
      <4>1. f[x] \in Nat /\ f[x] <= 1
        BY <1>5, <3>3
      <4>2. (s \ {x}) \cap Q = (s \cap Q) \ {x} /\ x \in s \cap Q
        BY <3>3
      <4>3. Cardinality((s \cap Q) \ {x}) = Cardinality(s \cap Q) - 1
        BY <2>1, <4>2, FS_RemoveElement
      <4>4. w[s] <= Cardinality(s \cap Q)
        <5> DEFINE c == Cardinality(s \cap Q)
        <5>1. c \in Nat /\ w[s \ {x}] <= c - 1 /\ w[s] = f[x] + w[s \ {x}]
          BY <2>1, <3>1, <3>2, <4>2, <4>3
        <5> HIDE DEF c
        <5>2. w[s] <= c
          BY <3>2, <4>1, <5>1
        <5> QED BY <5>2 DEF c
      <4> QED BY <4>4
    <3>4. CASE x \notin Q
      <4>1. f[x] \in Nat /\ f[x] <= 0
        BY <1>5, <3>4
      <4>2. (s \ {x}) \cap Q = s \cap Q
        BY <3>4
      <4>3. w[s] <= Cardinality(s \cap Q)
        BY <2>1, <3>1, <3>2, <4>1, <4>2
      <4> QED BY <4>3
    <3> QED BY <3>3, <3>4
  <2>4. SUBSET D \subseteq I
    <3> HIDE DEF I
    <3> QED BY <2>2, <2>3, SubsetInduction
  <2>5. D \cap Q = Q
    OBVIOUS
  <2> QED BY <1>3, <2>4, <2>5
<1> QED BY <1>3, <1>4, <1>5
-----------------------------------------------------------------------------
(* What the number of nodes of a loaded handle has to do with its lists:   *)
(* those of the cluster list, which it may name twice, or without one the  *)
(* entries of the lists. *)
Sized(r) ==
  IF lister = "default"
  THEN r.numnodes = hostlist_count(r.up_nodes) + hostlist_count(r.down_nodes)
  ELSE r.numnodes \in Nat /\ Cardinality(FileNodes) <= r.numnodes
Sizing == \A h \in live : handle[h].load_state = "loaded" => Sized(handle[h])

LEMMA SizedKept ==
  ASSUME UNCHANGED <<lister, file>>, NEW h \in Handles, Sized(handle'[h])
  PROVE  Sized(handle[h])'
BY DEF Sized, FileNodes

(* The handle that is loaded after a step was before, or it is the one     *)
(* whose load the step ends. *)
LEMMA LoadedBefore ==
  ASSUME IInv, IInv', [Next]_vars, ~Compare
  PROVE  \A h \in live' : handle'[h].load_state = "loaded" =>
           h \in live /\ handle'[h] = handle[h]
<1> SUFFICES ASSUME NEW h \in live', handle'[h].load_state = "loaded"
             PROVE  h \in live /\ handle'[h] = handle[h]
  OBVIOUS
<1>1. live \subseteq Handles /\ live' \subseteq Handles /\ TypeOK
  BY DEF IInv, TypeOK
<1>2. Calling' => h # cur'
  BY DEF IInv, Custody
<1>3. ASSUME NEW g \in Handles, handle' = [handle EXCEPT ![g] = Initialized],
             live' \subseteq live \cup {g}
      PROVE  h \in live /\ handle'[h] = handle[h]
  <2>1. /\ handle'[g] = Initialized
        /\ \A f \in Handles \ {g} : handle'[f] = handle[f]
    BY <1>1, <1>3 DEF TypeOK
  <2>2. h # g
    BY <2>1 DEF Initialized
  <2> QED BY <1>1, <1>3, <2>1, <2>2
<1>4. ASSUME NEW r, handle' = [handle EXCEPT ![cur] = r], live' = live,
             cur' = cur, pc' \notin {"idle", "crashed"}
      PROVE  h \in live /\ handle'[h] = handle[h]
  BY <1>1, <1>2, <1>4 DEF Calling, TypeOK
<1>5. ASSUME Calling, Fail
      PROVE  h \in live /\ handle'[h] = handle[h]
  BY <1>1, <1>3, <1>5 DEF Fail, FreeHandleData, IInv, Custody
<1>6. ASSUME NEW r, Calling, AttemptFails(r), pc' # "crashed"
      PROVE  h \in live /\ handle'[h] = handle[h]
  BY <1>4, <1>5, <1>6 DEF AttemptFails
<1>7. ASSUME NEW n, NEW up, Report(n, up), pc = "read"
      PROVE  h \in live /\ handle'[h] = handle[h]
  BY <1>4, <1>7 DEF Report
<1>8. CASE UNCHANGED <<live, handle>>
  BY <1>8
<1>9. ASSUME NEW g \in Handles, \/ HandleCreate(g) \/ HandleDestroy(g)
                                \/ LoadLoaded(g) \/ LoadCall(g)
                                \/ NodelistCreate(g) \/ NodelistClear(g)
                                \/ NodelistDestroy(g)
      PROVE  h \in live /\ handle'[h] = handle[h]
  BY <1>3, <1>8, <1>9
  DEF HandleCreate, HandleDestroy, LoadLoaded, LoadCall, NodelistCreate,
      NodelistClear, NodelistDestroy, FreeHandleData
<1>10. CASE LtDlInit
  BY <1>4, <1>5, <1>10 DEF LtDlInit, Calling, call
<1>11. CASE LoadBackend \/ LoadClusterlist \/ SetupClusterlist
  BY <1>5, <1>8, <1>11
  DEF LoadBackend, LoadClusterlist, SetupClusterlist, Calling
<1>12. CASE LoadConfig
  BY <1>4, <1>5, <1>12 DEF LoadConfig, Calling, call
<1>13. CASE NoServerLeft \/ Connect \/ UseAfterFree
  BY <1>5, <1>6, <1>8, <1>13
  DEF NoServerLeft, Connect, UseAfterFree, Calling, AttemptFails, Fail, EndCall
<1>14. CASE ReadStep
  <2>1. pc = "read" /\ Calling
    BY <1>14 DEF ReadStep, ReadLine, ReadHost, ReadMetric, ReadError, ReadEOF,
                 Calling
  <2>2. \A r : AttemptFails(r) => pc' # "crashed"
    BY DEF AttemptFails, Fail, EndCall
  <2>3. CASE ReadLine
    BY <1>7, <2>1, <2>3 DEF ReadLine
  <2>4. CASE ReadHost
    BY <1>6, <1>7, <2>1, <2>2, <2>4 DEF ReadHost
  <2>5. CASE ReadMetric
    <3>1. PICK n \in Unsaid, up \in BOOLEAN :
            LET rec == AddNode(handle[cur], n, up) IN
            \/ /\ handle' = [handle EXCEPT ![cur] = AddLastUpTime(rec, n)]
               /\ UNCHANGED <<live, pc, cur>>
            \/ AttemptFails(rec)
      BY <2>5 DEF ReadMetric
    <3> QED BY <1>4, <1>6, <2>1, <2>2, <3>1
  <2>6. CASE ReadError
    BY <1>6, <2>1, <2>2, <2>6 DEF ReadError
  <2>7. CASE ReadEOF
    BY <1>8, <2>7 DEF ReadEOF
  <2> QED BY <1>14, <2>3, <2>4, <2>5, <2>6, <2>7 DEF ReadStep
<1>15. CASE LoadNull \/ EditFile \/ UNCHANGED vars
  BY <1>8, <1>15 DEF LoadNull, EditFile, vars
<1> QED BY <1>9, <1>10, <1>11, <1>12, <1>13, <1>14, <1>15 DEF Next, LoadStep

LEMMA ListLength ==
  ASSUME NEW s \in Seq(Nodes)
  PROVE  /\ IsFiniteSet(ToSet(s)) /\ Len(s) \in Nat
         /\ Cardinality(ToSet(s)) <= Len(s)
<1>1. Len(s) \in Nat /\ s \in [1..Len(s) -> Nodes] /\ DOMAIN s = 1..Len(s)
  OBVIOUS
<1>2. IsFiniteSet(1..Len(s)) /\ Cardinality(1..Len(s)) = Len(s)
  BY <1>1, FS_Interval
<1>3. s \in Surjection(1..Len(s), ToSet(s))
  BY <1>1 DEF Surjection, ToSet
<1> QED BY <1>1, <1>2, <1>3, FS_Surjection

(* A hosts file without nodes is left out: no node is outside such a       *)
(* cluster and yet it has none, so that there is no list to make.          *)
Populated == "hostsfile" \in Listers => {NoFile, <<>>} \cap HostsFiles = {}

LEMMA FileLemma ==
  ASSUME IInv, Populated, lister # "default"
  PROVE  Filtered /\ FileNodes \subseteq Names /\ IsFiniteSet(FileNodes)
<1>1. /\ lister \in Listers /\ lister \in {"hostsfile", "genders"}
      /\ file \in HostsFiles /\ file \in Seq(Nodes) \cup {NoFile}
  BY ChoicesAssumption DEF IInv, TypeOK
<1>2. FileNodes \subseteq Names /\ IsFiniteSet(FileNodes)
  <2>1. CASE file = NoFile
    BY <2>1, FS_EmptySet DEF FileNodes
  <2>2. CASE file # NoFile
    <3>1. file \in Seq(Nodes) /\ FileNodes = ToSet(file)
      BY <1>1, <2>2 DEF FileNodes
    <3>2. ToSet(file) \subseteq Names
      BY <3>1 DEF ToSet, Nodes
    <3> QED BY <3>1, <3>2, ListLength
  <2> QED BY <2>1, <2>2
<1>3. Filtered
  <2>1. CASE lister = "genders"
    BY <2>1 DEF Filtered
  <2>2. CASE lister = "hostsfile"
    <3>1. file # NoFile /\ file # <<>>
      BY <1>1, <2>2 DEF Populated
    <3>2. Len(file) \in Nat \ {0} /\ DOMAIN file = 1..Len(file)
      BY <1>1, <3>1
    <3>3. file[1] \in FileNodes
      BY <3>1, <3>2 DEF FileNodes, ToSet
    <3> QED BY <2>2, <3>3 DEF Filtered
  <2> QED BY <1>1, <2>1, <2>2
<1> QED BY <1>2, <1>3

LEMMA SizedCompare ==
  ASSUME IInv, Exactness, UNCHANGED <<lister, file>>, Compare
  PROVE  /\ cur \in Handles /\ Sized(handle'[cur])
         /\ \A h \in Handles \ {cur} : handle'[h] = handle[h]
         /\ live' = live
<1> DEFINE r == CompareToClusterlist(handle[cur])
           s == [r EXCEPT !.load_state = "loaded", !.numnodes = NumNodes(r)]
<1>1. pc = "compare" /\ handle' = [handle EXCEPT ![cur] = s] /\ live' = live
  BY DEF Compare
<1>2. TypeOK /\ IsHandle(handle[cur]) /\ cur \in Handles /\ Listing
  BY <1>1 DEF IInv, TypeOK, Custody, Calling, Exactness
<1>3. IsHandle(r)
  BY <1>2, CompareType
<1> HIDE DEF r
<1>4. /\ s.up_nodes = r.up_nodes /\ s.down_nodes = r.down_nodes
      /\ s.numnodes = NumNodes(r)
  BY <1>3 DEF IsHandle
<1> HIDE DEF s
<1>5. modules.clusterlist = lister /\ lister \in {"default", "hostsfile", "genders"}
  BY <1>1, <1>2, ChoicesAssumption DEF Listing, TypeOK
<1>6. Sized(s)
  <2>1. CASE lister = "default"
    BY <1>4, <1>5, <2>1 DEF Sized, NumNodes, clusterlist_module_found
  <2>2. CASE lister # "default"
    <3>1. /\ clusterlist_module_found /\ hosts \in Seq(Nodes)
          /\ ToSet(hosts) = FileNodes
      BY <1>1, <1>2, <1>5, <2>2 DEF Listing, clusterlist_module_found
    <3>2. Cardinality(ToSet(hosts)) <= Len(hosts) /\ Len(hosts) \in Nat
      BY <3>1, ListLength
    <3> QED BY <1>4, <2>2, <3>1, <3>2 DEF Sized, NumNodes
  <2> QED BY <2>1, <2>2
<1>7. handle'[cur] = s /\ \A h \in Handles \ {cur} : handle'[h] = handle[h]
  BY <1>1, <1>2 DEF TypeOK
<1>8. Sized(handle'[cur])
  BY <1>6, <1>7
<1> QED BY <1>1, <1>2, <1>7, <1>8

LEMMA AlwaysSized ==
  ASSUME Steady
  PROVE  Spec => []Sizing
<1>1. Init => Sizing
  BY DEF Init, Sizing
<1>2. IInv /\ IInv' /\ Exactness /\ Sizing /\ [Next]_vars => Sizing'
  <2> SUFFICES ASSUME IInv, IInv', Exactness, Sizing, [Next]_vars,
                      NEW h \in live', handle'[h].load_state = "loaded"
               PROVE  Sized(handle[h])'
    BY DEF Sizing
  <2>1. UNCHANGED <<lister, file>>
    BY SteadyFile
  <2>2. h \in Handles /\ live \subseteq Handles
    BY DEF IInv, TypeOK
  <2>3. CASE h \in live /\ handle'[h] = handle[h]
    BY <2>1, <2>2, <2>3, SizedKept DEF Sizing
  <2>4. CASE Compare
    BY <2>1, <2>2, <2>3, <2>4, SizedCompare, SizedKept
  <2> QED BY <2>3, <2>4, LoadedBefore
<1> QED BY <1>1, <1>2, Accounted, AlwaysExact, PTL DEF Spec

(* nodeupdown_get_up_nodes_list and nodeupdown_get_down_nodes_list never   *)
(* overflow a list made by nodeupdown_nodelist_create, and they fill it if *)
(* there is anything to know; and the queries agree with them.             *)
THEOREM ListsAreMatched ==
  ASSUME Steady, Populated
  PROVE  Spec => []ListedIsKnown
<1>1. IInv /\ Exactness /\ Sizing => ListsFit
  <2> SUFFICES ASSUME IInv, Exactness, Sizing, NEW h \in Handles, Loaded(h),
                      ~handle[h].mixed, NEW up \in BOOLEAN
               PROVE  /\ GetNodesList(h, up, handle[h].numnodes) # "overflow"
                      /\ (\E n \in Names : Discovered(handle[h], n)) =>
                           GetNodesList(h, up, handle[h].numnodes) = "success"
    BY DEF ListsFit
  <2> DEFINE r == handle[h]
  <2>1. /\ Exact(r) /\ ~r.mixed /\ Sized(r) /\ r.load_state = "loaded"
        /\ r.up_nodes \in [Names -> Nat] /\ r.down_nodes \in [Names -> Nat]
    BY DEF Exactness, Sizing, Loaded, IInv, TypeOK, IsHandle
  <2>2. /\ hostlist_count(r.up_nodes) \in Nat
        /\ hostlist_count(r.down_nodes) \in Nat
        /\ \A n \in Names : /\ r.up_nodes[n] <= hostlist_count(r.up_nodes)
                            /\ r.down_nodes[n] <= hostlist_count(r.down_nodes)
    BY <2>1, SumBounds, NodesAssumption DEF hostlist_count
  <2>3. /\ r.numnodes \in Nat
        /\ hostlist_count(r.up_nodes) <= r.numnodes
        /\ hostlist_count(r.down_nodes) <= r.numnodes
        /\ (\E n \in Names : Discovered(r, n)) => r.numnodes > 0
    <3>1. CASE lister = "default"
      <4>1. r.numnodes = hostlist_count(r.up_nodes) + hostlist_count(r.down_nodes)
        BY <2>1, <3>1 DEF Sized
      <4>2. ASSUME NEW n \in Names, Discovered(r, n)
            PROVE  r.numnodes > 0
        BY <2>1, <2>2, <4>1, <4>2 DEF Discovered
      <4> QED BY <2>2, <4>1, <4>2
    <3>2. CASE lister # "default"
      <4>1. Filtered /\ FileNodes \subseteq Names /\ IsFiniteSet(FileNodes)
        BY <3>2, FileLemma
      <4>2. \A n \in Names : /\ r.up_nodes[n] <= IF n \in FileNodes THEN 1 ELSE 0
                             /\ r.down_nodes[n] <= IF n \in FileNodes THEN 1 ELSE 0
        BY <2>1, <4>1 DEF Exact, Once, Within, Discovered
      <4>3. /\ hostlist_count(r.up_nodes) <= Cardinality(FileNodes)
            /\ hostlist_count(r.down_nodes) <= Cardinality(FileNodes)
        BY <2>1, <4>1, <4>2, SumBounds, NodesAssumption DEF hostlist_count
      <4>4. /\ r.numnodes \in Nat /\ Cardinality(FileNodes) <= r.numnodes
            /\ Cardinality(FileNodes) \in Nat
        BY <2>1, <3>2, <4>1, FS_CardinalityType DEF Sized
      <4>5. ASSUME NEW n \in Names, Discovered(r, n)
            PROVE  r.numnodes > 0
        BY <2>1, <2>2, <4>3, <4>4, <4>5 DEF Discovered
      <4> QED BY <2>2, <4>3, <4>4, <4>5
    <3> QED BY <3>1, <3>2
  <2>4. NodeCount(h, up) \in {hostlist_count(r.up_nodes), hostlist_count(r.down_nodes)}
    BY DEF NodeCount
  <2>5. NodeCount(h, up) \in Nat /\ NodeCount(h, up) <= r.numnodes
    BY <2>2, <2>3, <2>4
  <2> HIDE DEF r
  <2>6. /\ GetNodesList(h, up, r.numnodes) # "overflow"
        /\ r.numnodes > 0 => GetNodesList(h, up, r.numnodes) = "success"
    BY <2>1, <2>3, <2>5 DEF GetNodesList, r
  <2> QED BY <2>3, <2>6 DEF r
<1>2. ListsFit /\ Answers => ListedIsKnown
  BY DEF ListedIsKnown
<1> QED BY <1>1, <1>2, AlwaysSized, AlwaysExact, Accounted, QueriesMatch, PTL
=============================================================================
