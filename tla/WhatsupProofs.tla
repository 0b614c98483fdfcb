---------------------------- MODULE WhatsupProofs ----------------------------
(***************************************************************************)
(* What Whatsup guarantees, for every cluster, every set of modules and    *)
(* every command line.                                                     *)
(***************************************************************************)
EXTENDS Whatsup, FiniteSetTheorems, WellFoundedInduction, TLAPS

(***************************************************************************)
(* Lemmas on the operators of the library.                                 *)
(***************************************************************************)

(* A set of naturals has a least element.                                  *)
LEMMA LeastLemma ==
  ASSUME NEW T, T \subseteq Nat, T # {}
  PROVE  Min(T) \in T /\ \A y \in T : Min(T) <= y
<1>1. PICK x \in T : \A y \in T : ~(<<y, x>> \in OpToRel(<, Nat))
  BY NatLessThanWellFounded, WFMin
<1>2. \A y \in T : x \in Nat /\ y \in Nat /\ ~(y < x)
  BY <1>1, Zenon DEF OpToRel
<1>3. \A y \in T : x =< y
  BY <1>2
<1> QED BY <1>1, <1>3 DEF Min

(* A bounded one has a greatest.                                           *)
LEMMA GreatestLemma ==
  ASSUME NEW n \in Nat, NEW T, T \subseteq 1..n, T # {}
  PROVE  Max(T) \in T /\ \A y \in T : Max(T) >= y
<1> DEFINE D == {n - y : y \in T}
<1>1. D \subseteq Nat /\ D # {}
  <2>1. \A y \in 1..n : n - y \in Nat
    OBVIOUS
  <2> QED BY <2>1
<1>2. PICK d \in D : \A e \in D : d <= e
  BY <1>1, LeastLemma
<1>3. PICK x \in T : d = n - x
  OBVIOUS
<1>4. \A y \in T : x >= y
  <2> TAKE y \in T
  <2>1. n - y \in D /\ n - x <= n - y
    BY <1>2, <1>3
  <2>2. x \in 1..n /\ y \in 1..n
    OBVIOUS
  <2> QED BY <2>1, <2>2
<1> QED BY <1>4 DEF Max

(* SetToSeq enumerates a finite set, each element once.                    *)
LEMMA SetToSeqLemma ==
  ASSUME NEW S, IsFiniteSet(S)
  PROVE  /\ SetToSeq(S) \in Seq(S) /\ ToSet(SetToSeq(S)) = S
         /\ Len(SetToSeq(S)) = Cardinality(S) /\ IsInjective(SetToSeq(S))
<1> DEFINE n == Cardinality(S)
<1>1. n \in Nat /\ ExistsBijection(1..n, S)
  BY FS_CardinalityType
<1>2. PICK f : f \in Bijection(1..n, S)
  BY <1>1 DEF ExistsBijection
<1>3. f \in [1..n -> S] /\ IsInjective(f)
  BY <1>2 DEF Bijection, Injection, IsInjective
<1>4. SetToSeq(S) \in [1..n -> S] /\ IsInjective(SetToSeq(S))
  BY <1>3 DEF SetToSeq
<1>5. SetToSeq(S) \in Injection(1..n, S)
  BY <1>4 DEF Injection, IsInjective
<1>6. IsFiniteSet(1..n) /\ Cardinality(1..n) = n
  BY <1>1, FS_Interval
<1>7. SetToSeq(S) \in Surjection(1..n, S)
  BY <1>5, <1>6, FS_Injection
<1> QED BY <1>1, <1>4, <1>7 DEF Surjection, ToSet
-----------------------------------------------------------------------------
(***************************************************************************)
(* The log.  Between two polls its reader knows the state of every node of *)
(* the lists kept from the last one; a poll writes what those lists do not *)
(* say.                                                                    *)
(***************************************************************************)
States == {"up", "down"}

Replays(lists_kept) ==
  \A n \in lists_kept.up \cup lists_kept.down, s \in States :
    n \in lists_kept[s] <=> \/ told[n] = s
                            \/ told[n] = "nothing" /\ n \in first[s]

Replayable ==
  /\ pc \in {"modules", "getopt", "monitor", "monitoring", "open"} => polled = Null
  /\ pc = "log" => snapshot \in Snapshots
  /\ pc \in {"load", "log"} /\ polled # Null => polled \in Snapshots /\ Replays(polled)
  /\ pc = "sleep" => snapshot \in Snapshots /\ polled = snapshot /\ Replays(polled)

(* The reader of some lines about a node knows the last one.               *)
LEMMA WriteLemma ==
  ASSUME NEW entries \in Seq(Nodes \X States), NEW n \in Nodes
  PROVE  LET own == {k \in 1..Len(entries) : entries[k][1] = n}
         IN  /\ own = {} => Write(entries)[n] = told[n]
             /\ own # {} => \E k \in own : Write(entries)[n] = entries[k][2]
<1> DEFINE own == {k \in 1..Len(entries) : entries[k][1] = n}
<1>1. SelectLastInSeq(entries, LAMBDA l : l[1] = n) = IF own # {} THEN Max(own) ELSE 0
  BY DEF SelectLastInSeq
<1>2. own # {} => Max(own) \in own /\ Max(own) # 0
  <2>1. Len(entries) \in Nat /\ own \subseteq 1..Len(entries)
    OBVIOUS
  <2>2. own # {} => Max(own) \in own
    BY <2>1, GreatestLemma
  <2> QED BY <2>1, <2>2
<1> QED BY <1>1, <1>2 DEF Write

(* Each node that is new in its list has a line, which says what list.     *)
LEMMA LinesLemma ==
  ASSUME snapshot \in Snapshots, polled \in Snapshots
  PROVE  /\ Lines \in Seq(Nodes \X States)
         /\ \A k \in 1..Len(Lines), s \in States :
              Lines[k][2] = s => Lines[k][1] \in snapshot[s] \ polled[s]
         /\ \A s \in States : \A n \in snapshot[s] \ polled[s] :
              \E k \in 1..Len(Lines) : Lines[k][1] = n
<1> DEFINE U == {<<n, "up">> : n \in snapshot.up \ polled.up}
           D == {<<n, "down">> : n \in snapshot.down \ polled.down}
           u == SetToSeq(U)
           d == SetToSeq(D)
<1>1. U \subseteq Nodes \X States /\ D \subseteq Nodes \X States
  BY DEF Snapshots, States
<1>2. IsFiniteSet(U) /\ IsFiniteSet(D)
  <2>1. IsFiniteSet(States)
    <3>1. States = {"up"} \cup {"down"}
      BY DEF States
    <3> QED BY <3>1, FS_Singleton, FS_Union
  <2>2. IsFiniteSet(Nodes \X States)
    BY <2>1, NodesAssumption, FS_Product
  <2> HIDE DEF U, D
  <2> QED BY <1>1, <2>2, FS_Subset
<1>3. /\ u \in Seq(U) /\ ToSet(u) = U
      /\ d \in Seq(D) /\ ToSet(d) = D
  BY <1>2, SetToSeqLemma
<1> HIDE DEF u, d
<1>4. /\ Lines = u \o d /\ Lines \in Seq(Nodes \X States)
      /\ Len(u) \in Nat /\ Len(d) \in Nat /\ Len(Lines) = Len(u) + Len(d)
      /\ \A k \in 1..Len(u) : Lines[k] = u[k] /\ u[k] \in U
      /\ \A k \in 1..Len(d) : Lines[k + Len(u)] = d[k] /\ d[k] \in D
  <2>1. Lines = u \o d
    BY DEF Lines, u, d
  <2>2. u \in Seq(Nodes \X States) /\ d \in Seq(Nodes \X States)
    BY <1>1, <1>3
  <2> HIDE DEF U, D
  <2> QED BY <1>3, <2>1, <2>2
<1>5. ASSUME NEW k \in 1..Len(Lines), NEW s \in States, Lines[k][2] = s
      PROVE  Lines[k][1] \in snapshot[s] \ polled[s]
  <2>1. CASE k \in 1..Len(u)
    BY <1>4, <1>5, <2>1 DEF States
  <2>2. CASE k - Len(u) \in 1..Len(d)
    <3>1. Lines[k] \in D
      <4>1. (k - Len(u)) + Len(u) = k
        BY <1>4
      <4> QED BY <1>4, <2>2, <4>1
    <3> QED BY <1>5, <3>1 DEF States
  <2>3. k \in 1..Len(u) \/ k - Len(u) \in 1..Len(d)
    BY <1>4
  <2> QED BY <2>1, <2>2, <2>3
<1>6. ASSUME NEW n \in snapshot["up"] \ polled["up"]
      PROVE  \E k \in 1..Len(Lines) : Lines[k][1] = n
  <2>1. <<n, "up">> \in ToSet(u)
    BY <1>3
  <2>2. PICK k \in 1..Len(u) : u[k] = <<n, "up">>
    <3> HIDE DEF U, D
    <3>1. DOMAIN u = 1..Len(u)
      BY <1>3
    <3> QED BY <2>1, <3>1 DEF ToSet
  <2>3. k \in 1..Len(Lines)
    BY <1>4
  <2> QED BY <1>4, <2>2, <2>3
<1>7. ASSUME NEW n \in snapshot["down"] \ polled["down"]
      PROVE  \E k \in 1..Len(Lines) : Lines[k][1] = n
  <2>1. <<n, "down">> \in ToSet(d)
    BY <1>3
  <2>2. PICK k \in 1..Len(d) : d[k] = <<n, "down">>
    <3> HIDE DEF U, D
    <3>1. DOMAIN d = 1..Len(d)
      BY <1>3
    <3> QED BY <2>1, <3>1 DEF ToSet
  <2>3. k + Len(u) \in 1..Len(Lines)
    BY <1>4
  <2> QED BY <1>4, <2>2, <2>3
<1> QED BY <1>4, <1>5, <1>6, <1>7 DEF States

(* After the lines of a poll the reader is up to date.                     *)
LEMMA LinesReplay ==
  ASSUME snapshot \in Snapshots, polled \in Snapshots, Replays(polled),
         told' = Write(Lines), first' = first
  PROVE  \A n \in snapshot.up \cup snapshot.down, s \in States :
           n \in snapshot[s] <=> \/ told'[n] = s
                                 \/ told'[n] = "nothing" /\ n \in first'[s]
<1> TAKE n \in snapshot.up \cup snapshot.down, s \in States
<1>1. n \in Nodes /\ snapshot.up \cap snapshot.down = {}
  BY DEF Snapshots
<1> DEFINE own == {k \in 1..Len(Lines) : Lines[k][1] = n}
<1>2. /\ own = {} => told'[n] = told[n]
      /\ own # {} => \E k \in own : told'[n] = Lines[k][2]
  BY <1>1, LinesLemma, WriteLemma
<1>3. CASE own = {}
  <2>1. \A t \in States : n \in snapshot[t] => n \in polled[t]
    BY <1>3, LinesLemma
  <2>2. \A t \in States : n \in polled[t] <=> n \in snapshot[t]
    <3>1. polled.up \cap polled.down = {} /\ n \in snapshot.up \cup snapshot.down
      BY DEF Snapshots
    <3> QED BY <1>1, <2>1, <3>1 DEF States
  <2>3. n \in polled.up \cup polled.down
    BY <2>2 DEF States
  <2> QED BY <1>2, <1>3, <2>2, <2>3 DEF Replays
<1>4. CASE own # {}
  <2>1. PICK k \in 1..Len(Lines) : Lines[k][1] = n /\ told'[n] = Lines[k][2]
    BY <1>2, <1>4
  <2>2. told'[n] \in States
    BY <2>1, LinesLemma
  <2>3. n \in snapshot[told'[n]]
    BY <2>1, <2>2, LinesLemma
  <2>4. \A t \in States : n \in snapshot[t] => t = told'[n]
    BY <1>1, <2>2, <2>3 DEF States
  <2>5. told'[n] # "nothing"
    BY <2>2 DEF States
  <2>6. CASE s = told'[n]
    <3>1. n \in snapshot[s]
      BY <2>3, <2>6
    <3> QED BY <2>6, <3>1
  <2>7. CASE s # told'[n]
    BY <2>4, <2>5, <2>7
  <2> QED BY <2>6, <2>7
<1> QED BY <1>3, <1>4

(***************************************************************************)
(* Every step keeps the log replayable.                                    *)
(***************************************************************************)
LEMMA ReplayableStep == Replayable /\ [Next]_vars => Replayable'
<1> SUFFICES ASSUME Replayable, [Next]_vars PROVE Replayable'
  OBVIOUS
<1> USE DEF Goto, Exit, modvars, cmdvars, logvars, outvars
<1>1. CASE /\ UNCHANGED <<snapshot, logvars>>
           /\ pc' \in {pc, "getopt", "monitor", "monitoring", "open", "get", "output",
                      "unload", "exited"}
           /\ pc' \in {"getopt", "monitor", "monitoring", "open"} =>
                pc \in {"modules", "getopt", "monitor", "monitoring", "open"}
  BY <1>1 DEF Replayable, Replays
<1>2. CASE EnterMonitor \/ MonitorReturns
  BY <1>2 DEF Replayable, Replays, EnterMonitor, MonitorReturns, Mode
<1>3. ASSUME NEW n \in Nodes, NEW state \in {"up", "down"}, MonitorEvent(n, state)
      PROVE  Replayable'
  BY <1>3 DEF Replayable, MonitorEvent
<1>4. CASE LoadData
  BY <1>4 DEF Replayable, Replays, LoadData
<1>5. CASE OpenLog
  BY <1>5 DEF Replayable, Replays, OpenLog
<1>6. CASE FirstPoll
  BY <1>6 DEF Replayable, Replays, FirstPoll, NewLists, Snapshots, States
<1>7. CASE LogChanges
  BY <1>7, LinesReplay DEF Replayable, Replays, LogChanges, NewLists
<1>8. CASE LogFails
  BY <1>8 DEF Replayable, LogFails
<1>9. CASE Sleep
  BY <1>9 DEF Replayable, Replays, Sleep
<1> QED
  BY <1>1, <1>2, <1>3, <1>4, <1>5, <1>6, <1>7, <1>8, <1>9
  DEF Next, vars, _load_options_module, LoadOptionArguments, BuiltinOption, ModuleOption,
      UnknownOption, NodesGiven, NodesImproper, NodesOfModules, MonitorFails, LoadFails,
      GetNodes, GetFails, OutputFails, _output_mode, _unload_options_modules

(* Whoever saw the first snapshot and read the log knows the state of      *)
(* every node the last poll listed: _log_mode writes the difference to the *)
(* lists of the poll before and keeps the new ones.                        *)
THEOREM LogTellsAll == Spec => []LogReplays
<1>1. Init => Replayable
  BY DEF Init, Replayable
<1>2. Replayable => LogReplays
  BY DEF Replayable, LogReplays, Replays, States
<1> QED BY <1>1, <1>2, ReplayableStep, PTL DEF Spec
-----------------------------------------------------------------------------
(***************************************************************************)
(* The options modules.  A file in the list was read before, once; the     *)
(* letters a module watches are given to it before any option is parsed.   *)
(***************************************************************************)
Infos == 1..Len(modules_list)
Info(n) == [file : DOMAIN dir, watch : {modules_list[n].watch},
            processed : {modules_list[n].processed}]

Listed ==
  /\ dir \in Dirs /\ found \in Nat \ {0}
  /\ held \in [DOMAIN dir -> {"closed", "ready"}]
  /\ IsSeq(modules_list)
  /\ \A n \in Infos : modules_list[n] \in Info(n) /\ modules_list[n].file < found
  /\ pc = "modules" => \A n \in Infos :
       modules_list[n].watch = {} /\ modules_list[n].processed = {}

Accounted ==
  /\ \A f \in DOMAIN dir :
       held[f] = "ready" <=> \E n \in Infos : modules_list[n].file = f
  /\ \A i, j \in Infos : i # j =>
       /\ dir[modules_list[i].file].name # dir[modules_list[j].file].name
       /\ modules_list[i].watch \cap modules_list[j].watch = {}
  /\ \A i \in Infos : /\ modules_list[i].watch \cap Builtin = {}
                       /\ modules_list[i].processed \subseteq modules_list[i].watch

Printing ==
  /\ pc \notin {"unload", "exited"} => out = Null
  /\ pc = "exited" => out = Null \/ modules_list = <<>>

Modules == Listed /\ Accounted /\ Printing

LEMMA SeqLemma ==
  ASSUME NEW s, IsSeq(s)
  PROVE  Len(s) \in Nat /\ DOMAIN s = 1..Len(s)
BY DEF IsSeq

LEMMA AppendLemma ==
  ASSUME NEW s, IsSeq(s), NEW x
  PROVE  /\ IsSeq(Append(s, x)) /\ Len(Append(s, x)) = Len(s) + 1
         /\ \A n \in 1..Len(s) : Append(s, x)[n] = s[n]
         /\ Append(s, x)[Len(s) + 1] = x
<1> DEFINE T == ToSet(s) \cup {x}
<1>1. s \in Seq(T) /\ x \in T
  BY DEF IsSeq
<1> HIDE DEF T
<1>2. /\ Append(s, x) \in Seq(T) /\ Len(Append(s, x)) = Len(s) + 1
      /\ \A n \in 1..Len(s) : Append(s, x)[n] = s[n]
      /\ Append(s, x)[Len(s) + 1] = x
  BY <1>1
<1> DEFINE a == Append(s, x)
<1> HIDE DEF a
<1>3. a \in Seq(T) => a \in Seq(ToSet(a))
  BY DEF ToSet
<1> QED BY <1>2, <1>3 DEF IsSeq, a

(* _cmdline_parse gives a letter to one module, and none of its own.       *)
LEMMA WatchLemma ==
  ASSUME Listed
  PROVE  /\ \A n \in Infos : Watch(n) \cap Builtin = {}
         /\ \A i, j \in Infos : i # j => Watch(i) \cap Watch(j) = {}
<1>1. \A n \in Infos : Options(n) \in Nat
  BY ModulesAssumption, SeqLemma DEF Listed, Info, Options
<1>2. \A n \in Infos : Watch(n) \cap Builtin = {}
  BY DEF Watch, Taken, New, Earlier
<1>3. \A n \in Infos : Watch(n) \subseteq Letters(n, Options(n))
  BY DEF Watch, Taken, New, Letters
<1>4. ASSUME NEW i \in Infos, NEW j \in Infos, i < j
      PROVE  Watch(i) \cap Watch(j) = {}
  <2>1. i \in 1..j - 1
    BY <1>4, SeqLemma DEF Listed, Infos
  <2>2. \A k \in 1..Options(j) : Letters(i, Options(i)) \subseteq Earlier(j, k)
    BY <2>1 DEF Earlier
  <2> QED BY <1>3, <2>2 DEF Watch, Taken, New
<1>5. \A i, j \in Infos : i # j => i < j \/ j < i
  BY SeqLemma DEF Listed, Infos
<1> QED BY <1>2, <1>4, <1>5

LEMMA OwnerLemma ==
  ASSUME Listed, NEW letter, Owner(letter) > 0
  PROVE  Owner(letter) \in Infos /\ letter \in modules_list[Owner(letter)].watch
<1> DEFINE I == {n \in 1..Len(modules_list) : letter \in modules_list[n].watch}
<1>1. Owner(letter) = IF I # {} THEN Min(I) ELSE 0
  BY DEF Owner, SelectInSeq
<1>2. I # {}
  BY <1>1
<1>3. I \subseteq Nat
  BY SeqLemma DEF Listed
<1>4. Min(I) \in I
  BY <1>2, <1>3, LeastLemma
<1> QED BY <1>1, <1>2, <1>4 DEF Infos

(* A file that was opened is closed again or joins the list, set up.       *)
LEMMA LoadModuleStep ==
  ASSUME Modules, _load_options_module
  PROVE  Modules'
<1> DEFINE m == dir[found]
           info == [file |-> found, watch |-> {}, processed |-> {}]
           l == Len(modules_list)
<1> USE DEF modvars, cmdvars, outvars, logvars
<1>1. /\ pc = "modules" /\ pc' = pc /\ dir' = dir /\ out' = out
      /\ found' = found + 1 /\ found \in DOMAIN dir /\ found \in Nat /\ IsSeq(dir)
  <2>1. IsSeq(dir) /\ found \in Nat \ {0} /\ found <= Len(dir)
    BY ModulesAssumption DEF Modules, Listed, _load_options_module
  <2>2. found \in DOMAIN dir
    BY <2>1, SeqLemma
  <2> QED BY <2>1, <2>2 DEF _load_options_module
<1>2. l \in Nat /\ \A n \in Infos : modules_list[n].file \in DOMAIN dir
                                 /\ modules_list[n].file < found
                                 /\ modules_list[n].file \in Nat
  <2>1. \A f \in DOMAIN dir : f \in Nat
    BY <1>1, SeqLemma
  <2> QED BY <2>1, SeqLemma DEF Modules, Listed, Info
<1>3. held[found] = "closed"
  BY <1>1, <1>2 DEF Modules, Listed, Accounted
<1>4. CASE modules_list' = modules_list /\ held' = held
  <2>1. Infos' = Infos /\ \A n \in Infos : Info(n)' = Info(n)
    BY <1>1, <1>4 DEF Infos, Info
  <2>2. Listed'
    BY <1>1, <1>2, <1>4, <2>1 DEF Modules, Listed
  <2>3. Accounted'
    BY <1>1, <1>4, <2>1 DEF Modules, Accounted
  <2> QED BY <1>1, <2>2, <2>3 DEF Modules, Printing
<1>5. CASE Accepted(m) /\ modules_list' = Append(modules_list, info)
           /\ held' = [held EXCEPT ![found] = "ready"]
  <2>1. /\ IsSeq(modules_list') /\ Len(modules_list') = l + 1
        /\ \A n \in 1..l : modules_list'[n] = modules_list[n]
        /\ modules_list'[l + 1] = info
    BY <1>5, AppendLemma DEF Modules, Listed
  <2>2. Infos' = Infos \cup {l + 1} /\ l + 1 \notin Infos
    BY <1>2, <2>1 DEF Infos
  <2>3. \A n \in Infos : modules_list'[n] = modules_list[n]
    BY <2>1 DEF Infos
  <2>4. \A n \in Infos : dir[modules_list[n].file].name # m.name
    <3>1. ~Loaded(m.name) /\ DOMAIN modules_list = Infos
      BY <1>5, SeqLemma DEF Accepted, Infos, Modules, Listed
    <3> QED BY <3>1 DEF Loaded
  <2>5. Listed'
    <3>1. held' \in [DOMAIN dir -> {"closed", "ready"}]
      BY <1>5 DEF Modules, Listed
    <3>2. \A n \in Infos' : modules_list'[n] \in Info(n)' /\ modules_list'[n].file < found'
      <4>1. ASSUME NEW n \in Infos
            PROVE  modules_list'[n] \in Info(n)' /\ modules_list'[n].file < found'
        BY <1>1, <1>2, <2>3 DEF Modules, Listed, Info
      <4>2. info \in [file : DOMAIN dir, watch : {info.watch}, processed : {info.processed}]
        BY <1>1
      <4> QED BY <1>1, <2>1, <2>2, <4>1, <4>2 DEF Info
    <3>3. \A n \in Infos' : modules_list'[n].watch = {} /\ modules_list'[n].processed = {}
      BY <1>1, <2>1, <2>2, <2>3 DEF Modules, Listed
    <3> QED BY <1>1, <2>1, <3>1, <3>2, <3>3 DEF Modules, Listed
  <2>6. Accounted'
    <3>1. \A f \in DOMAIN dir :
            held'[f] = "ready" <=> \E n \in Infos' : modules_list'[n].file = f
      <4>1. \A f \in DOMAIN dir : held'[f] = IF f = found THEN "ready" ELSE held[f]
        BY <1>5 DEF Modules, Listed
      <4> QED BY <1>1, <2>1, <2>2, <2>3, <4>1 DEF Modules, Accounted
    <3>2. \A i, j \in Infos' : i # j =>
            /\ dir[modules_list'[i].file].name # dir[modules_list'[j].file].name
            /\ modules_list'[i].watch \cap modules_list'[j].watch = {}
      BY <2>1, <2>2, <2>3, <2>4 DEF Modules, Accounted
    <3>3. \A i \in Infos' : /\ modules_list'[i].watch \cap Builtin = {}
                            /\ modules_list'[i].processed \subseteq modules_list'[i].watch
      BY <2>1, <2>2, <2>3 DEF Modules, Accounted
    <3> QED BY <1>1, <3>1, <3>2, <3>3 DEF Accounted
  <2> QED BY <1>1, <2>5, <2>6 DEF Modules, Printing
<1> QED
  <2>1. CASE ~Accepted(m) \/ ~m.opens
    <3>1. [held EXCEPT ![found] = "closed"] = held
      BY <1>3 DEF Modules, Listed
    <3> QED BY <1>4, <2>1, <3>1 DEF _load_options_module, AfterLoad
  <2>2. CASE Accepted(m) /\ m.opens
    BY <1>5, <2>2 DEF _load_options_module, AfterLoad
  <2> QED BY <2>1, <2>2

LEMMA LoadArgumentsStep ==
  ASSUME Modules, LoadOptionArguments
  PROVE  Modules'
<1> USE DEF modvars, cmdvars, outvars, logvars, Goto
<1>1. /\ pc = "modules" /\ pc' = "getopt" /\ UNCHANGED <<dir, found, held, out>>
      /\ modules_list' = [n \in Infos |-> [modules_list[n] EXCEPT !.watch = Watch(n)]]
  BY DEF LoadOptionArguments, Infos
<1>2. Len(modules_list) \in Nat
  BY SeqLemma DEF Modules, Listed
<1>3. IsSeq(modules_list') /\ Len(modules_list') = Len(modules_list)
  <2> DEFINE T == {[modules_list[n] EXCEPT !.watch = Watch(n)] : n \in Infos}
  <2>1. modules_list' \in [1..Len(modules_list) -> T]
    BY <1>1 DEF Infos
  <2> HIDE DEF T
  <2>2. modules_list' \in Seq(T) /\ Len(modules_list') = Len(modules_list)
    BY <1>2, <2>1
  <2> QED BY <2>2 DEF IsSeq, ToSet
<1>4. Infos' = Infos
  BY <1>3 DEF Infos
<1>5. ASSUME NEW n \in Infos
      PROVE  /\ modules_list'[n] \in Info(n)' /\ modules_list'[n].file = modules_list[n].file
             /\ modules_list'[n].watch = Watch(n) /\ modules_list'[n].processed = {}
  <2>1. modules_list'[n] = [modules_list[n] EXCEPT !.watch = Watch(n)]
    BY <1>1
  <2>2. modules_list[n] \in Info(n) /\ modules_list[n].processed = {}
    BY <1>1 DEF Modules, Listed
  <2> QED BY <1>1, <2>1, <2>2 DEF Info
<1>6. Listed'
  BY <1>1, <1>3, <1>4, <1>5 DEF Modules, Listed
<1>7. Accounted'
  <2>1. /\ \A n \in Infos : Watch(n) \cap Builtin = {}
        /\ \A i, j \in Infos : i # j => Watch(i) \cap Watch(j) = {}
    BY WatchLemma DEF Modules
  <2> HIDE DEF Infos
  <2>2. UNCHANGED <<dir, held>>
    BY <1>1
  <2>3. \A n \in Infos : modules_list'[n].file = modules_list[n].file
    BY <1>5
  <2>4. \A f \in DOMAIN dir :
          held'[f] = "ready" <=> \E n \in Infos' : modules_list'[n].file = f
    BY <2>2, <2>3, <1>4 DEF Modules, Accounted
  <2>5. \A i, j \in Infos' : i # j =>
          /\ dir[modules_list'[i].file].name # dir[modules_list'[j].file].name
          /\ modules_list'[i].watch \cap modules_list'[j].watch = {}
    BY <1>4, <1>5, <2>1 DEF Modules, Accounted
  <2>6. \A i \in Infos' : /\ modules_list'[i].watch \cap Builtin = {}
                          /\ modules_list'[i].processed \subseteq modules_list'[i].watch
    BY <1>4, <1>5, <2>1
  <2> QED BY <2>2, <2>4, <2>5, <2>6 DEF Accounted
<1> QED BY <1>1, <1>6, <1>7 DEF Modules, Printing

LEMMA ModuleOptionStep ==
  ASSUME Modules, ModuleOption
  PROVE  Modules'
<1> USE DEF modvars, cmdvars, outvars, logvars, Exit
<1> DEFINE c == Head(args).letter
           k == Owner(c)
<1>1. k \in Infos /\ c \in modules_list[k].watch
  BY OwnerLemma DEF ModuleOption, Modules
<1>2. pc = "getopt" /\ UNCHANGED <<dir, found, held, out>>
  BY DEF ModuleOption
<1>3. CASE pc' = "exited" /\ UNCHANGED modules_list
  BY <1>2, <1>3 DEF Modules, Listed, Accounted, Printing, Infos, Info
<1>4. CASE /\ pc' = pc
           /\ modules_list' = [modules_list EXCEPT ![k].processed = @ \cup {c}]
  <2>1. Len(modules_list) \in Nat /\ DOMAIN modules_list = Infos
    BY SeqLemma DEF Modules, Listed, Infos
  <2>2. /\ modules_list' = [n \in Infos |-> IF n = k
              THEN [modules_list[k] EXCEPT !.processed = @ \cup {c}] ELSE modules_list[n]]
    BY <1>1, <1>4, <2>1 DEF Modules, Listed, IsSeq
  <2>3. IsSeq(modules_list') /\ Len(modules_list') = Len(modules_list)
    <3> DEFINE T == {modules_list'[n] : n \in Infos}
    <3>1. modules_list' \in [1..Len(modules_list) -> T]
      BY <2>2 DEF Infos
    <3> HIDE DEF T
    <3>2. modules_list' \in Seq(T) /\ Len(modules_list') = Len(modules_list)
      BY <2>1, <3>1
    <3> QED BY <3>2 DEF IsSeq, ToSet
  <2>4. Infos' = Infos
    BY <2>3 DEF Infos
  <2>5. ASSUME NEW n \in Infos
        PROVE  /\ modules_list'[n] \in Info(n)' /\ modules_list'[n].file = modules_list[n].file
               /\ modules_list'[n].watch = modules_list[n].watch
               /\ modules_list'[n].processed \subseteq
                    modules_list[n].processed \cup (IF n = k THEN {c} ELSE {})
    <3>1. modules_list[n] \in Info(n)
      BY DEF Modules, Listed
    <3>2. CASE n = k
      <4>1. modules_list'[n] = [modules_list[n] EXCEPT !.processed = @ \cup {c}]
        BY <2>2, <3>2
      <4> QED BY <1>2, <3>1, <3>2, <4>1 DEF Info
    <3>3. CASE n # k
      <4>1. modules_list'[n] = modules_list[n]
        BY <2>2, <3>3
      <4> QED BY <1>2, <3>1, <4>1 DEF Info
    <3> QED BY <3>2, <3>3
  <2>6. Listed'
    BY <1>2, <1>4, <2>3, <2>4, <2>5 DEF Modules, Listed
  <2>7. Accounted'
    BY <1>1, <1>2, <2>4, <2>5 DEF Modules, Accounted
  <2> QED BY <1>2, <1>4, <2>6, <2>7 DEF Modules, Printing
<1> QED BY <1>3, <1>4 DEF ModuleOption

LEMMA UnloadStep ==
  ASSUME Modules, _unload_options_modules
  PROVE  Modules'
<1> USE DEF modvars, cmdvars, outvars, logvars
<1>1. /\ pc' = "exited" /\ modules_list' = <<>> /\ UNCHANGED <<dir, found>>
      /\ held' = [f \in DOMAIN dir |->
                    IF \E n \in DOMAIN modules_list : modules_list[n].file = f
                    THEN "closed" ELSE held[f]]
  BY DEF _unload_options_modules
<1>2. DOMAIN modules_list = Infos
  BY SeqLemma DEF Modules, Listed, Infos
<1>3. \A f \in DOMAIN dir : held'[f] = "closed"
  BY <1>1, <1>2 DEF Modules, Listed, Accounted
<1>4. Infos' = {} /\ IsSeq(<<>>)
  BY <1>1 DEF Infos, IsSeq
<1> QED
  BY <1>1, <1>3, <1>4 DEF Modules, Listed, Accounted, Printing

LEMMA ModulesStep == Modules /\ [Next]_vars => Modules'
<1> SUFFICES ASSUME Modules, [Next]_vars PROVE Modules'
  OBVIOUS
<1> USE DEF Goto, Exit, modvars, cmdvars, logvars, outvars
<1>1. CASE /\ UNCHANGED <<dir, found, held, modules_list>> /\ pc' # "modules"
           /\ \/ pc' = "unload"
              \/ pc \notin {"unload", "exited"} /\ out' = out
  BY <1>1 DEF Modules, Listed, Accounted, Printing, Infos, Info
<1>2. CASE UNCHANGED vars
  BY <1>2 DEF vars, Modules, Listed, Accounted, Printing, Infos, Info
<1> QED
  BY <1>1, <1>2, LoadModuleStep, LoadArgumentsStep, ModuleOptionStep, UnloadStep
  DEF Next, BuiltinOption, UnknownOption, NodesGiven, NodesImproper, NodesOfModules,
      EnterMonitor, Mode, MonitorEvent, MonitorFails, MonitorReturns, LoadFails, LoadData,
      GetNodes, GetFails, OutputFails, _output_mode, OpenLog, FirstPoll, LogChanges, LogFails, Sleep

(* The list holds the modules that are set up and open, no two of a name,  *)
(* and every other file is closed, whichever of the checks of              *)
(* _load_options_module refused it; a letter has one owner, which alone    *)
(* processes it; and after _unload_options_modules nothing is open.        *)
THEOREM ModulesAreHeld == Spec => []ModulesHeld
<1>1. Init => Modules
  <2> SUFFICES ASSUME Init PROVE Modules
    OBVIOUS
  <2>1. modules_list = <<>> /\ Infos = {} /\ IsSeq(<<>>)
    BY DEF Init, Infos, IsSeq
  <2> QED BY <2>1 DEF Init, Modules, Listed, Accounted, Printing
<1>2. Modules => ModulesHeld
  <2> SUFFICES ASSUME Modules PROVE ModulesHeld
    OBVIOUS
  <2>1. DOMAIN modules_list = Infos
    BY SeqLemma DEF Modules, Listed, Infos
  <2>2. \A f \in DOMAIN dir :
          held[f] = IF \E n \in DOMAIN modules_list : modules_list[n].file = f
                    THEN "ready" ELSE "closed"
    BY <2>1 DEF Modules, Listed, Accounted
  <2>3. Answered => modules_list = <<>>
    BY DEF Modules, Printing, Answered
  <2> QED BY <2>1, <2>2, <2>3 DEF ModulesHeld, Modules, Listed, Accounted
<1> QED BY <1>1, <1>2, ModulesStep, PTL DEF Spec
-----------------------------------------------------------------------------
(***************************************************************************)
(* The answer.  _get_input_nodes pushes a name for every one it finds.     *)
(***************************************************************************)
Loop(f, names, there) ==
  [k \in 0..Len(names) |-> IF k = 0 THEN <<>> ELSE Push(f[k - 1], names[k], there)]

LEMMA LoopExists ==
  ASSUME NEW T, NEW names \in Seq(T), NEW there
  PROVE  \E f : f = Loop(f, names, there)
<1> DEFINE Upto(n, f) == /\ f = [k \in 0..n |-> f[k]] /\ f[0] = <<>>
                         /\ \A k \in 1..n : f[k] = Push(f[k - 1], names[k], there)
           Bad == {n \in Nat : ~\E f : Upto(n, f)}
<1>1. ASSUME Bad # {}
      PROVE  FALSE
  <2>1. PICK m \in Bad : \A n \in Bad : m <= n
    <3>1. Bad \subseteq Nat
      OBVIOUS
    <3> HIDE DEF Bad
    <3> QED BY <1>1, <3>1, LeastLemma
  <2>2. m \in Nat
    OBVIOUS
  <2>3. m # 0
    <3>1. Upto(0, [k \in 0..0 |-> <<>>])
      OBVIOUS
    <3> QED BY <3>1
  <2>4. m - 1 \in Nat /\ ~(m <= m - 1)
    BY <2>2, <2>3
  <2>5. PICK f : Upto(m - 1, f)
    BY <2>1, <2>4
  <2> DEFINE g == [k \in 0..m |-> IF k = m THEN Push(f[m - 1], names[m], there) ELSE f[k]]
  <2>6. Upto(m, g)
    <3>1. \A k \in 0..m - 1 : k # m /\ k \in 0..m
      BY <2>2
    <3>2. \A k \in 1..m : k - 1 \in 0..m - 1 /\ (k # m => k \in 1..m - 1 /\ k \in 0..m - 1)
      BY <2>2
    <3>3. \A k \in 0..m - 1 : g[k] = f[k]
      BY <3>1
    <3>4. g[0] = <<>>
      BY <2>4, <2>5, <3>3
    <3>5. g[m] = Push(f[m - 1], names[m], there) /\ g = [k \in 0..m |-> g[k]]
      BY <2>2
    <3> HIDE DEF g
    <3>6. ASSUME NEW k \in 1..m
          PROVE  g[k] = Push(g[k - 1], names[k], there)
      <4>1. g[k - 1] = f[k - 1]
        BY <3>2, <3>3
      <4>2. CASE k = m
        BY <3>5, <4>1, <4>2
      <4>3. CASE k # m
        BY <2>5, <3>2, <3>3, <4>1, <4>3
      <4> QED BY <4>2, <4>3
    <3> QED BY <3>4, <3>5, <3>6
  <2> QED BY <2>1, <2>6
<1>2. PICK f : Upto(Len(names), f)
  BY <1>1
<1>3. \A k \in 0..Len(names) : k # 0 => k \in 1..Len(names)
  OBVIOUS
<1> QED BY <1>2, <1>3 DEF Loop

(* What is pushed are the names that are there, each as often as it is     *)
(* named.                                                                  *)
LEMMA PushedLemma ==
  ASSUME NEW T, NEW names \in Seq(T), NEW there
  PROVE  /\ Pushed(names, there) \in Seq(T)
         /\ ToSet(Pushed(names, there)) = ToSet(names) \cap there
         /\ Len(Pushed(names, there)) = Cardinality({k \in DOMAIN names : names[k] \in there})
<1> DEFINE f == CHOOSE g : g = Loop(g, names, there)
           At(k) == {j \in 1..k : names[j] \in there}
           Right(k) == /\ f[k] \in Seq(T) /\ IsFiniteSet(At(k)) /\ Len(f[k]) = Cardinality(At(k))
                       /\ ToSet(f[k]) = {names[j] : j \in 1..k} \cap there
           Bad == {k \in 0..Len(names) : ~Right(k)}
<1>1. f = Loop(f, names, there)
  BY LoopExists
<1>2. Pushed(names, there) = f[Len(names)]
  BY DEF Pushed, Loop
<1> HIDE DEF f
<1>3. Len(names) \in Nat /\ DOMAIN names = 1..Len(names)
  OBVIOUS
<1>4. f[0] = <<>> /\ \A k \in 1..Len(names) : f[k] = Push(f[k - 1], names[k], there)
  <2>1. 0 \in 0..Len(names) /\ \A k \in 1..Len(names) : k \in 0..Len(names) /\ k # 0
    BY <1>3
  <2> QED BY <1>1, <2>1 DEF Loop
<1>5. Right(0)
  <2>1. 1..0 = {}
    OBVIOUS
  <2>2. At(0) = {} /\ {names[j] : j \in 1..0} = {}
    BY <2>1
  <2>3. IsFiniteSet(At(0)) /\ Cardinality(At(0)) = 0
    BY <2>2, FS_EmptySet
  <2> QED BY <1>4, <2>2, <2>3 DEF ToSet
<1>6. ASSUME NEW k \in 1..Len(names), Right(k - 1)
      PROVE  Right(k)
  <2>1. {names[j] : j \in 1..k} = {names[j] : j \in 1..k - 1} \cup {names[k]}
    BY <1>3
  <2>2. 1..k = (1..k - 1) \cup {k} /\ k \notin 1..k - 1
    BY <1>3
  <2>3. CASE names[k] \notin there
    <3>1. At(k) = At(k - 1)
      BY <2>2, <2>3
    <3>2. f[k] = f[k - 1]
      BY <1>4, <2>3 DEF Push
    <3> QED BY <1>6, <2>1, <2>3, <3>1, <3>2
  <2>4. CASE names[k] \in there
    <3> DEFINE s == f[k - 1]
    <3>1. f[k] = Append(s, names[k]) /\ names[k] \in T /\ s \in Seq(T)
      <4>1. names[k] \in T
        BY <1>3
      <4> QED BY <1>4, <1>6, <2>4, <4>1 DEF Push
    <3>2. At(k) = At(k - 1) \cup {k} /\ k \notin At(k - 1)
      BY <2>2, <2>4
    <3>3. IsFiniteSet(At(k)) /\ Cardinality(At(k)) = Cardinality(At(k - 1)) + 1
      <4> DEFINE before == At(k - 1)
      <4>1. IsFiniteSet(before)
        BY <1>6
      <4>2. At(k) = before \cup {k} /\ k \notin before
        BY <3>2
      <4> HIDE DEF before
      <4>3. IsFiniteSet(before \cup {k}) /\ Cardinality(before \cup {k}) = Cardinality(before) + 1
        BY <4>1, <4>2, FS_AddElement
      <4> HIDE DEF At
      <4> QED BY <4>2, <4>3 DEF before
    <3> HIDE DEF s
    <3> DEFINE a == Append(s, names[k])
    <3>4. /\ a \in Seq(T) /\ Len(a) = Len(s) + 1 /\ a[Len(s) + 1] = names[k]
          /\ DOMAIN a = 1..Len(s) + 1
          /\ Len(s) \in Nat /\ DOMAIN s = 1..Len(s) /\ \A n \in 1..Len(s) : a[n] = s[n]
      BY <3>1
    <3> HIDE DEF a
    <3>5. 1..Len(s) + 1 = 1..Len(s) \cup {Len(s) + 1}
      BY <3>4
    <3>6. ToSet(a) = ToSet(s) \cup {names[k]}
      BY <3>4, <3>5 DEF ToSet
    <3>7. ToSet(s) = {names[j] : j \in 1..k - 1} \cap there /\ Len(s) = Cardinality(At(k - 1))
      BY <1>6 DEF s
    <3>8. f[k] = a
      BY <3>1 DEF a
    <3>9. ToSet(f[k]) = {names[j] : j \in 1..k} \cap there
      BY <2>1, <2>4, <3>6, <3>7, <3>8
    <3> QED BY <3>3, <3>4, <3>7, <3>8, <3>9
  <2> QED BY <2>3, <2>4
<1> HIDE DEF Right
<1>7. ASSUME Bad # {}
      PROVE  FALSE
  <2>1. Min(Bad) \in Bad /\ \A n \in Bad : Min(Bad) <= n
    <3>1. Bad \subseteq Nat
      BY <1>3
    <3> HIDE DEF Bad
    <3> QED BY <1>7, <3>1, LeastLemma
  <2>2. PICK m \in Bad : \A n \in Bad : m <= n
    BY <2>1
  <2>3. m \in 1..Len(names) /\ m - 1 \in 0..Len(names) /\ ~(m <= m - 1)
    BY <1>3, <1>5, <2>2
  <2> QED BY <1>6, <2>2, <2>3
<1>8. Right(Len(names))
  BY <1>3, <1>7
<1> QED BY <1>2, <1>3, <1>8 DEF Right, ToSet

(* Names that do not repeat are there as often as there are nodes.         *)
LEMMA OnceLemma ==
  ASSUME NEW T, NEW names \in Seq(T), IsInjective(names), NEW there
  PROVE  Cardinality({k \in DOMAIN names : names[k] \in there})
           = Cardinality(ToSet(names) \cap there)
<1> DEFINE D == {k \in DOMAIN names : names[k] \in there}
           S == ToSet(names) \cap there
           f == [k \in D |-> names[k]]
<1>1. IsFiniteSet(D)
  <2>1. Len(names) \in Nat /\ DOMAIN names = 1..Len(names)
    OBVIOUS
  <2>2. IsFiniteSet(1..Len(names)) /\ D \subseteq 1..Len(names)
    BY <2>1, FS_Interval
  <2> HIDE DEF D
  <2> QED BY <2>2, FS_Subset
<1>2. f \in Injection(D, S)
  BY DEF Injection, IsInjective, ToSet
<1>3. f \in Surjection(D, S)
  BY <1>2 DEF Surjection, Injection, ToSet
<1> HIDE DEF f, D, S
<1>4. Cardinality(S) = Cardinality(D)
  BY <1>1, <1>2, <1>3, FS_Surjection
<1> QED BY <1>4 DEF D, S

LEMMA EmptyLemma ==
  ASSUME NEW s, IsSeq(s)
  PROVE  s = <<>> <=> ToSet(s) = {}
<1>1. Len(s) \in Nat /\ DOMAIN s = 1..Len(s) /\ s \in Seq(ToSet(s))
  BY DEF IsSeq
<1>2. CASE Len(s) = 0
  <2>1. s = <<>>
    BY <1>1, <1>2
  <2> QED BY <2>1 DEF ToSet
<1>3. CASE Len(s) # 0
  <2>1. 1 \in DOMAIN s /\ s[1] \in ToSet(s) /\ s # <<>>
    BY <1>1, <1>3 DEF ToSet
  <2> QED BY <2>1
<1> QED BY <1>2, <1>3

(* hostlist_uniq keeps each name once.                                     *)
LEMMA UniqueLemma ==
  ASSUME NEW names, IsSeq(names)
  PROVE  /\ IsSeq(Unique(names)) /\ IsInjective(Unique(names))
         /\ ToSet(Unique(names)) = ToSet(names)
         /\ Len(Unique(names)) = Cardinality(ToSet(names))
<1> DEFINE n == Len(names)
<1>1. n \in Nat /\ DOMAIN names = 1..n
  BY DEF IsSeq
<1>2. names \in Surjection(1..n, ToSet(names))
  BY <1>1 DEF IsSeq, Surjection, ToSet
<1>3. IsFiniteSet(1..n)
  BY <1>1, FS_Interval
<1>4. IsFiniteSet(ToSet(names))
  BY <1>2, <1>3, FS_Surjection
<1> QED BY <1>4, SetToSeqLemma DEF Unique, IsSeq

LEMMA RenamedLemma ==
  ASSUME NEW names \in Seq(Nodes), NEW c
  PROVE  /\ IsSeq(Renamed(names, c)) /\ Len(Renamed(names, c)) = Len(names)
         /\ ToSet(Renamed(names, c)) = {c[n] : n \in ToSet(names)}
<1> DEFINE r == Renamed(names, c)
           T == {c[n] : n \in ToSet(names)}
<1>1. Len(names) \in Nat /\ DOMAIN names = 1..Len(names)
  OBVIOUS
<1>2. r = [k \in 1..Len(names) |-> c[names[k]]]
  BY <1>1 DEF Renamed
<1>3. \A k \in 1..Len(names) : c[names[k]] \in T
  BY <1>1 DEF ToSet
<1>4. ToSet(r) = T
  BY <1>1, <1>2 DEF ToSet
<1> HIDE DEF T
<1>5. r \in Seq(T) /\ Len(r) = Len(names)
  BY <1>1, <1>2, <1>3
<1> QED BY <1>4, <1>5 DEF IsSeq, T

(* A buffer names the nodes it was made of, by their new names, once each  *)
(* or as often as they were in it.                                         *)
LEMMA BufferLemma ==
  ASSUME NEW names \in Seq(Nodes), NEW b \in Buffers(names)
  PROVE  /\ IsSeq(b.names) /\ ToSet(b.names) = {b.by[n] : n \in ToSet(names)}
         /\ Len(b.names) = IF b.merged THEN Cardinality({b.by[n] : n \in ToSet(names)})
                           ELSE Len(names)
<1>1. CASE b = [names |-> names, by |-> Same, merged |-> FALSE]
  <2>1. \A n \in ToSet(names) : Same[n] = n
    BY DEF ToSet, Same
  <2>2. {Same[n] : n \in ToSet(names)} = ToSet(names)
    BY <2>1
  <2>3. names \in Seq(ToSet(names))
    BY DEF ToSet
  <2> QED BY <1>1, <2>2, <2>3 DEF IsSeq
<1>2. ASSUME NEW c \in Conversions, NEW merged \in BOOLEAN,
             b = [names |-> Converted(names, c, merged), by |-> c, merged |-> merged]
      PROVE  /\ IsSeq(b.names) /\ ToSet(b.names) = {b.by[n] : n \in ToSet(names)}
             /\ Len(b.names) = IF b.merged THEN Cardinality({b.by[n] : n \in ToSet(names)})
                               ELSE Len(names)
  <2>1. b.names = Converted(names, c, merged) /\ b.by = c /\ b.merged = merged
    BY <1>2
  <2>2. CASE merged
    <3>1. b.names = Unique(Renamed(names, c))
      BY <2>1, <2>2 DEF Converted
    <3> QED BY <2>1, <2>2, <3>1, RenamedLemma, UniqueLemma
  <2>3. CASE ~merged
    <3>1. b.names = Renamed(names, c)
      BY <2>1, <2>3 DEF Converted
    <3> QED BY <2>1, <2>3, <3>1, RenamedLemma
  <2> QED BY <2>2, <2>3
<1>3. \/ b = [names |-> names, by |-> Same, merged |-> FALSE]
      \/ \E c \in Conversions, merged \in BOOLEAN :
           b = [names |-> Converted(names, c, merged), by |-> c, merged |-> merged]
  BY DEF Buffers
<1> QED BY <1>1, <1>2, <1>3

(* What is true of the names, the lists and the output.                    *)
Called(s) == {lists[s].by[n] : n \in AskedFor \cap snapshot[s]}
Number(s) == IF lists[s].merged THEN Cardinality(Called(s)) ELSE Times(s)

ListsOf(s) ==
  /\ IsSeq(lists[s].names) /\ ToSet(lists[s].names) = Called(s)
  /\ Len(lists[s].names) = Number(s)

Exact ==
  LET other == CASE conf.updown = "up" -> snapshot.down
                 [] conf.updown = "down" -> snapshot.up
                 [] OTHER -> {}
  IN  /\ AskedFor \subseteq snapshot.up \cup snapshot.down
      /\ \A s \in DOMAIN out :
           IF "count" \in DOMAIN out[s] THEN out[s].count = Number(s)
           ELSE ToSet(out[s].list) = Called(s) /\ Len(out[s].list) = Number(s)
      /\ status = 0 <=> AskedFor \cap other = {}

Named ==
  /\ inputted_nodes \in Seq(Nodes)
  /\ nodes # Null => nodes.names \in Seq(Nodes)
  /\ nodes # Null /\ pc \notin {"modules", "getopt", "exited"} =>
       inputted_nodes = Unique(nodes.names)
  /\ conf \in [updown : {"both", "up", "down"}, count_only : BOOLEAN,
               last_up_time : BOOLEAN, log_mode : BOOLEAN, log_file : BOOLEAN]

Answering ==
  /\ Named
  /\ pc \in {"get", "output"} => snapshot \in Snapshots
  /\ pc = "output" => /\ AskedFor \subseteq snapshot.up \cup snapshot.down
                     /\ ListsOf("up") /\ ListsOf("down")
  /\ pc = "unload" => Exact
  /\ pc = "exited" => out = Null \/ Exact
  /\ pc \notin {"unload", "exited"} => out = Null

(* The names of the command line and the list they became.                 *)
LEMMA AskedForLemma ==
  ASSUME Named, pc = "get"
  PROVE  /\ AskedFor = IF inputted_nodes = <<>> THEN snapshot.up \cup snapshot.down
                       ELSE ToSet(inputted_nodes)
         /\ nodes # Null => IsInjective(inputted_nodes)
<1>1. CASE nodes = Null
  BY <1>1 DEF AskedFor
<1>2. CASE nodes # Null
  <2>1. IsSeq(nodes.names) /\ inputted_nodes = Unique(nodes.names)
    <3>1. \A s \in Seq(Nodes) : s \in Seq(ToSet(s))
      BY DEF ToSet
    <3> QED BY <1>2, <3>1 DEF Named, IsSeq
  <2>2. /\ IsSeq(inputted_nodes) /\ IsInjective(inputted_nodes)
        /\ ToSet(inputted_nodes) = ToSet(nodes.names)
    BY <2>1, UniqueLemma
  <2>3. inputted_nodes = <<>> <=> nodes.names = <<>>
    BY <2>1, <2>2, EmptyLemma
  <2> QED BY <1>2, <2>2, <2>3 DEF AskedFor
<1> QED BY <1>1, <1>2

(* _get_nodes lists the nodes asked for that are in one state.             *)
LEMMA SelectedLemma ==
  ASSUME Named, pc = "get", snapshot \in Snapshots, NEW state \in States
  PROVE  LET names == Selected(state)
         IN  /\ names \in Seq(Nodes) /\ ToSet(names) = AskedFor \cap snapshot[state]
             /\ Len(names) = Times(state)
<1>1. snapshot[state] \subseteq Nodes /\ snapshot[state] \subseteq snapshot.up \cup snapshot.down
  BY DEF Snapshots, States
<1>2. CASE inputted_nodes = <<>>
  <2>1. IsFiniteSet(snapshot[state])
    BY <1>1, NodesAssumption, FS_Subset
  <2> DEFINE S == snapshot[state]
  <2> HIDE DEF S
  <2>2. /\ SetToSeq(S) \in Seq(S) /\ ToSet(SetToSeq(S)) = S
        /\ Len(SetToSeq(S)) = Cardinality(S)
    BY <2>1, SetToSeqLemma DEF S
  <2>3. S \subseteq Nodes /\ AskedFor \cap S = S
    BY <1>1, <1>2, AskedForLemma DEF S
  <2>4. Selected(state) = SetToSeq(S)
    BY <1>2 DEF Selected, S
  <2>5. SetToSeq(S) \in Seq(Nodes)
    BY <2>2, <2>3
  <2>6. Times(state) = Cardinality(S)
    BY <1>2, <2>3 DEF Times, S
  <2> QED BY <2>2, <2>3, <2>4, <2>5, <2>6 DEF S
<1>3. CASE inputted_nodes # <<>>
  <2> DEFINE at == {k \in DOMAIN inputted_nodes : inputted_nodes[k] \in snapshot[state]}
  <2>1. Selected(state) = Pushed(inputted_nodes, snapshot[state]) /\ AskedFor = ToSet(inputted_nodes)
    BY <1>3, AskedForLemma DEF Selected
  <2>2. /\ Pushed(inputted_nodes, snapshot[state]) \in Seq(Nodes)
        /\ ToSet(Pushed(inputted_nodes, snapshot[state])) = ToSet(inputted_nodes) \cap snapshot[state]
        /\ Len(Pushed(inputted_nodes, snapshot[state])) = Cardinality(at)
    <3>1. inputted_nodes \in Seq(Nodes)
      BY DEF Named
    <3> DEFINE there == snapshot[state]
    <3> HIDE DEF there
    <3>2. /\ Pushed(inputted_nodes, there) \in Seq(Nodes)
          /\ ToSet(Pushed(inputted_nodes, there)) = ToSet(inputted_nodes) \cap there
          /\ Len(Pushed(inputted_nodes, there)) =
               Cardinality({k \in DOMAIN inputted_nodes : inputted_nodes[k] \in there})
      BY <3>1, PushedLemma
    <3> QED BY <3>2 DEF there
  <2>3. Times(state) = Cardinality(at)
    <3>1. CASE nodes = Null
      BY <1>3, <3>1 DEF Times
    <3>2. CASE nodes # Null
      BY <2>1, <3>2, AskedForLemma, OnceLemma DEF Times, Named
    <3> QED BY <3>1, <3>2
  <2> QED BY <2>1, <2>2, <2>3
<1> QED BY <1>2, <1>3

LEMMA GetNodesStep ==
  ASSUME Answering, GetNodes
  PROVE  Answering'
<1> USE DEF modvars, cmdvars, logvars, Goto, Exit
<1>1. /\ pc = "get" /\ UNCHANGED <<nodes, conf, inputted_nodes, snapshot, out>>
      /\ Named /\ snapshot \in Snapshots /\ out = Null
  BY DEF GetNodes, Answering
<1>2. CASE pc' = "exited"
  BY <1>1, <1>2 DEF Answering, Named
<1>3. ASSUME pc' = "output", Unknown = {},
             NEW u \in Buffers(Selected("up")), NEW d \in Buffers(Selected("down")),
             lists' = [up |-> u, down |-> d]
      PROVE  Answering'
  <2>1. Named'
    BY <1>1, <1>3 DEF Named
  <2>2. AskedFor' = AskedFor /\ \A s \in States : Times(s)' = Times(s)
    BY <1>1 DEF AskedFor, Times
  <2>3. ASSUME NEW s \in States, NEW b \in Buffers(Selected(s)), lists'[s] = b
        PROVE  ListsOf(s)'
    <3> DEFINE names == Selected(s)
    <3>1. names \in Seq(Nodes) /\ ToSet(names) = AskedFor \cap snapshot[s] /\ Len(names) = Times(s)
      BY <1>1, SelectedLemma
    <3> HIDE DEF names
    <3>2. /\ IsSeq(b.names) /\ ToSet(b.names) = {b.by[n] : n \in ToSet(names)}
          /\ Len(b.names) = IF b.merged THEN Cardinality({b.by[n] : n \in ToSet(names)})
                            ELSE Len(names)
      BY <2>3, <3>1, BufferLemma DEF names
    <3>3. Called(s)' = {b.by[n] : n \in ToSet(names)}
      BY <1>1, <2>2, <2>3, <3>1 DEF Called
    <3>4. Times(s)' = Times(s)
      BY <2>2
    <3> QED BY <2>3, <3>1, <3>2, <3>3, <3>4 DEF ListsOf, Number
  <2>4. ListsOf("up")' /\ ListsOf("down")'
    <3>1. lists'["up"] = u /\ lists'["down"] = d /\ "up" \in States /\ "down" \in States
      BY <1>3 DEF States
    <3> QED BY <2>3, <3>1
  <2>5. AskedFor \subseteq snapshot.up \cup snapshot.down
    BY <1>1, <1>3, AskedForLemma DEF Unknown
  <2> QED BY <1>1, <1>3, <2>1, <2>2, <2>4, <2>5 DEF Answering
<1> QED BY <1>2, <1>3 DEF GetNodes

LEMMA OutputStep ==
  ASSUME Answering, _output_mode
  PROVE  Answering'
<1> USE DEF modvars, cmdvars, logvars
<1> DEFINE counting == conf.count_only /\ ~conf.last_up_time
<1>1. /\ pc = "output" /\ pc' = "unload" /\ status' = ExitVal
      /\ UNCHANGED <<nodes, conf, inputted_nodes, snapshot, lists>>
      /\ out' = [s \in Printed |-> IF counting THEN [count |-> Len(lists[s].names)]
                                  ELSE [list |-> lists[s].names]]
  BY DEF _output_mode
<1>2. /\ Named /\ snapshot \in Snapshots
      /\ AskedFor \subseteq snapshot.up \cup snapshot.down
      /\ \A s \in States : ListsOf(s)
  BY <1>1 DEF Answering, States
<1>3. conf.updown \in {"both", "up", "down"} /\ Printed \subseteq States
  BY <1>2 DEF Named, Printed, States
<1>4. Named' /\ AskedFor' = AskedFor
  BY <1>1, <1>2 DEF Named, AskedFor
<1>5. \A s \in States :
        /\ Number(s)' = Number(s) /\ Called(s)' = Called(s)
        /\ lists[s].names = <<>> <=> AskedFor \cap snapshot[s] = {}
  <2> TAKE s \in States
  <2>1. Called(s)' = Called(s) /\ Times(s)' = Times(s)
    BY <1>1, <1>4 DEF Called, Times
  <2>2. lists[s].names = <<>> <=> Called(s) = {}
    BY <1>2, EmptyLemma DEF ListsOf
  <2> QED BY <1>1, <2>1, <2>2 DEF Number, Called
<1>6. ASSUME NEW s \in Printed
      PROVE  IF "count" \in DOMAIN out'[s] THEN out'[s].count = Number(s)'
             ELSE ToSet(out'[s].list) = Called(s)' /\ Len(out'[s].list) = Number(s)'
  <2>1. s \in States
    BY <1>3
  <2>2. CASE counting
    <3>1. out'[s] = [count |-> Len(lists[s].names)]
      BY <1>1, <2>2
    <3>2. "count" \in DOMAIN out'[s] /\ out'[s].count = Len(lists[s].names)
      BY <3>1
    <3> QED BY <1>2, <1>5, <2>1, <3>2 DEF ListsOf
  <2>3. CASE ~counting
    <3>1. out'[s] = [list |-> lists[s].names]
      BY <1>1, <2>3
    <3>2. "count" \notin DOMAIN out'[s] /\ out'[s].list = lists[s].names
      BY <3>1
    <3> QED BY <1>2, <1>5, <2>1, <3>2 DEF ListsOf
  <2> QED BY <2>2, <2>3
<1>7. status' = 0 <=> AskedFor \cap (CASE conf.updown = "up" -> snapshot.down
                                     [] conf.updown = "down" -> snapshot.up
                                     [] OTHER -> {}) = {}
  <2>1. /\ lists.up.names = <<>> <=> AskedFor \cap snapshot.up = {}
        /\ lists.down.names = <<>> <=> AskedFor \cap snapshot.down = {}
    BY <1>5 DEF States
  <2>2. CASE conf.updown = "up"
    BY <1>1, <2>1, <2>2 DEF ExitVal
  <2>3. CASE conf.updown = "down"
    BY <1>1, <2>1, <2>3 DEF ExitVal
  <2>4. CASE conf.updown = "both"
    BY <1>1, <2>4 DEF ExitVal
  <2> QED BY <1>3, <2>2, <2>3, <2>4
<1>8. Exact'
  <2>1. DOMAIN out' = Printed
    BY <1>1
  <2> QED BY <1>1, <1>2, <1>4, <1>6, <1>7, <2>1 DEF Exact
<1> QED BY <1>1, <1>4, <1>8 DEF Answering

(* What was answered says as much as long as nothing it speaks of changes. *)
LEMMA ExactKept ==
  ASSUME UNCHANGED <<conf, nodes, inputted_nodes, snapshot, lists, out, status>>
  PROVE  /\ AskedFor' = AskedFor /\ Exact' = Exact
         /\ \A s \in States : ListsOf(s)' = ListsOf(s)
<1>1. AskedFor' = AskedFor
  BY DEF AskedFor
<1>2. \A s : Times(s)' = Times(s)
  BY <1>1 DEF Times
<1>3. \A s : Called(s)' = Called(s)
  BY <1>1 DEF Called
<1>4. \A s : Number(s)' = Number(s)
  BY <1>2, <1>3 DEF Number
<1>5. Exact' = Exact
  BY <1>1, <1>3, <1>4 DEF Exact
<1>6. \A s : ListsOf(s)' = ListsOf(s)
  BY <1>3, <1>4 DEF ListsOf
<1> QED BY <1>1, <1>5, <1>6

LEMMA AnsweringStep == Answering /\ [Next]_vars => Answering'
<1> SUFFICES ASSUME Answering, [Next]_vars PROVE Answering'
  OBVIOUS
<1> USE DEF Goto, Exit, modvars, cmdvars, logvars, outvars
<1>1. CASE /\ UNCHANGED out /\ Named' /\ pc \notin {"unload", "exited"}
           /\ pc' \notin {"get", "output", "unload"}
  BY <1>1 DEF Answering
<1>2. CASE /\ pc' \notin {"get", "output", "unload"} /\ pc \notin {"unload", "exited"}
           /\ pc' \notin {"modules", "getopt", "exited"} => pc \notin {"modules", "getopt"}
           /\ UNCHANGED <<inputted_nodes, nodes, conf, out>>
  BY <1>1, <1>2 DEF Answering, Named
<1>3. CASE BuiltinOption
  <2>1. conf' = conf \/ conf' = Set(Head(args))
    BY <1>3 DEF BuiltinOption
  <2>2. Named'
    BY <1>3, <2>1 DEF BuiltinOption, Answering, Named, Set
  <2> QED BY <1>1, <1>3, <2>2 DEF BuiltinOption
<1>4. CASE NodesGiven
  <2>1. Unique(nodes.names) \in Seq(Nodes)
    <3>1. \A s \in Seq(Nodes) : s \in Seq(ToSet(s)) /\ ToSet(s) \subseteq Nodes
      BY DEF ToSet
    <3>2. nodes.names \in Seq(Nodes)
      BY <1>4 DEF NodesGiven, Answering, Named
    <3>3. \A s : IsSeq(s) /\ ToSet(s) \subseteq Nodes => s \in Seq(Nodes)
      BY DEF IsSeq
    <3> QED BY <3>1, <3>2, <3>3, UniqueLemma DEF IsSeq
  <2>2. Named'
    BY <1>4, <2>1 DEF NodesGiven, Answering, Named
  <2> QED BY <1>1, <1>4, <2>2 DEF NodesGiven
<1>5. CASE NodesOfModules
  <2>1. <<>> \in Seq(Nodes)
    OBVIOUS
  <2>2. Named'
    BY <1>5, <2>1, NamesAssumption DEF NodesOfModules, Answering, Named
  <2> QED BY <1>1, <1>5, <2>2 DEF NodesOfModules
<1>6. CASE LoadData
  <2>1. Named' /\ pc' \in {"log", "get"} /\ snapshot' \in Snapshots /\ out' = Null
    BY <1>6 DEF LoadData, Answering, Named
  <2> QED BY <2>1 DEF Answering
<1>7. CASE _unload_options_modules
  <2>1. /\ pc = "unload" /\ pc' = "exited"
        /\ UNCHANGED <<conf, nodes, inputted_nodes, snapshot, lists, out, status>>
    BY <1>7 DEF _unload_options_modules
  <2>2. Named' /\ Exact
    BY <2>1 DEF Answering, Named
  <2> QED BY <2>1, <2>2, ExactKept DEF Answering
<1>8. CASE UNCHANGED vars
  <2>1. UNCHANGED <<pc, conf, nodes, inputted_nodes, snapshot, lists, out, status>>
    BY <1>8 DEF vars
  <2>2. Named'
    BY <2>1 DEF Answering, Named
  <2> QED BY <2>1, <2>2, ExactKept DEF Answering, States
<1> QED
  BY <1>2, <1>3, <1>4, <1>5, <1>6, <1>7, <1>8, GetNodesStep, OutputStep
  DEF Next, _load_options_module, LoadOptionArguments, ModuleOption, UnknownOption,
      NodesImproper, EnterMonitor, Mode, MonitorEvent, MonitorFails, MonitorReturns,
      LoadFails, GetFails, OutputFails, OpenLog, FirstPoll, LogChanges, LogFails, Sleep

(* What whatsup prints of the nodes asked for, or of the whole cluster, is *)
(* their state in one load, under the names an options module may give     *)
(* them and in the numbers they were asked for, and the exit value 0 says  *)
(* that none of them is in the other state: for all names that a module    *)
(* may list, repeated or not, and whatever names it converts them to.      *)
THEOREM AnswersAreExact == Spec => []ExactAnswer
<1>1. Init => Answering
  <2> SUFFICES ASSUME Init PROVE Answering
    OBVIOUS
  <2>1. inputted_nodes \in Seq(Nodes)
    BY DEF Init
  <2>2. nodes # Null => nodes.names \in Seq(Nodes)
    BY NamesAssumption DEF Init
  <2>3. Named
    BY <2>1, <2>2 DEF Init, Named
  <2> QED BY <2>3 DEF Init, Answering
<1>2. Answering => ExactAnswer
  BY DEF Answering, Exact, Number, Called, ExactAnswer, Answered
<1> QED BY <1>1, <1>2, AnsweringStep, PTL DEF Spec
=============================================================================
