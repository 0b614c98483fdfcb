---------------------------- MODULE HostlistAbs ----------------------------
(***************************************************************************)
(* What libcommon/hostlist.h promises: a hostlist is a sequence of host    *)
(* names, whatever ranges it is stored in, and an iterator is a number of  *)
(* names already returned.                                                 *)
(*                                                                         *)
(* A name is a prefix and a suffix, <<>> or the number and the zeros       *)
(* printed in front of it; a prefix is its rank in the order of strcmp.    *)
(***************************************************************************)
EXTENDS Integers, Sequences, SequencesExt, Bags

CONSTANTS
  Hosts,            \* the names pushed, searched and deleted
  Strings,          \* the strings pushed
  Names,            \* the names each string stands for, or Null
  OneWidth(_),      \* no two names of the list are padded differently
  Iters, Null

VARIABLES
  hosts,            \* the list
  pos,              \* names returned by each iterator, -1: no iterator
  ret               \* what the last call returned

vars == <<hosts, pos, ret>>

Init == hosts = <<>> /\ pos = [i \in Iters |-> -1] /\ ret = Null

Count(n) == [count |-> n]
Host(n) == [host |-> hosts[n]]
Exists(i) == pos[i] # -1
Removed(n) == hosts' = RemoveAt(hosts, n)

(* All the names of the string, or, when it is malformed, none.            *)
Push(str) ==
  LET names == IF Names[str] = Null THEN <<>> ELSE Names[str]
  IN  hosts' = hosts \o names /\ ret' = Count(Len(names)) /\ UNCHANGED pos

PushHost(name) == hosts' = Append(hosts, name) /\ ret' = Count(1) /\ UNCHANGED pos

Pop ==
  IF hosts = <<>> THEN ret' = Null /\ UNCHANGED <<hosts, pos>>
  ELSE Removed(Len(hosts)) /\ ret' = Host(Len(hosts)) /\ UNCHANGED pos

(* The iterators stand where they stood.                                   *)
Shift ==
  IF hosts = <<>> THEN ret' = Null /\ UNCHANGED <<hosts, pos>>
  ELSE /\ Removed(1) /\ ret' = Host(1)
       /\ pos' = [i \in Iters |-> IF pos[i] > 0 THEN pos[i] - 1 ELSE pos[i]]

(* The first that matches.                                                 *)
DeleteHost(name) ==
  /\ IF name \in ToSet(hosts)
     THEN ret' = Count(1) /\ Removed(SelectInSeq(hosts, LAMBDA x : x = name))
     ELSE ret' = Count(0) /\ UNCHANGED hosts
  /\ UNCHANGED pos

(* The first that matches of each, the last name first.                    *)
DeleteOne(name, s) ==
  IF name \in ToSet(s) THEN RemoveAt(s, SelectInSeq(s, LAMBDA x : x = name)) ELSE s

Delete(str) ==
  /\ hosts' = IF Names[str] = Null THEN hosts ELSE FoldRight(DeleteOne, Names[str], hosts)
  /\ ret' = Count(Len(hosts) - Len(hosts')) /\ UNCHANGED pos

(* By prefix, then by number; a name without suffix before the others.     *)
Before(x, y) ==
  \/ x.prefix < y.prefix
  \/ /\ x.prefix = y.prefix
     /\ \/ x.suffix = <<>>
        \/ y.suffix # <<>> /\ x.suffix[1] <= y.suffix[1]

Ascending(s) == IsSorted(s, Before)
StartOver == pos' = [i \in Iters |-> IF Exists(i) THEN 0 ELSE -1]

(* The names stay what they are, each as often as it was.                  *)
Sort ==
  /\ ToBag(hosts') = ToBag(hosts)
  /\ OneWidth(hosts) => Ascending(hosts')
  /\ StartOver /\ ret' = Null

Uniq ==
  /\ ToSet(hosts') = ToSet(hosts) /\ Len(hosts') <= Len(hosts)
  /\ OneWidth(hosts) => Ascending(hosts') /\ IsInjective(hosts')
  /\ StartOver /\ ret' = Null

Create(i) ==
  /\ ~Exists(i)
  /\ pos' = [pos EXCEPT ![i] = 0] /\ ret' = Null /\ UNCHANGED hosts

Reset(i) ==
  /\ Exists(i)
  /\ pos' = [pos EXCEPT ![i] = 0] /\ ret' = Null /\ UNCHANGED hosts

Destroy(i) ==
  /\ Exists(i)
  /\ pos' = [pos EXCEPT ![i] = -1] /\ ret' = Null /\ UNCHANGED hosts

NextHost(i) ==
  /\ Exists(i)
  /\ IF pos[i] < Len(hosts)
     THEN ret' = Host(pos[i] + 1) /\ pos' = [pos EXCEPT ![i] = @ + 1]
     ELSE ret' = Null /\ UNCHANGED pos
  /\ UNCHANGED hosts

(* The name returned last goes.  The iterator may be set back, and returns *)
(* some names again, but skips none.                                       *)
RemoveHost(i) ==
  /\ pos[i] > 0
  /\ Removed(pos[i]) /\ ret' = Count(1)
  /\ \E n \in 0..pos[i] - 1 : pos' = [pos EXCEPT ![i] = n]

Next ==
  \/ \E str \in Strings : Push(str) \/ Delete(str)
  \/ \E name \in Hosts : PushHost(name) \/ DeleteHost(name)
  \/ Pop \/ Shift \/ Sort \/ Uniq
  \/ \E i \in Iters : \/ Create(i) \/ Reset(i) \/ Destroy(i)
                      \/ NextHost(i) \/ RemoveHost(i)

Spec == Init /\ [][Next]_vars
=============================================================================
