------------------------------ MODULE HashAbs -------------------------------
(***************************************************************************)
(* What libcommon/hash.h promises: a hash maps keys to items.  A key that  *)
(* is there is not inserted again, and every item is either with the       *)
(* caller, in one hash, or has been given to the deletion function.        *)
(***************************************************************************)
CONSTANTS Tables, Keys, Items, Null

VARIABLES
  live,       \* hashes created and not destroyed
  map,        \* of each: the pairs of a key and its item
  ret,        \* what the last call returned
  deleted     \* items given to the deletion function and not inserted again

vars == <<live, map, ret, deleted>>

With(m, K) == {e \in m : e[1] \in K}
ItemsOf(m) == {e[2] : e \in m}

Init ==
  /\ live = {} /\ map = [t \in Tables |-> {}]
  /\ ret = Null /\ deleted = {}

Create(t) ==
  /\ t \notin live /\ live' = live \cup {t}
  /\ ret' = Null /\ UNCHANGED <<map, deleted>>

Destroy(t) ==
  /\ t \in live /\ live' = live \ {t}
  /\ ret' = Null /\ deleted' = deleted \cup ItemsOf(map[t])
  /\ map' = [map EXCEPT ![t] = {}]

Insert(t, k, d) ==
  /\ t \in live /\ UNCHANGED live
  /\ ret' = d /\ deleted' = deleted \ {d}
  /\ With(map[t], {k}) = {}
  /\ map' = [map EXCEPT ![t] = @ \cup {<<k, d>>}]

(* NULL when the key is there already, or when memory is short.            *)
InsertFails(t) ==
  /\ t \in live /\ ret' = Null
  /\ UNCHANGED <<live, map, deleted>>

Remove(t, k) ==
  /\ t \in live /\ UNCHANGED <<live, deleted>>
  /\ \/ With(map[t], {k}) = {} /\ ret' = Null
     \/ <<k, ret'>> \in map[t]
  /\ map' = [map EXCEPT ![t] = @ \ With(@, {k})]

DeleteIf(t, K) ==
  /\ t \in live /\ UNCHANGED live /\ ret' = Null
  /\ deleted' = deleted \cup ItemsOf(With(map[t], K))
  /\ map' = [map EXCEPT ![t] = @ \ With(@, K)]

Next ==
  \E t \in Tables :
    \/ Create(t) \/ Destroy(t) \/ InsertFails(t)
    \/ \E k \in Keys : Remove(t, k) \/ \E d \in Items : Insert(t, k, d)
    \/ \E K \in SUBSET Keys : DeleteIf(t, K)

Spec == Init /\ [][Next]_vars
=============================================================================
