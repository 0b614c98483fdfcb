------------------------------ MODULE ListAbs ------------------------------
(***************************************************************************)
(* What libcommon/list.h promises, as a sequence of items and a cursor for *)
(* every iterator.  A cursor stands before an item (at), and remembers     *)
(* whether the item before it is the one it returned last (has): that one  *)
(* is what list_remove takes and list_insert inserts in front of.          *)
(*                                                                         *)
(* An item is in the list at most once.                                    *)
(***************************************************************************)
EXTENDS Integers, Sequences, SequencesExt

CONSTANTS
  Items, Iters,
  Key,            \* what the caller's functions compare and match items by
  Null

VARIABLES
  items,          \* the list
  at,             \* index of the next item of each iterator; 0: no iterator
  has,            \* the item before it is the last one returned
  ret             \* what the last call returned

vars == <<items, at, has, ret>>

Init ==
  /\ items = <<>> /\ ret = Null
  /\ at = [i \in Iters |-> 0] /\ has = [i \in Iters |-> FALSE]

Exists(i) == at[i] > 0

(* An item inserted at m: a cursor right there stays before the new item   *)
(* only if it has just returned the one in front of it.                    *)
Insert(m, x) ==
  /\ x \notin ToSet(items)
  /\ items' = InsertAt(items, m, x)
  /\ at' = [i \in Iters |-> IF at[i] > m \/ (at[i] = m /\ ~has[i])
                            THEN at[i] + 1 ELSE at[i]]
  /\ ret' = x
  /\ UNCHANGED has

(* Item m removed: a cursor that had returned it, or was about to, has no  *)
(* last item any more.                                                     *)
Delete(m) ==
  /\ ret' = items[m]
  /\ items' = RemoveAt(items, m)
  /\ at' = [i \in Iters |-> IF at[i] > m THEN at[i] - 1 ELSE at[i]]
  /\ has' = [i \in Iters |-> has[i] /\ at[i] \notin {m, m + 1}]

Nothing == ret' = Null /\ UNCHANGED <<items, at, has>>

list_append(x) == Insert(Len(items) + 1, x)
list_prepend(x) == Insert(1, x)
list_pop == IF items = <<>> THEN Nothing ELSE Delete(1)

list_iterator_create(i) ==
  /\ ~Exists(i)
  /\ at' = [at EXCEPT ![i] = 1] /\ has' = [has EXCEPT ![i] = FALSE]
  /\ ret' = Null /\ UNCHANGED items

list_iterator_reset(i) ==
  /\ Exists(i)
  /\ at' = [at EXCEPT ![i] = 1] /\ has' = [has EXCEPT ![i] = FALSE]
  /\ ret' = Null /\ UNCHANGED items

list_iterator_destroy(i) ==
  /\ Exists(i)
  /\ at' = [at EXCEPT ![i] = 0] /\ has' = [has EXCEPT ![i] = FALSE]
  /\ ret' = Null /\ UNCHANGED items

list_next(i) ==
  /\ Exists(i)
  /\ LET more == at[i] <= Len(items)
     IN  /\ ret' = IF more THEN items[at[i]] ELSE Null
         /\ at' = [at EXCEPT ![i] = IF more THEN @ + 1 ELSE @]
         /\ has' = [has EXCEPT ![i] = more]
  /\ UNCHANGED items

list_find(i, k) ==
  /\ Exists(i)
  /\ LET matches == {n \in at[i]..Len(items) : Key[items[n]] = k}
     IN  IF matches = {}
         THEN /\ ret' = Null
              /\ at' = [at EXCEPT ![i] = Len(items) + 1]
              /\ has' = [has EXCEPT ![i] = FALSE]
         ELSE /\ ret' = items[Min(matches)]
              /\ at' = [at EXCEPT ![i] = Min(matches) + 1]
              /\ has' = [has EXCEPT ![i] = TRUE]
  /\ UNCHANGED items

list_destroy ==
  /\ items' = <<>> /\ ret' = Null
  /\ at' = [i \in Iters |-> 0] /\ has' = [i \in Iters |-> FALSE]

list_insert(i, x) ==
  /\ Exists(i)
  /\ Insert(IF has[i] THEN at[i] - 1 ELSE at[i], x)

list_remove(i) ==
  /\ Exists(i)
  /\ IF has[i] THEN Delete(at[i] - 1) ELSE Nothing

(* The items whose places are p's, in the order of p. *)
Taken(p) == [n \in DOMAIN p |-> items[p[n]]]

list_delete_all(k) ==
  LET keep == {n \in DOMAIN items : Key[items[n]] # k}
  IN  \E p \in [1..Cardinality(keep) -> keep] :
        /\ \A m, n \in DOMAIN p : m < n => p[m] < p[n]
        /\ items' = Taken(p)
        /\ at' = [i \in Iters |-> IF ~Exists(i) THEN 0
                    ELSE Cardinality({n \in DOMAIN p : p[n] < at[i]}) + 1]
        /\ has' = [i \in Iters |-> has[i] /\ at[i] - 1 \in keep
                                   /\ (at[i] <= Len(items) => at[i] \in keep)]
        /\ ret' = Null

(* Ascending, stable, and every iterator starts over. *)
list_sort ==
  LET before(m, n) == \/ Key[items[m]] < Key[items[n]]
                      \/ Key[items[m]] = Key[items[n]] /\ m < n
  IN  /\ \E p \in [DOMAIN items -> DOMAIN items] :
           /\ \A m, n \in DOMAIN p : m < n => before(p[m], p[n])
           /\ items' = Taken(p)
      /\ \/ /\ Len(items) > 1
            /\ at' = [i \in Iters |-> IF Exists(i) THEN 1 ELSE 0]
            /\ has' = [i \in Iters |-> FALSE]
         \/ Len(items) <= 1 /\ UNCHANGED <<at, has>>
      /\ ret' = Null

Next ==
  \/ \E x \in Items : list_append(x) \/ list_prepend(x)
  \/ list_pop \/ list_sort \/ list_destroy
  \/ \E k \in {Key[x] : x \in Items} : list_delete_all(k)
                                    \/ \E i \in Iters : list_find(i, k)
  \/ \E i \in Iters : \/ list_iterator_create(i) \/ list_iterator_reset(i)
                      \/ list_iterator_destroy(i)
                      \/ list_next(i) \/ list_remove(i)
                      \/ \E x \in Items : list_insert(i, x)

Spec == Init /\ [][Next]_vars
=============================================================================
