-------------------------------- MODULE Hash --------------------------------
(***************************************************************************)
(* libcommon/hash.c: hashes with chained nodes, which all take their nodes *)
(* from one free list and give them back to it.  A cell is a place that    *)
(* holds a pointer to a node: a slot of a table, the next pointer of a     *)
(* node (which the chains and the free list share), or hash_free_list.     *)
(*                                                                         *)
(* Every call holds the mutex of its hash, and hash_free_lock while it     *)
(* takes or gives back a node.  A call that changes one chain is one step; *)
(* hash_delete_if and hash_destroy, which walk all of them and give nodes  *)
(* back one by one, are a step for each pass of their loops, so that calls *)
(* on other hashes come in between.  A key is a string, a sequence of      *)
(* characters; the deletion function and the predicate are the caller's.   *)
(***************************************************************************)
EXTENDS Integers, Sequences, FiniteSets, SequencesExt

CONSTANTS
  Tables,         \* hashes a program may create
  Keys, Items,
  Size,           \* slots of a table
  Word,           \* an unsigned int is below it
  HASH_ALLOC,     \* nodes allocated at a time
  MaxChunks,      \* how often there is memory for that
  Null

Slots(t) == {<<t, n>> : n \in 0..Size - 1}
Allocated(C) == {<<"node", n>> : n \in 1..C * HASH_ALLOC}     \* of the first C chunks
FreeList == <<"free", 0>>
Addresses == Allocated(MaxChunks)
Heads == {FreeList} \cup UNION {Slots(t) : t \in Tables}
Cells == Addresses \cup Heads

HashConstants ==
  /\ {Size, Word, HASH_ALLOC, MaxChunks} \subseteq Nat \ {0}
  /\ Keys \subseteq Seq(1..127) /\ Null \notin Items \cup Cells
  /\ IsFiniteSet(Tables) /\ IsFiniteSet(Keys) /\ IsFiniteSet(Items)
  /\ {"node", "free"} \cap Tables = {}

VARIABLES
  live,       \* hashes created and not destroyed
  link,       \* the pointer in each cell
  hkey, data, \* of each node
  items,      \* h->count
  chunks,     \* chunks allocated
  call,       \* what loops over the slots of each hash
  arg,        \* the keys whose nodes it frees
  i, pp,      \* its slot and its cell
  ret,        \* what the last call returned
  deleted     \* items given to del_f and not inserted again

nodes == <<link, hkey, data, items, chunks>>
loop == <<call, arg, i, pp>>
vars == <<live, nodes, loop, ret, deleted>>

Init ==
  /\ live = {} /\ link = [c \in Cells |-> Null]
  /\ hkey = [a \in Addresses |-> Null] /\ data = [a \in Addresses |-> Null]
  /\ items = [t \in Tables |-> 0] /\ chunks = 0
  /\ call = [t \in Tables |-> "none"] /\ arg = [t \in Tables |-> {}]
  /\ i = [t \in Tables |-> 0] /\ pp = [t \in Tables |-> FreeList]
  /\ ret = Null /\ deleted = {}

hash_key_string(str) ==
  LET hval[n \in 0..Len(str)] ==
        IF n = 0 THEN 0 ELSE (hval[n - 1] + 31 * hval[n - 1] + str[n]) % Word
  IN  hval[Len(str)]
Slot(t, k) == <<t, hash_key_string(k) % Size>>

(* The nodes in order, following the pointers from a cell. *)
Walk(cell) ==
  LET to == [c \in DOMAIN link \cup {Null} |-> IF c = Null THEN Null ELSE link[c]]
      w[n \in 0..MaxChunks * HASH_ALLOC + 1] == IF n = 0 THEN cell ELSE to[w[n - 1]]
  IN  w
Chain(cell) ==
  LET w == Walk(cell)
      len == Cardinality({n \in DOMAIN w \ {0} : w[n] # Null})
  IN  [n \in 1..len |-> w[n]]

(* What hash_for_each visits. *)
NodesIn(t) == UNION {ToSet(Chain(c)) : c \in Slots(t)}

(* The first node of the slot whose key compares equal. *)
Lookup(t, k) == SelectInSeq(Chain(Slot(t, k)), LAMBDA p : hkey[p] = k)

hash_find(t, k) ==
  IF Lookup(t, k) = 0 THEN Null ELSE data[Chain(Slot(t, k))[Lookup(t, k)]]
hash_count(t) == items[t]
hash_is_empty(t) == items[t] = 0

(* hash_node_free and, before it, the removal of p from its chain.         *)
hash_node_free(l, p) == [l EXCEPT ![p] = l[FreeList], ![FreeList] = p]

FreeNode_Late(l, c, p) == LET f == hash_node_free(l, p)       \* mutant
                          IN  [f EXCEPT ![c] = f[p]]
FreeNode(l, c, p) == hash_node_free([l EXCEPT ![c] = l[p]], p)

Forget(p) == hkey' = [hkey EXCEPT ![p] = Null] /\ data' = [data EXCEPT ![p] = Null]

(* hash_node_alloc: the free list and the chunks it comes from, with a new *)
(* one when it is empty and malloc succeeds.                               *)
NewChunk ==
  [c \in Cells |->
     IF c = FreeList THEN <<"node", chunks * HASH_ALLOC + 1>>
     ELSE IF c \in Allocated(chunks + 1) \ Allocated(chunks)
     THEN IF c[2] = (chunks + 1) * HASH_ALLOC THEN Null ELSE <<"node", c[2] + 1>>
     ELSE link[c]]
Refilled ==
  {<<link, chunks>>} \cup
  IF link[FreeList] = Null /\ chunks < MaxChunks THEN {<<NewChunk, chunks + 1>>} ELSE {}
-----------------------------------------------------------------------------
hash_create(t) ==
  /\ t \notin live /\ live' = live \cup {t}
  /\ ret' = Null /\ UNCHANGED <<nodes, loop, deleted>>

(* The mutex of the hash is free. *)
Calls(t) == t \in live /\ call[t] = "none" /\ UNCHANGED live

(* EEXIST *)
Exists_ByData(t, k, d) == hash_find(t, k) = d                  \* mutant
Exists(t, k, d) == Lookup(t, k) # 0

hash_insert(t, k, d) ==
  /\ Calls(t) /\ UNCHANGED loop
  /\ \/ /\ Exists(t, k, d)
        /\ ret' = Null /\ UNCHANGED <<nodes, deleted>>
     \/ /\ ~Exists(t, k, d)
        /\ \E r \in Refilled :
             LET l == r[1]
                 p == l[FreeList]
             IN  IF p = Null
                 THEN ret' = Null /\ UNCHANGED <<nodes, deleted>>
                 ELSE /\ link' = [l EXCEPT ![FreeList] = l[p],
                                           ![p] = l[Slot(t, k)], ![Slot(t, k)] = p]
                      /\ hkey' = [hkey EXCEPT ![p] = k]
                      /\ data' = [data EXCEPT ![p] = d]
                      /\ items' = [items EXCEPT ![t] = @ + 1]
                      /\ chunks' = r[2]
                      /\ ret' = d /\ deleted' = deleted \ {d}

hash_remove(t, k) ==
  /\ Calls(t) /\ UNCHANGED <<loop, deleted>>
  /\ ret' = hash_find(t, k)
  /\ LET cells == <<Slot(t, k)>> \o Chain(Slot(t, k))
         n == Lookup(t, k)
     IN  IF n = 0 THEN UNCHANGED nodes
         ELSE /\ link' = FreeNode(link, cells[n], cells[n + 1])
              /\ Forget(cells[n + 1])
              /\ items' = [items EXCEPT ![t] = @ - 1]
              /\ UNCHANGED chunks

Loop(t, f, K) ==
  /\ Calls(t) /\ call' = [call EXCEPT ![t] = f] /\ arg' = [arg EXCEPT ![t] = K]
  /\ i' = [i EXCEPT ![t] = 0] /\ pp' = [pp EXCEPT ![t] = <<t, 0>>]
  /\ ret' = Null /\ UNCHANGED <<nodes, deleted>>

(* hash_destroy frees every node and looks at no pointer twice; its p is   *)
(* kept in the slot, which nobody reads any more.                          *)
hash_delete_if(t, K) == Loop(t, "delete_if", K)
hash_destroy(t) == Loop(t, "destroy", Keys)

(* pp stays where it is when *pp is freed. *)
FreeNext(t) ==
  LET p == link[pp[t]]
  IN  /\ call[t] # "none" /\ p # Null /\ hkey[p] \in arg[t]
      /\ deleted' = deleted \cup {data[p]}
      /\ link' = FreeNode(link, pp[t], p)
      /\ Forget(p)
      /\ items' = IF call[t] = "destroy" THEN items ELSE [items EXCEPT ![t] = @ - 1]
      /\ UNCHANGED <<live, chunks, loop, ret>>

KeepNext(t) ==
  LET p == link[pp[t]]
  IN  /\ call[t] # "none" /\ p # Null /\ hkey[p] \notin arg[t]
      /\ pp' = [pp EXCEPT ![t] = p]
      /\ UNCHANGED <<live, nodes, call, arg, i, ret, deleted>>

NextSlot(t) ==
  /\ call[t] # "none" /\ link[pp[t]] = Null /\ i[t] < Size - 1
  /\ i' = [i EXCEPT ![t] = @ + 1] /\ pp' = [pp EXCEPT ![t] = <<t, i[t] + 1>>]
  /\ UNCHANGED <<live, nodes, call, arg, ret, deleted>>

Return(t) ==
  /\ call[t] # "none" /\ link[pp[t]] = Null /\ i[t] = Size - 1
  /\ IF call[t] = "destroy"
     THEN live' = live \ {t} /\ items' = [items EXCEPT ![t] = 0]
     ELSE UNCHANGED <<live, items>>
  /\ call' = [call EXCEPT ![t] = "none"] /\ arg' = [arg EXCEPT ![t] = {}]
  /\ i' = [i EXCEPT ![t] = 0] /\ pp' = [pp EXCEPT ![t] = FreeList]
  /\ UNCHANGED <<link, hkey, data, chunks, ret, deleted>>

LoopStep(t) == FreeNext(t) \/ KeepNext(t) \/ NextSlot(t) \/ Return(t)

(* hash_for_each changes nothing.  An item is inserted by the caller that  *)
(* has it, so it is in no hash. *)
WithCaller(d) == \A a \in Addresses : data[a] # d

Next ==
  \E t \in Tables :
    \/ hash_create(t) \/ hash_destroy(t) \/ LoopStep(t)
    \/ \E k \in Keys : \/ hash_remove(t, k)
                       \/ \E d \in Items : WithCaller(d) /\ hash_insert(t, k, d)
    \/ \E K \in SUBSET Keys : hash_delete_if(t, K)

Spec == Init /\ [][Next]_vars
-----------------------------------------------------------------------------
(* Every node ever allocated is on the free list or in one slot of one     *)
(* table, once: the slot its key belongs to; and the counts count them.    *)
NodesAccounted ==
  LET chains == {<<h, Chain(h)>> : h \in Heads}
  IN  /\ UNION {ToSet(c[2]) : c \in chains} = Allocated(chunks)
      /\ \A c \in chains : IsInjective(c[2])
      /\ \A c, d \in chains : c[1] # d[1] => ToSet(c[2]) \cap ToSet(d[2]) = {}
      /\ \A t \in live :
           /\ call[t] # "destroy" => hash_count(t) = Cardinality(NodesIn(t))
           /\ \A p \in NodesIn(t) : hash_find(t, hkey[p]) = data[p]
           /\ \A c \in chains : c[1] \in Slots(t) =>
                \A p \in ToSet(c[2]) : Slot(t, hkey[p]) = c[1]

(* The tables implement maps, from the keys of their nodes to the items.   *)
(* A loop takes effect when it is called: what it has yet to free is       *)
(* deleted already.                                                        *)
Doomed(t) == {data[p] : p \in {q \in NodesIn(t) : hkey[q] \in arg[t]}}
Contents(t) == {<<hkey[p], data[p]>> : p \in {q \in NodesIn(t) : hkey[q] \notin arg[t]}}
Abs == INSTANCE HashAbs WITH
  live <- {t \in live : call[t] # "destroy"},
  map <- [t \in Tables |-> Contents(t)],
  deleted <- deleted \cup UNION {Doomed(t) : t \in Tables}
Implemented == Abs!Spec

(* Every loop comes to its end. *)
LoopsEnd == \A t \in Tables : call[t] # "none" ~> call[t] = "none"
=============================================================================
