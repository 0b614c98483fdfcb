-------------------------------- MODULE List --------------------------------
(***************************************************************************)
(* libcommon/list.c: a singly linked list whose iterators survive          *)
(* insertions and removals anywhere.  A cell is the address of a next      *)
(* pointer: that of a node, or the head of the list.  An iterator keeps    *)
(* the cell it came through (prev) and the node it goes to (pos).          *)
(*                                                                         *)
(* A node is identified with the data it holds, which the callers in this  *)
(* repository put into one list once.  Every call holds the mutex of the   *)
(* list; the two that loop over it are sequences of steps here.            *)
(***************************************************************************)
EXTENDS Integers, Sequences, FiniteSets, SequencesExt

CONSTANTS
  Nodes, Iters,
  Watched,        \* the iterators whose traversals are recorded
  Key,            \* what f(x, key) and f(x, y) look at
  Null,
  HeadCell        \* the cell &l->head

Cells == Nodes \cup {HeadCell}

ASSUME NodesAssumption ==
  /\ IsFiniteSet(Nodes) /\ IsFiniteSet(Iters) /\ Watched \subseteq Iters
  /\ Null \notin Cells /\ HeadCell \notin Nodes
  /\ Key \in [Nodes -> Int]

VARIABLES
  next,           \* the pointer in each cell
  tail,           \* l->tail, the cell a node is appended to
  count,
  iters,          \* the iterators on l->iNext
  pos, prev,      \* of each iterator
  pc,             \* idle, or in the loop of sort or delete
  pp, ppPrev,     \* the locals of that loop
  key,            \* what list_delete_all deletes
  ret,            \* what the last call returned
  before,         \* history: the list when the loop was entered
  last,           \* history: the last item a watched iterator returned,
  seen,           \* history: those it returned since it started,
  owed            \* history: and those in the list all that time

cursors == <<iters, pos, prev>>
loop == <<pc, pp, ppPrev, key, before>>
history == <<last, seen, owed>>
vars == <<next, tail, count, cursors, loop, ret, history>>

(* The nodes in order, following the pointers from the head. *)
Walk == LET w[n \in 0..Cardinality(Nodes) + 1] ==
              IF n = 0 THEN next[HeadCell]
              ELSE LET p == w[n - 1] IN IF p = Null THEN Null ELSE next[p]
        IN  w
Chain == LET w == Walk
             len == Cardinality({n \in DOMAIN w : w[n] # Null})
         IN  [n \in 1..len |-> w[n - 1]]
InList == ToSet(Chain)
At(i) == IF i \notin iters THEN 0
         ELSE IF pos[i] = Null THEN Len(Chain) + 1
         ELSE CHOOSE n \in DOMAIN Chain : Chain[n] = pos[i]
Has(i) == i \in iters /\ next[prev[i]] # pos[i]

Init ==
  /\ next = [c \in Cells |-> Null] /\ tail = HeadCell /\ count = 0
  /\ iters = {} /\ pos = [i \in Iters |-> Null] /\ prev = [i \in Iters |-> HeadCell]
  /\ pc = "idle" /\ pp = HeadCell /\ ppPrev = HeadCell /\ key = 0 /\ ret = Null
  /\ before = [items |-> <<>>, at |-> [i \in Iters |-> 0],
               has |-> [i \in Iters |-> FALSE]]
  /\ last = [i \in Watched |-> Null]
  /\ seen = [i \in Watched |-> {}] /\ owed = [i \in Watched |-> {}]

Forget(x) ==
  /\ last' = [i \in Watched |-> IF last[i] = x THEN Null ELSE last[i]]
  /\ seen' = [i \in Watched |-> seen[i] \ {x}]
  /\ owed' = [i \in Watched |-> owed[i] \ {x}]

(***************************************************************************)
(* list_node_create: x becomes the node cell pp points to.                 *)
(***************************************************************************)
PosAfterCreate_Kept(i, cell, x) == pos[i]                      \* mutant
PosAfterCreate(i, cell, x) ==
  IF prev[i] # cell /\ pos[i] = next[cell] THEN x ELSE pos[i]

list_node_create(cell, x) ==
  /\ x \notin InList
  /\ next' = [next EXCEPT ![x] = next[cell], ![cell] = x]
  /\ tail' = IF next[cell] = Null THEN x ELSE tail
  /\ count' = count + 1
  /\ prev' = [i \in Iters |-> IF i \in iters /\ prev[i] = cell THEN x ELSE prev[i]]
  /\ pos' = [i \in Iters |-> IF i \in iters THEN PosAfterCreate(i, cell, x)
                             ELSE pos[i]]
  /\ ret' = x
  /\ UNCHANGED <<iters, loop, history>>

(***************************************************************************)
(* list_node_destroy: the node cell points to leaves the list.             *)
(***************************************************************************)
TailAfterDestroy_Kept(cell) == tail                            \* mutant
TailAfterDestroy(cell) == IF next[next[cell]] = Null THEN cell ELSE tail

PosAfterDestroy_Either(i, x) ==                                \* mutant
  IF pos[i] = x \/ prev[i] = x THEN next[x] ELSE pos[i]
PosAfterDestroy(i, x) == IF pos[i] = x THEN next[x] ELSE pos[i]

PrevAfterDestroy(i, cell, x) ==
  IF pos[i] = x \/ prev[i] = x THEN cell ELSE prev[i]

Unlink(cell) ==
  LET x == next[cell]
  IN  /\ next' = [next EXCEPT ![cell] = next[x]]
      /\ tail' = TailAfterDestroy(cell)
      /\ count' = count - 1
      /\ pos' = [i \in Iters |-> IF i \in iters THEN PosAfterDestroy(i, x)
                                 ELSE pos[i]]
      /\ prev' = [i \in Iters |-> IF i \in iters THEN PrevAfterDestroy(i, cell, x)
                                  ELSE prev[i]]
      /\ Forget(x)

list_node_destroy(cell) ==
  IF next[cell] = Null
  THEN /\ ret' = Null
       /\ UNCHANGED <<next, tail, count, cursors, loop, history>>
  ELSE /\ Unlink(cell) /\ ret' = next[cell]
       /\ UNCHANGED <<iters, loop>>

(* list_enqueue and list_push are the first two, list_dequeue the third.   *)
list_append(x) == pc = "idle" /\ list_node_create(tail, x)
list_prepend(x) == pc = "idle" /\ list_node_create(HeadCell, x)
list_pop == pc = "idle" /\ list_node_destroy(HeadCell)

(* list_destroy frees the iterators and the nodes; list_create follows.    *)
list_destroy ==
  /\ pc = "idle"
  /\ next' = [c \in Cells |-> Null] /\ tail' = HeadCell /\ count' = 0
  /\ iters' = {} /\ pos' = [i \in Iters |-> Null]
  /\ prev' = [i \in Iters |-> HeadCell] /\ ret' = Null
  /\ last' = [i \in Watched |-> Null]
  /\ seen' = [i \in Watched |-> {}] /\ owed' = [i \in Watched |-> {}]
  /\ UNCHANGED loop
-----------------------------------------------------------------------------
StartOver(I) ==
  /\ pos' = [i \in Iters |-> IF i \in I THEN next'[HeadCell] ELSE pos[i]]
  /\ prev' = [i \in Iters |-> IF i \in I THEN HeadCell ELSE prev[i]]
  /\ last' = [i \in Watched |-> IF i \in I THEN Null ELSE last[i]]
  /\ seen' = [i \in Watched |-> IF i \in I THEN {} ELSE seen[i]]
  /\ owed' = [i \in Watched |-> IF i \in I THEN InList ELSE owed[i]]

list_iterator_create(i) ==
  /\ pc = "idle" /\ i \notin iters
  /\ iters' = iters \cup {i} /\ ret' = Null
  /\ UNCHANGED <<next, tail, count, loop>>
  /\ StartOver({i})

list_iterator_reset(i) ==
  /\ pc = "idle" /\ i \in iters
  /\ ret' = Null
  /\ UNCHANGED <<next, tail, count, iters, loop>>
  /\ StartOver({i})

list_iterator_destroy(i) ==
  /\ pc = "idle" /\ i \in iters
  /\ iters' = iters \ {i} /\ ret' = Null
  /\ pos' = [pos EXCEPT ![i] = Null] /\ prev' = [prev EXCEPT ![i] = HeadCell]
  /\ last' = [j \in Watched |-> IF j = i THEN Null ELSE last[j]]
  /\ seen' = [j \in Watched |-> IF j = i THEN {} ELSE seen[j]]
  /\ owed' = [j \in Watched |-> IF j = i THEN {} ELSE owed[j]]
  /\ UNCHANGED <<next, tail, count, loop>>

(* What n calls of list_next do to an iterator, and the last one returns.  *)
Steps(i) ==
  LET c[n \in 0..Len(Chain) + 1] ==
        IF n = 0 THEN [pos |-> pos[i], prev |-> prev[i], ret |-> Null]
        ELSE LET b == c[n - 1]
             IN  [pos |-> IF b.pos # Null THEN next[b.pos] ELSE Null,
                  prev |-> IF next[b.prev] # b.pos THEN next[b.prev] ELSE b.prev,
                  ret |-> b.pos]
  IN  c

Advance(i, n) ==
  LET c == Steps(i)
  IN  /\ pos' = [pos EXCEPT ![i] = c[n].pos]
      /\ prev' = [prev EXCEPT ![i] = c[n].prev]
      /\ ret' = c[n].ret
      /\ last' = [j \in Watched |-> IF j = i THEN c[n].ret ELSE last[j]]
      /\ seen' = [j \in Watched |->
           seen[j] \cup (IF j = i THEN {c[m].ret : m \in 1..n} \ {Null} ELSE {})]
      /\ UNCHANGED <<next, tail, count, iters, loop, owed>>

list_next(i) == pc = "idle" /\ i \in iters /\ Advance(i, 1)

(* list_find: list_next up to a match or the end.                          *)
list_find(i, k) ==
  /\ pc = "idle" /\ i \in iters
  /\ LET ends(n) == Steps(i)[n].ret # Null => Key[Steps(i)[n].ret] = k
     IN  \E n \in 1..Len(Chain) + 1 :
           /\ ends(n) /\ \A m \in 1..n - 1 : ~ends(m)
           /\ Advance(i, n)

list_insert(i, x) ==
  /\ pc = "idle" /\ i \in iters
  /\ list_node_create(prev[i], x)

(* list_delete also gives the item to fDel.                                *)
list_remove(i) ==
  /\ pc = "idle" /\ i \in iters
  /\ IF next[prev[i]] # pos[i] THEN list_node_destroy(prev[i])
     ELSE ret' = Null /\ UNCHANGED <<next, tail, count, cursors, loop, history>>
-----------------------------------------------------------------------------
Enter(where, k) ==
  /\ pc = "idle" /\ pc' = where /\ key' = k
  /\ before' = [items |-> Chain, at |-> [i \in Iters |-> At(i)],
                has |-> [i \in Iters |-> Has(i)]]

Leave ==
  /\ pc' = "idle" /\ pp' = HeadCell /\ ppPrev' = HeadCell /\ key' = 0 /\ ret' = Null
  /\ before' = [items |-> <<>>, at |-> [i \in Iters |-> 0],
                has |-> [i \in Iters |-> FALSE]]

(* list_delete_all: matches are unlinked where they stand.                 *)
list_delete_all(k) ==
  /\ Enter("delete", k)
  /\ pp' = HeadCell
  /\ UNCHANGED <<next, tail, count, cursors, ppPrev, ret, history>>

DeleteStep ==
  /\ pc = "delete" /\ next[pp] # Null
  /\ IF Key[next[pp]] = key
     THEN Unlink(pp) /\ UNCHANGED <<iters, loop, ret>>
     ELSE /\ pp' = next[pp]
          /\ UNCHANGED <<next, tail, count, cursors, pc, ppPrev, key, before,
                         ret, history>>

DeleteDone ==
  /\ pc = "delete" /\ next[pp] = Null
  /\ Leave
  /\ UNCHANGED <<next, tail, count, cursors, history>>

(* list_sort: an insertion sort on the pointers.                           *)
list_sort ==
  /\ count > 1
  /\ Enter("sort", 0)
  /\ ppPrev' = HeadCell /\ pp' = next[HeadCell]
  /\ UNCHANGED <<next, tail, count, cursors, ret, history>>

list_sort_short ==
  /\ pc = "idle" /\ count <= 1
  /\ ret' = Null
  /\ UNCHANGED <<next, tail, count, cursors, loop, history>>

(* ppPos: the first cell whose node is greater than the one to be moved.   *)
StopsAt(x, y) == Key[x] < Key[y]

ppPos == LET x == next[pp]
             cells == <<HeadCell>> \o Chain
             n == CHOOSE n \in DOMAIN Chain :
                    /\ StopsAt(x, Chain[n])
                    /\ \A m \in 1..n - 1 : ~StopsAt(x, Chain[m])
         IN  cells[n]

pTmp_Late == next[ppPos]                                       \* mutant
pTmp == next[next[pp]]

PrevAfterMove_Kept == ppPrev                                   \* mutant
PrevAfterMove == IF ppPrev = ppPos THEN next[pp] ELSE ppPrev

SortStep ==
  /\ pc = "sort" /\ next[pp] # Null
  /\ IF Key[next[pp]] < Key[next[ppPrev]]
     THEN /\ next' = [next EXCEPT ![next[pp]] = next[ppPos],
                                  ![ppPos] = next[pp],
                                  ![pp] = pTmp]
          /\ ppPrev' = PrevAfterMove
          /\ UNCHANGED pp
     ELSE /\ ppPrev' = pp /\ pp' = next[pp]
          /\ UNCHANGED next
  /\ UNCHANGED <<tail, count, cursors, pc, key, before, ret, history>>

SortDone ==
  /\ pc = "sort" /\ next[pp] = Null
  /\ tail' = pp
  /\ Leave
  /\ UNCHANGED <<next, count, iters>>
  /\ StartOver(iters)

LoopStep == DeleteStep \/ DeleteDone \/ SortStep \/ SortDone

Next ==
  \/ \E x \in Nodes : list_append(x) \/ list_prepend(x)
  \/ list_pop \/ list_destroy
  \/ \E i \in Iters : \/ list_iterator_create(i) \/ list_iterator_reset(i)
                      \/ list_iterator_destroy(i)
                      \/ list_next(i) \/ list_remove(i)
                      \/ \E x \in Nodes : list_insert(i, x)
  \/ \E k \in {Key[x] : x \in Nodes} : list_delete_all(k)
                                    \/ \E i \in Iters : list_find(i, k)
  \/ LoopStep
  \/ list_sort \/ list_sort_short

Spec == Init /\ [][Next]_vars
FairSpec == Spec /\ WF_vars(LoopStep)
-----------------------------------------------------------------------------
TypeOK ==
  /\ next \in [Cells -> Nodes \cup {Null}] /\ tail \in Cells /\ count \in Nat
  /\ iters \subseteq Iters
  /\ pos \in [Iters -> Nodes \cup {Null}] /\ prev \in [Iters -> Cells]
  /\ pc \in {"idle", "sort", "delete"} /\ pp \in Cells /\ ppPrev \in Cells
  /\ ret \in Nodes \cup {Null}

(* The assertion at the end of list_node_create and list_node_destroy, for *)
(* every iterator; and no iterator points at a node that was freed.        *)
IteratorsValid ==
  pc # "sort" => \A i \in iters :
    /\ prev[i] \in InList \cup {HeadCell}
    /\ pos[i] \in InList \cup {Null}
    /\ \/ pos[i] = next[prev[i]]
       \/ next[prev[i]] # Null /\ pos[i] = next[next[prev[i]]]

(* The tail is the last cell and the count the number of nodes, and every  *)
(* iterator is valid, whatever was inserted, removed, popped or sorted.    *)
WellFormed ==
  pc # "sort" => /\ next[tail] = Null /\ tail \in InList \cup {HeadCell}
                 /\ count = Len(Chain) /\ IsInjective(Chain)
                 /\ IteratorsValid

(* A traversal returns no item twice, and, when it comes to the end, has   *)
(* returned every item that was in the list all the time.                  *)
Traverses ==
  [][\A i \in Watched :
       list_next(i) \/ (\E k \in {Key[x] : x \in Nodes} : list_find(i, k)) =>
       /\ ret' \notin seen[i]
       /\ ret' = Null => owed[i] \subseteq seen'[i]]_vars

(* list_remove never removes an item other than the last one returned via  *)
(* the iterator, whatever was inserted and removed since: it removes that  *)
(* one or nothing.                                                         *)
RemovesNoOther ==
  [][\A i \in Watched : list_remove(i) => ret' \in {last[i], Null}]_vars

(* The loops of list_delete_all and list_sort end: neither can go round a  *)
(* cycle made while it moves nodes.                                        *)
LoopsEnd == pc # "idle" ~> pc = "idle"

(* The pointers implement the sequence with cursors: list_sort is stable,  *)
(* list_delete_all takes all matches, no iterator is led astray by either. *)
AbsItems == IF pc = "idle" THEN Chain ELSE before.items
AbsAt == IF pc = "idle" THEN [i \in Iters |-> At(i)] ELSE before.at
AbsHas == IF pc = "idle" THEN [i \in Iters |-> Has(i)] ELSE before.has
Abs == INSTANCE ListAbs WITH
  Items <- Nodes, items <- AbsItems, at <- AbsAt, has <- AbsHas
ListImplemented == Abs!Spec
=============================================================================
