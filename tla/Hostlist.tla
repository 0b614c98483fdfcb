------------------------------ MODULE Hostlist ------------------------------
(***************************************************************************)
(* libcommon/hostlist.c: a list of host names kept as an array of ranges,  *)
(* with iterators.  pushes join ranges, deletions split them, sort and     *)
(* uniq reorder, split and join them in loops, each iteration of which is  *)
(* a step here.                                                            *)
(*                                                                         *)
(* A prefix is its rank in the order of strcmp.  A name is a prefix and a  *)
(* suffix, <<>> or <<number, zeros in front of it>>.                       *)
(*                                                                         *)
(* The width of a range is 0 when nothing of it is padded.  The code keeps *)
(* any width up to the digits of lo there, and changes one such width for  *)
(* another when it compares ranges (the *wm = *wn of _width_equiv), which  *)
(* changes neither a name nor the outcome of a comparison.                 *)
(*                                                                         *)
(* Clients change no list they iterate over, except by hostlist_shift and, *)
(* through the only iterator, by hostlist_remove.                          *)
(***************************************************************************)
EXTENDS Integers, Sequences, FiniteSets, SequencesExt, TLC

CONSTANTS
  Hosts,            \* names the client pushes, searches and deletes
  Strings,          \* strings it pushes, as sequences of tokens
  Iters,            \* its iterators
  Base,             \* of printed numbers: 10
  MaxRange,         \* MAX_RANGE, hosts between brackets
  MaxHosts,         \* bound on the length of the list
  Null

ASSUME BaseAssumption == Base \in Nat /\ Base > 1

VARIABLES
  hl,               \* hr: the ranges; nhosts: the counter
  iters,            \* idx, depth of each iterator; NoIter
  returned,         \* the iterators whose last call returned a host
  pc, loc,          \* the loop in progress and its index
  before,           \* hl and iters when it was entered
  ret               \* what the last call returned

loop == <<pc, loc, before>>
vars == <<hl, iters, returned, loop, ret>>

Digits[n \in Nat] == IF n < Base THEN 1 ELSE 1 + Digits[n \div Base]

ZeroPadded(num, width) ==
  IF width > Digits[num] THEN width - Digits[num] ELSE 0

WidthEquiv(n, wn, m, wm) ==
  \/ ZeroPadded(n, wn) = ZeroPadded(n, wm)
  \/ ZeroPadded(m, wm) = ZeroPadded(m, wn)
-----------------------------------------------------------------------------
(* Ranges.                                                                 *)

Single(prefix) == [prefix |-> prefix, lo |-> 0, hi |-> 0, width |-> 0, single |-> TRUE]

NewRange(prefix, lo, hi, width) ==
  [prefix |-> prefix, lo |-> lo, hi |-> hi, single |-> FALSE,
   width |-> IF ZeroPadded(lo, width) = 0 THEN 0 ELSE width]

(* The same range with other ends.                                         *)
Between(r, lo, hi) == NewRange(r.prefix, lo, hi, r.width)

Size(r) == IF r.single THEN 1 ELSE r.hi - r.lo + 1
Empty(r) == r.hi < r.lo

NameAt(r, depth) ==
  [prefix |-> r.prefix,
   suffix |-> IF r.single THEN <<>>
              ELSE <<r.lo + depth, ZeroPadded(r.lo + depth, r.width)>>]

NamesIn(r) == [k \in 1..Size(r) |-> NameAt(r, k - 1)]
Expand(ranges) == FlattenSeq([n \in DOMAIN ranges |-> NamesIn(ranges[n])])

SuffixWidth(name) == Digits[name.suffix[1]] + name.suffix[2]

RangeOf(name) ==
  IF name.suffix = <<>> THEN Single(name.prefix)
  ELSE NewRange(name.prefix, name.suffix[1], name.suffix[1], SuffixWidth(name))

SamePrefix(h1, h2) == h1.prefix = h2.prefix /\ h1.single = h2.single
WidthCombine(h1, h2) == WidthEquiv(h1.lo, h1.width, h2.lo, h2.width)

(* hostrange_cmp(h1, h2) <= 0                                              *)
Leq(h1, h2) ==
  \/ h1.prefix < h2.prefix
  \/ h1.prefix = h2.prefix /\ h1.single /\ ~h2.single
  \/ /\ SamePrefix(h1, h2)
     /\ IF WidthCombine(h1, h2) THEN h1.lo <= h2.lo ELSE h1.width <= h2.width

(* h2 goes on where h1 ends.                                               *)
Continues(h1, h2) ==
  SamePrefix(h1, h2) /\ h1.hi = h2.lo - 1 /\ WidthCombine(h1, h2)

(* hostrange_hn_within: the place of name in r, -1 if it is not there.     *)
Within_AnyWidth(r, name) ==                                    \* mutant
  IF r.single
  THEN IF name.suffix = <<>> /\ name.prefix = r.prefix THEN 0 ELSE -1
  ELSE IF /\ name.suffix # <<>> /\ name.prefix = r.prefix
          /\ name.suffix[1] \in r.lo..r.hi
       THEN name.suffix[1] - r.lo ELSE -1
Within(r, name) ==
  IF r.single
  THEN IF name.suffix = <<>> /\ name.prefix = r.prefix THEN 0 ELSE -1
  ELSE IF /\ name.suffix # <<>> /\ name.prefix = r.prefix
          /\ name.suffix[1] \in r.lo..r.hi
          /\ WidthEquiv(r.lo, r.width, name.suffix[1], SuffixWidth(name))
       THEN name.suffix[1] - r.lo ELSE -1

-----------------------------------------------------------------------------
(* Lists.                                                                  *)

EmptyList == [hr |-> <<>>, nhosts |-> 0]

PushRange(l, r) ==
  LET n == Len(l.hr)
  IN  [hr |-> IF n > 0 /\ Continues(l.hr[n], r)
              THEN [l.hr EXCEPT ![n].hi = r.hi] ELSE Append(l.hr, r),
       nhosts |-> l.nhosts + Size(r)]

(* A token is a name, or a prefix with ranges between brackets; unbalanced *)
(* brackets are a token without ranges.                                    *)
ValidRange(x) == x.lo <= x.hi /\ x.hi - x.lo + 1 <= MaxRange
ValidToken(t) == "list" \in DOMAIN t =>
  t.list # <<>> /\ \A n \in DOMAIN t.list : ValidRange(t.list[n])

TokenRanges(t) ==
  IF "list" \notin DOMAIN t THEN <<RangeOf(t)>>
  ELSE [n \in DOMAIN t.list |->
          NewRange(t.prefix, t.list[n].lo, t.list[n].hi, t.list[n].width)]

hostlist_create(str) ==
  IF \E n \in DOMAIN str : ~ValidToken(str[n]) THEN Null
  ELSE FoldLeft(PushRange, EmptyList,
                FlattenSeq([n \in DOMAIN str |-> TokenRanges(str[n])]))

(* hostlist_find, counting from 0; hostlist_nth.                           *)
SizeBefore(l, n) == FoldLeft(LAMBDA k, r : k + Size(r), 0, SubSeq(l.hr, 1, n - 1))

hostlist_find(l, name) ==
  LET n == SelectInSeq(l.hr, LAMBDA r : Within(r, name) >= 0)
  IN  IF n = 0 THEN -1 ELSE SizeBefore(l, n) + Within(l.hr[n], name)

RangeAt(l, k) ==
  CHOOSE n \in DOMAIN l.hr : k - SizeBefore(l, n) \in 0..Size(l.hr[n]) - 1

hostlist_nth(l, k) ==
  IF k >= SizeBefore(l, Len(l.hr) + 1) THEN Null
  ELSE NameAt(l.hr[RangeAt(l, k)], k - SizeBefore(l, RangeAt(l, k)))

(* hostrange_delete_host: what remains of a range without host num.        *)
Without(r, num) ==
  IF r.single \/ r.lo = r.hi THEN <<>>
  ELSE IF num = r.lo THEN <<Between(r, r.lo + 1, r.hi)>>
  ELSE IF num = r.hi THEN <<Between(r, r.lo, r.hi - 1)>>
  ELSE <<Between(r, r.lo, num - 1), Between(r, num + 1, r.hi)>>

Splice(ranges, n, new) ==
  SubSeq(ranges, 1, n - 1) \o new \o SubSeq(ranges, n + 1, Len(ranges))

DeleteNth(l, k) ==
  LET n == RangeAt(l, k)
      r == l.hr[n]
  IN  [hr |-> Splice(l.hr, n, Without(r, r.lo + k - SizeBefore(l, n))),
       nhosts |-> l.nhosts - 1]

(* hostlist_ranged_string: one token per group of ranges of a prefix, with *)
(* brackets if it is more than one host.                                   *)
InGroup(h1, h2) == SamePrefix(h1, h2) /\ ~h1.single

GroupStarts(l) ==
  {n \in DOMAIN l.hr : n = 1 \/ ~InGroup(l.hr[n - 1], l.hr[n])}

GroupEnd(l, n) ==
  CHOOSE m \in n..Len(l.hr) :
    /\ m = Len(l.hr) \/ ~InGroup(l.hr[m], l.hr[m + 1])
    /\ \A k \in n..m - 1 : InGroup(l.hr[k], l.hr[k + 1])

BracketedList_First(l, n) ==                                   \* mutant
  LET r == l.hr[n]
  IN  IF Size(r) = 1 THEN NameAt(r, 0)
      ELSE [prefix |-> r.prefix,
            list |-> [k \in 1..GroupEnd(l, n) - n + 1 |->
              [lo |-> l.hr[n + k - 1].lo, hi |-> l.hr[n + k - 1].hi,
               width |-> SuffixWidth(NameAt(l.hr[n + k - 1], 0))]]]
BracketedList(l, n) ==
  LET r == l.hr[n]
      printed(k) == [lo |-> l.hr[k].lo, hi |-> l.hr[k].hi,
                     width |-> SuffixWidth(NameAt(l.hr[k], 0))]
  IN  IF Size(r) = 1 /\ GroupEnd(l, n) = n THEN NameAt(r, 0)
      ELSE [prefix |-> r.prefix,
            list |-> [k \in 1..GroupEnd(l, n) - n + 1 |-> printed(n + k - 1)]]

hostlist_ranged_string(l) ==
  LET starts == SetToSortSeq(GroupStarts(l), <)
  IN  [n \in DOMAIN starts |-> BracketedList(l, starts[n])]
-----------------------------------------------------------------------------
(* Iterators.  idx counts from 0 as in the code; the pointer it caches, hr, *)
(* is that of range idx whenever it is used.                               *)

NoIter == [idx |-> -1, depth |-> -1]
AtStart == [idx |-> 0, depth |-> -1]
Live == {i \in Iters : iters[i] # NoIter}
StartOver == iters' = [i \in Iters |-> IF i \in Live THEN AtStart ELSE NoIter]

(* hostlist_delete_range and hostlist_shift_iterators: range n is gone.    *)
AfterDelete_After(it, n) ==                                    \* mutant
  IF it.idx > n THEN [it EXCEPT !.idx = @ - 1] ELSE it
AfterDelete(it, n) ==
  IF it = NoIter \/ it.idx < n THEN it
  ELSE IF it.idx = 0 THEN AtStart ELSE [it EXCEPT !.idx = @ - 1]

(* _iterator_advance                                                       *)
Advanced(it) ==
  IF it.idx >= Len(hl.hr) THEN it
  ELSE IF it.depth + 1 >= Size(hl.hr[it.idx + 1])
       THEN [idx |-> it.idx + 1, depth |-> 0]
       ELSE [it EXCEPT !.depth = @ + 1]

Count(n) == [count |-> n]
Host(r, depth) == [host |-> NameAt(r, depth)]

Idle == pc = "idle" /\ UNCHANGED loop
Quiet == Idle /\ Live = {} /\ UNCHANGED <<iters, returned>>

Init ==
  /\ hl = EmptyList
  /\ iters = [i \in Iters |-> NoIter] /\ returned = {}
  /\ pc = "idle" /\ loc = 0 /\ before = [hl |-> EmptyList, iters |-> iters]
  /\ ret = Null

hostlist_push(str) ==
  LET new == hostlist_create(str)
  IN  /\ Quiet
      /\ new # Null => hl.nhosts + new.nhosts <= MaxHosts
      /\ hl' = IF new = Null THEN hl ELSE FoldLeft(PushRange, hl, new.hr)
      /\ ret' = Count(IF new = Null THEN 0 ELSE new.nhosts)

hostlist_push_host(name) ==
  /\ Quiet /\ hl.nhosts < MaxHosts
  /\ hl' = PushRange(hl, RangeOf(name))
  /\ ret' = Count(1)

hostlist_pop ==
  /\ Quiet
  /\ IF hl.nhosts > 0
     THEN LET n == Len(hl.hr)
              r == hl.hr[n]
          IN  /\ ret' = Host(r, Size(r) - 1)
              /\ hl' = [hr |-> Splice(hl.hr, n, Without(r, r.hi)),
                        nhosts |-> hl.nhosts - 1]
     ELSE ret' = Null /\ UNCHANGED hl

(* The only change that keeps the place of every iterator.                 *)
ShiftDepth(it) ==
  IF it.idx = 0 /\ it.depth >= 0 THEN [it EXCEPT !.depth = @ - 1] ELSE it

hostlist_shift ==
  /\ Idle
  /\ IF hl.nhosts > 0
     THEN LET r == hl.hr[1]
              rest == Without(r, r.lo)
          IN  /\ ret' = Host(r, 0)
              /\ hl' = [hr |-> Splice(hl.hr, 1, rest), nhosts |-> hl.nhosts - 1]
              /\ iters' = [i \in Iters |-> IF rest = <<>> THEN AfterDelete(iters[i], 0)
                                           ELSE ShiftDepth(iters[i])]
     ELSE ret' = Null /\ UNCHANGED <<hl, iters>>
  /\ returned' = {}

hostlist_delete_host(name) ==
  /\ Quiet
  /\ LET k == hostlist_find(hl, name)
     IN  /\ ret' = Count(IF k >= 0 THEN 1 ELSE 0)
         /\ hl' = IF k >= 0 THEN DeleteNth(hl, k) ELSE hl

(* The hosts of str, the last first.                                       *)
DeleteOne(name, l) ==
  IF hostlist_find(l, name) >= 0 THEN DeleteNth(l, hostlist_find(l, name)) ELSE l

hostlist_delete(str) ==
  LET hltmp == hostlist_create(str)
  IN  /\ Quiet
      /\ hl' = IF hltmp = Null THEN hl
               ELSE FoldRight(DeleteOne, Expand(hltmp.hr), hl)
      /\ ret' = Count(hl.nhosts - hl'.nhosts)

(***************************************************************************)
(* sort and uniq: qsort, in any order of what compares equal, then loops.  *)
(***************************************************************************)
Permuted(s) == {[n \in DOMAIN s |-> s[p[n]]] : p \in Permutations(DOMAIN s)}
Sorted(s) == {q \in Permuted(s) : IsSorted(q, Leq)}

Enter(name) ==
  /\ pc = "idle" /\ Len(hl.hr) > 1
  /\ \E q \in Sorted(hl.hr) : hl' = [hl EXCEPT !.hr = q]
  /\ pc' = name /\ before' = [hl |-> hl, iters |-> iters]
  /\ returned' = {}

Leave ==
  /\ pc' = "idle" /\ loc' = 0
  /\ before' = [hl |-> EmptyList, iters |-> [i \in Iters |-> NoIter]]
  /\ ret' = Null

(* The loops delete and insert behind range 0 only, where every iterator   *)
(* stands after the reset.                                                 *)
hostlist_sort ==
  /\ Enter("coalesce")
  /\ loc' = Len(hl.hr)
  /\ StartOver
  /\ UNCHANGED ret

(* hostrange_intersect(hr[loc - 1], hr[loc]) is not empty                  *)
Intersect_Touching(h1, h2) ==                                  \* mutant
  SamePrefix(h1, h2) /\ ~h1.single /\ h1.hi >= h2.lo /\ WidthCombine(h1, h2)
Intersect(h1, h2) ==
  SamePrefix(h1, h2) /\ ~h1.single /\ h1.hi > h2.lo /\ WidthCombine(h1, h2)

(* Two ranges that overlap become one up to the first host they share, one *)
(* from the last on, and the shared hosts in between, twice.               *)
Least(a, b) == IF a < b THEN a ELSE b
Most(a, b) == IF a > b THEN a ELSE b

Shared_Once(h1, lo, hi, x) ==                                  \* mutant
  IF x = hi THEN <<>> ELSE <<Between(h1, x, x)>>
Shared(h1, lo, hi, x) ==
  LET one == <<Between(h1, x, x)>>
  IN  (IF x > lo THEN one ELSE <<>>) \o (IF x < hi THEN one ELSE <<>>)

Coalesced_KeepsLo(h1, h2) ==                                   \* mutant
  LET lo == h2.lo
      hi == Least(h1.hi, h2.hi)
  IN  <<Between(h1, h1.lo, lo)>>
      \o FlattenSeq([k \in 1..hi - lo + 1 |-> Shared(h1, lo, hi, lo + k - 1)])
      \o <<Between(h2, h2.lo, Most(h1.hi, h2.hi))>>
Coalesced(h1, h2) ==
  LET lo == h2.lo
      hi == Least(h1.hi, h2.hi)
  IN  <<Between(h1, h1.lo, lo)>>
      \o FlattenSeq([k \in 1..hi - lo + 1 |-> Shared(h1, lo, hi, lo + k - 1)])
      \o <<Between(h2, hi, Most(h1.hi, h2.hi))>>

CoalesceStep ==
  /\ pc = "coalesce" /\ loc > 1
  /\ LET h1 == hl.hr[loc - 1]
         h2 == hl.hr[loc]
         new == SubSeq(hl.hr, 1, loc - 2) \o Coalesced(h1, h2)
                \o SubSeq(hl.hr, loc + 1, Len(hl.hr))
     IN  IF Intersect(h1, h2)
         THEN hl' = [hl EXCEPT !.hr = new] /\ loc' = Len(new)
         ELSE loc' = loc - 1 /\ UNCHANGED hl
  /\ UNCHANGED <<iters, returned, pc, before, ret>>

CoalesceDone ==
  /\ pc = "coalesce" /\ loc <= 1
  /\ pc' = "collapse" /\ loc' = Len(hl.hr)
  /\ UNCHANGED <<hl, iters, returned, before, ret>>

(* Ranges n - 1 and n become one that ends where hi is.                    *)
Joined(n, hi) ==
  SubSeq(hl.hr, 1, n - 2) \o <<[hl.hr[n - 1] EXCEPT !.hi = hi]>>
  \o SubSeq(hl.hr, n + 1, Len(hl.hr))

CollapseStep ==
  /\ pc = "collapse" /\ loc > 1
  /\ hl' = IF Continues(hl.hr[loc - 1], hl.hr[loc])
           THEN [hl EXCEPT !.hr = Joined(loc, hl.hr[loc].hi)] ELSE hl
  /\ loc' = loc - 1
  /\ UNCHANGED <<iters, returned, pc, before, ret>>

CollapseDone ==
  /\ pc = "collapse" /\ loc <= 1
  /\ Leave
  /\ UNCHANGED <<hl, iters, returned>>

hostlist_uniq ==
  /\ Enter("uniq")
  /\ loc' = 2
  /\ UNCHANGED <<iters, ret>>

(* hostrange_join: the hosts two ranges share, -1 if they do not touch.    *)
Duplicates(h1, h2) ==
  IF ~SamePrefix(h1, h2) \/ ~WidthCombine(h1, h2) THEN -1
  ELSE IF h1.single THEN 1
  ELSE IF h1.hi = h2.lo - 1 THEN 0
  ELSE IF h1.hi < h2.lo THEN -1
  ELSE IF h1.hi < h2.hi THEN h1.hi - h2.lo + 1
  ELSE Size(h2)

JoinedEnd(h1, h2) == Most(h1.hi, h2.hi)

UniqStep ==
  /\ pc = "uniq" /\ loc <= Len(hl.hr)
  /\ LET h1 == hl.hr[loc - 1]
         h2 == hl.hr[loc]
     IN  IF Duplicates(h1, h2) >= 0
         THEN /\ hl' = [hr |-> Joined(loc, JoinedEnd(h1, h2)),
                        nhosts |-> hl.nhosts - Duplicates(h1, h2)]
              /\ UNCHANGED loc
         ELSE loc' = loc + 1 /\ UNCHANGED hl
  /\ UNCHANGED <<iters, returned, pc, before, ret>>

UniqDone ==
  /\ pc = "uniq" /\ loc > Len(hl.hr)
  /\ StartOver
  /\ Leave
  /\ UNCHANGED <<hl, returned>>

(* Of one range or none there is nothing to sort.                          *)
hostlist_sort_short ==
  /\ Idle /\ Len(hl.hr) <= 1
  /\ UNCHANGED <<hl, iters, returned, ret>>
-----------------------------------------------------------------------------
(* The iterators of clients.                                               *)

Touch(i, it) ==
  iters' = [iters EXCEPT ![i] = it] /\ returned' = returned \ {i}

hostlist_iterator_create(i) ==
  /\ Idle /\ iters[i] = NoIter
  /\ Touch(i, AtStart) /\ ret' = Null /\ UNCHANGED hl

hostlist_iterator_reset(i) ==
  /\ Idle /\ i \in Live
  /\ Touch(i, AtStart) /\ ret' = Null /\ UNCHANGED hl

hostlist_iterator_destroy(i) ==
  /\ Idle /\ i \in Live
  /\ Touch(i, NoIter) /\ ret' = Null /\ UNCHANGED hl

hostlist_next(i) ==
  /\ Idle /\ i \in Live
  /\ LET it == Advanced(iters[i])
     IN  /\ iters' = [iters EXCEPT ![i] = it]
         /\ IF it.idx >= Len(hl.hr)
            THEN ret' = Null /\ returned' = returned \ {i}
            ELSE ret' = Host(hl.hr[it.idx + 1], it.depth) /\ returned' = returned \cup {i}
  /\ UNCHANGED hl

AfterRemove(it, rest) ==
  IF rest = <<>> THEN AfterDelete(it, it.idx)
  ELSE IF Len(rest) = 2 THEN [idx |-> it.idx + 1, depth |-> -1]
  ELSE [it EXCEPT !.depth = @ - 1]

hostlist_remove(i) ==
  /\ Idle /\ Live = {i} /\ i \in returned
  /\ LET it == iters[i]
         r == hl.hr[it.idx + 1]
         rest == Without(r, r.lo + it.depth)
     IN  /\ hl' = [hr |-> Splice(hl.hr, it.idx + 1, rest), nhosts |-> hl.nhosts - 1]
         /\ Touch(i, AfterRemove(it, rest))
  /\ ret' = Count(1)

Loop == CoalesceStep \/ CoalesceDone \/ CollapseStep \/ CollapseDone
        \/ UniqStep \/ UniqDone

Next ==
  \/ \E str \in Strings : hostlist_push(str) \/ hostlist_delete(str)
  \/ \E name \in Hosts : hostlist_push_host(name) \/ hostlist_delete_host(name)
  \/ hostlist_pop \/ hostlist_shift
  \/ hostlist_sort \/ hostlist_uniq \/ hostlist_sort_short
  \/ CoalesceStep \/ CoalesceDone \/ CollapseStep \/ CollapseDone
  \/ UniqStep \/ UniqDone
  \/ \E i \in Iters :
       \/ hostlist_iterator_create(i) \/ hostlist_iterator_reset(i)
       \/ hostlist_iterator_destroy(i) \/ hostlist_next(i) \/ hostlist_remove(i)

Spec == Init /\ [][Next]_vars

(* The loops are the calling thread's own statements.                      *)
FairSpec == Spec /\ WF_vars(Loop)
-----------------------------------------------------------------------------
(* The ranges are ranges, nhosts counts their hosts, and an iterator that  *)
(* returned a host stands on one (hostlist.c struct hostlist): kept        *)
(* through every step of the loops, where nhosts is changed by what        *)
(* hostrange_join says and ranges by what it did.                          *)
WellFormed ==
  /\ \A n \in DOMAIN hl.hr :
       /\ DOMAIN hl.hr[n] = {"prefix", "lo", "hi", "width", "single"}
       /\ hl.hr[n].lo <= hl.hr[n].hi
       /\ hl.hr[n].single => hl.hr[n] = Single(hl.hr[n].prefix)
       /\ hl.hr[n].width # 0 => ZeroPadded(hl.hr[n].lo, hl.hr[n].width) > 0
  /\ hl.nhosts = Len(Expand(hl.hr))
  /\ returned \subseteq Live
  /\ \A i \in returned : /\ iters[i].idx \in 0..Len(hl.hr) - 1
                         /\ iters[i].depth \in 0..Size(hl.hr[iters[i].idx + 1]) - 1
  /\ pc \in {"idle", "coalesce", "collapse", "uniq"} /\ loc \in Nat

(* assert(hostrange_cmp(h1, h2) <= 0) of hostrange_join and                *)
(* hostrange_intersect (hostlist.c:840 and 878): the loops change ranges   *)
(* in place, and what follows must still be in order.                      *)
AssertionsHold ==
  /\ pc = "uniq" /\ loc <= Len(hl.hr) => Leq(hl.hr[loc - 1], hl.hr[loc])
  /\ pc = "coalesce" /\ loc > 1 /\ ~hl.hr[loc - 1].single /\ ~hl.hr[loc].single
       => Leq(hl.hr[loc - 1], hl.hr[loc])

(* No two names of a prefix that are padded differently.                 *)
OneWidth(s) ==
  \A x, y \in ToSet(s) :
    x.prefix = y.prefix /\ x.suffix # <<>> /\ y.suffix # <<>> =>
      WidthEquiv(x.suffix[1], SuffixWidth(x), y.suffix[1], SuffixWidth(y))

(* The same while the names are padded alike.                              *)
OrderKept == OneWidth(Expand(hl.hr)) => AssertionsHold

(* What hostlist_ranged_string prints, hostlist_create reads back as the   *)
(* same hosts (the README of whatsup: its output is the input of other     *)
(* tools), unless a range is longer than MAX_RANGE.                        *)
RangedRoundTrip ==
  (\A n \in DOMAIN hl.hr : Size(hl.hr[n]) <= MaxRange)
    => LET read == hostlist_create(hostlist_ranged_string(hl))
       IN  read # Null /\ Expand(read.hr) = Expand(hl.hr)

(* hostlist_find, hostlist_nth and the order of the list agree: the place  *)
(* found is the first of the name, and a name that is there is found,      *)
(* however its range was stored.                                           *)
QueriesAgree ==
  LET all == Expand(hl.hr)
  IN  /\ \A name \in Hosts \cup ToSet(all) :
           hostlist_find(hl, name) = SelectInSeq(all, LAMBDA x : x = name) - 1
      /\ \A k \in 0..Len(all) - 1 : hostlist_nth(hl, k) = all[k + 1]

(* hostlist_sort and hostlist_uniq return, though the loop of the former   *)
(* begins again after each range it split.                                 *)
LoopsEnd == pc # "idle" ~> pc = "idle"

(* The abstract list: between two calls it is what the ranges expand to,   *)
(* during a call what they did before it.                                  *)
Then(a, b) == IF pc = "idle" THEN a ELSE b
Stored == Then(hl, before.hl)

Position(it) ==
  IF it = NoIter THEN -1
  ELSE IF it.idx >= Len(Stored.hr) THEN Len(Expand(Stored.hr))
  ELSE SizeBefore(Stored, it.idx + 1) + it.depth + 1

NamesOf(str) ==
  LET names(t) ==
        IF "list" \notin DOMAIN t THEN <<t>>
        ELSE FlattenSeq([n \in DOMAIN t.list |->
               [k \in 1..t.list[n].hi - t.list[n].lo + 1 |->
                 [prefix |-> t.prefix,
                  suffix |-> <<t.list[n].lo + k - 1,
                               ZeroPadded(t.list[n].lo + k - 1, t.list[n].width)>>]]])
  IN  IF \A n \in DOMAIN str : ValidToken(str[n])
      THEN FlattenSeq([n \in DOMAIN str |-> names(str[n])]) ELSE Null

Abs == INSTANCE HostlistAbs WITH
  hosts <- Expand(Stored.hr),
  pos <- [i \in Iters |-> Position(Then(iters[i], before.iters[i]))],
  Names <- [str \in Strings |-> NamesOf(str)]

(* hostlist.c implements the sequence of names hostlist.h promises.        *)
HostlistImplemented == Abs!Spec
=============================================================================
