----------------------------- MODULE HashProofs -----------------------------
(***************************************************************************)
(* The nodes of hash.c, for any number of hashes, keys, slots and chunks:  *)
(* each chain and the free list is a sequence, and a call moves a node     *)
(* from one to the front of another.                                       *)
(***************************************************************************)
EXTENDS Hash, FiniteSetTheorems, WellFoundedInduction, TLAPS

(* The cell in front of the k+1st node behind a head, and the pointer in   *)
(* it.                                                                     *)
CellAt(h, s, k) == IF k = 0 THEN h ELSE s[k]
Succ(s, k) == IF k < Len(s) THEN s[k + 1] ELSE Null

Linked(l, h, s) == \A k \in 0..Len(s) : l[CellAt(h, s, k)] = Succ(s, k)

(* Behind each head are the nodes of a sequence, and these are all nodes.  *)
Chains(l, S, C) ==
  /\ l \in [Cells -> Addresses \cup {Null}]
  /\ S \in [Heads -> Seq(Addresses)]
  /\ \A h \in Heads : IsInjective(S[h]) /\ Linked(l, h, S[h])
  /\ \A g, h \in Heads : g # h => ToSet(S[g]) \cap ToSet(S[h]) = {}
  /\ UNION {ToSet(S[h]) : h \in Heads} = Allocated(C)

Del(s, m) == [n \in 1..Len(s) - 1 |-> IF n <= m THEN s[n] ELSE s[n + 1]]
Push(p, s) == [n \in 1..Len(s) + 1 |-> IF n = 1 THEN p ELSE s[n - 1]]

LEMMA LeastLemma ==
  ASSUME NEW T, T \subseteq Nat, T # {}
  PROVE  \E x \in T : \A y \in T : x <= y
<1>1. PICK x \in T : \A y \in T : ~(<<y, x>> \in OpToRel(<, Nat))
  BY NatLessThanWellFounded, WFMin
<1>2. \A y \in T : x \in Nat /\ y \in Nat /\ ~(y < x)
  BY <1>1, Zenon DEF OpToRel
<1> QED BY <1>2

LEMMA UpTo ==
  ASSUME NEW S, NEW N \in Nat, 0 \in S, \A n \in 1..N : n - 1 \in S => n \in S
  PROVE  0..N \subseteq S
<1> DEFINE Bad == 0..N \ S
<1>1. ASSUME Bad # {}
      PROVE  FALSE
  <2>1. Bad \subseteq Nat
    OBVIOUS
  <2>2. PICK m \in Bad : \A n \in Bad : m <= n
    BY <1>1, <2>1, LeastLemma
  <2>3. m \in 1..N /\ m - 1 \in 0..N /\ ~(m <= m - 1)
    BY <2>2
  <2> QED BY <2>2, <2>3
<1> QED BY <1>1

(***************************************************************************)
(* Sequences of nodes.                                                     *)
(***************************************************************************)
LEMMA SeqLemma ==
  ASSUME NEW T, NEW s \in Seq(T), IsInjective(s)
  PROVE  /\ Len(s) \in Nat /\ DOMAIN s = 1..Len(s)
         /\ \A k \in 1..Len(s) : s[k] \in T /\ s[k] \in ToSet(s)
         /\ \A k, n \in 1..Len(s) : s[k] = s[n] => k = n
         /\ \A p \in ToSet(s) : \E k \in 1..Len(s) : p = s[k]
         /\ ToSet(s) \subseteq T
<1>1. Len(s) \in Nat /\ DOMAIN s = 1..Len(s)
  OBVIOUS
<1>2. \A k \in 1..Len(s) : s[k] \in T
  OBVIOUS
<1> QED BY <1>1, <1>2 DEF ToSet, IsInjective

(* A node put in front.                                                    *)
LEMMA PushLemma ==
  ASSUME NEW T, NEW s \in Seq(T), IsInjective(s), NEW p \in T, p \notin ToSet(s)
  PROVE  LET r == Push(p, s)
         IN  /\ r \in Seq(T) /\ IsInjective(r) /\ Len(r) = Len(s) + 1
             /\ ToSet(r) = ToSet(s) \cup {p}
             /\ r[1] = p /\ \A n \in 1..Len(s) : r[n + 1] = s[n]
<1> DEFINE r == Push(p, s)
           l == Len(s)
<1>1. /\ l \in Nat /\ DOMAIN s = 1..l
      /\ \A k \in 1..l : s[k] \in T /\ s[k] # p
      /\ \A k, n \in 1..l : s[k] = s[n] => k = n
      /\ ToSet(s) = {s[k] : k \in 1..l}
  BY SeqLemma DEF ToSet
<1>2. \A n \in 1..l + 1 : n # 1 => n - 1 \in 1..l /\ (n - 1) + 1 = n
  BY <1>1
<1>3. r \in [1..l + 1 -> T]
  BY <1>1, <1>2 DEF Push
<1>4. r \in Seq(T) /\ Len(r) = l + 1 /\ DOMAIN r = 1..l + 1
  BY <1>1, <1>3
<1>5. 1 \in 1..l + 1 /\ \A n \in 1..l : n + 1 \in 1..l + 1 /\ n + 1 # 1 /\ (n + 1) - 1 = n
  BY <1>1
<1>6. r[1] = p /\ \A n \in 1..l : r[n + 1] = s[n]
  BY <1>5 DEF Push
<1> HIDE DEF r, l
<1>7. \A n \in 1..l + 1 : \/ n = 1 /\ r[n] = p
                          \/ n # 1 /\ n - 1 \in 1..l /\ r[n] = s[n - 1]
  BY <1>2, <1>6
<1>8. IsInjective(r)
  <2>1. ASSUME NEW m \in 1..l + 1, NEW n \in 1..l + 1, r[m] = r[n]
        PROVE  m = n
    <3>1. CASE m = 1 \/ n = 1
      BY <1>1, <1>7, <2>1, <3>1
    <3>2. CASE m # 1 /\ n # 1
      <4>1. m - 1 = n - 1
        BY <1>1, <1>7, <2>1, <3>2
      <4> QED BY <1>1, <4>1
    <3> QED BY <3>1, <3>2
  <2> QED BY <1>4, <2>1 DEF IsInjective
<1>9. ToSet(r) = ToSet(s) \cup {p}
  <2>1. ToSet(r) = {r[n] : n \in 1..l + 1}
    BY <1>4 DEF ToSet
  <2>2. \A n \in 1..l + 1 : r[n] \in ToSet(s) \cup {p}
    BY <1>1, <1>7
  <2>3. \A n \in 1..l : \E m \in 1..l + 1 : r[m] = s[n]
    BY <1>5, <1>6
  <2> QED BY <1>1, <1>5, <1>6, <2>1, <2>2, <2>3
<1> QED BY <1>4, <1>6, <1>8, <1>9 DEF r, l

(* The node behind cell m taken out.                                       *)
LEMMA DelLemma ==
  ASSUME NEW T, NEW s \in Seq(T), IsInjective(s), NEW m \in 0..Len(s) - 1
  PROVE  LET r == Del(s, m)
         IN  /\ r \in Seq(T) /\ IsInjective(r) /\ Len(r) = Len(s) - 1
             /\ ToSet(r) = ToSet(s) \ {s[m + 1]}
             /\ \A n \in 1..m : r[n] = s[n]
             /\ \A n \in m + 1..Len(s) - 1 : r[n] = s[n + 1]
<1> DEFINE r == Del(s, m)
           l == Len(s)
<1>1. l \in Nat /\ m \in Nat /\ l - 1 \in Nat /\ m + 1 \in 1..l /\ DOMAIN s = 1..l
      /\ \A n \in 1..l : s[n] \in T
  BY SeqLemma
<1>2. \A n \in 1..l - 1 : n \in 1..l /\ n + 1 \in 1..l
  BY <1>1
<1>3. r \in [1..l - 1 -> T]
  BY <1>1, <1>2 DEF Del
<1>4. r \in Seq(T) /\ Len(r) = l - 1 /\ DOMAIN r = 1..l - 1
  <2>1. \A b \in Nat : r \in [1..b -> T] => r \in Seq(T) /\ Len(r) = b /\ DOMAIN r = 1..b
    <3> HIDE DEF r
    <3> QED OBVIOUS
  <2> HIDE DEF r, l
  <2> QED BY <1>1, <1>3, <2>1
<1>5. /\ \A n \in 1..m : r[n] = s[n]
      /\ \A n \in m + 1..l - 1 : r[n] = s[n + 1]
  <2>1. \A n \in 1..m : n \in 1..l - 1 /\ n <= m
    BY <1>1
  <2>2. \A n \in m + 1..l - 1 : n \in 1..l - 1 /\ ~(n <= m)
    BY <1>1
  <2> QED BY <2>1, <2>2 DEF Del
<1> HIDE DEF r
<1>7. \A n \in 1..l - 1 : \/ n \in 1..m /\ n \in 1..l /\ n # m + 1
                          \/ n \in m + 1..l - 1 /\ n + 1 \in 1..l /\ n + 1 # m + 1
  BY <1>1
<1>8. \A k, n \in 1..l : s[k] = s[n] => k = n
  BY SeqLemma
<1>9. IsInjective(r)
  <2>1. ASSUME NEW k \in 1..l - 1, NEW n \in 1..l - 1, r[k] = r[n]
        PROVE  k = n
    <3>1. CASE k \in 1..m /\ n \in 1..m
      <4>1. k \in 1..l /\ n \in 1..l /\ r[k] = s[k] /\ r[n] = s[n]
        BY <1>1, <1>5, <3>1
      <4> QED BY <1>8, <2>1, <4>1
    <3>2. CASE k \in 1..m /\ n \in m + 1..l - 1
      <4>1. k = n + 1
        BY <1>2, <1>5, <1>8, <2>1, <3>2
      <4> QED BY <1>1, <3>2, <4>1
    <3>3. CASE k \in m + 1..l - 1 /\ n \in 1..m
      <4>1. k + 1 = n
        BY <1>2, <1>5, <1>8, <2>1, <3>3
      <4> QED BY <1>1, <3>3, <4>1
    <3>4. CASE k \in m + 1..l - 1 /\ n \in m + 1..l - 1
      <4>1. k + 1 = n + 1
        BY <1>2, <1>5, <1>8, <2>1, <3>4
      <4> QED BY <1>1, <4>1
    <3> QED BY <1>7, <3>1, <3>2, <3>3, <3>4
  <2> QED BY <1>4, <2>1 DEF IsInjective
<1>10. ToSet(r) = ToSet(s) \ {s[m + 1]}
  <2>1. \A n \in 1..l - 1 : \E k \in 1..l : s[k] # s[m + 1] /\ r[n] = s[k]
    BY <1>1, <1>5, <1>7, <1>8
  <2>2. ASSUME NEW n \in 1..l, n # m + 1
        PROVE  \E k \in 1..l - 1 : r[k] = s[n]
    <3>1. CASE n <= m
      <4>1. n \in 1..m /\ n \in 1..l - 1
        BY <1>1, <3>1
      <4> QED BY <1>5, <4>1
    <3>2. CASE ~(n <= m)
      <4>1. n - 1 \in m + 1..l - 1 /\ n - 1 \in 1..l - 1 /\ (n - 1) + 1 = n
        BY <1>1, <2>2, <3>2
      <4> QED BY <1>5, <4>1
    <3> QED BY <3>1, <3>2
  <2>3. ToSet(r) = {r[n] : n \in 1..l - 1} /\ ToSet(s) = {s[n] : n \in 1..l}
    BY <1>1, <1>4 DEF ToSet
  <2>4. \A n \in 1..l : s[n] # s[m + 1] => n # m + 1
    OBVIOUS
  <2> HIDE DEF l
  <2> QED BY <2>1, <2>2, <2>3, <2>4
<1> QED BY <1>4, <1>5, <1>9, <1>10 DEF r

(***************************************************************************)
(* Cells: the heads and the next pointers of the nodes, all different.     *)
(***************************************************************************)
LEMMA HeadLemma ==
  ASSUME HashConstants
  PROVE  /\ Addresses \cap Heads = {} /\ Null \notin Cells
         /\ Cells = Addresses \cup Heads
         /\ FreeList \in Heads /\ FreeList \in Cells
         /\ \A t \in Tables : Slots(t) \subseteq Heads /\ FreeList \notin Slots(t)
         /\ \A t, u \in Tables : t # u => Slots(t) \cap Slots(u) = {}
         /\ \A t \in Tables : \A n \in 0..Size - 1 : <<t, n>> \in Slots(t)
<1>1. /\ Null \notin Cells /\ \A t \in Tables : t # "node" /\ t # "free"
  BY Zenon DEF HashConstants
<1>2. \A a \in Addresses : \E n : a = <<"node", n>>
  BY DEF Addresses, Allocated
<1>3. \A t \in Tables : \A c \in Slots(t) : \E n : c = <<t, n>>
  BY DEF Slots
<1>4. \A h \in Heads : h = FreeList \/ \E t \in Tables : h \in Slots(t)
  BY Zenon DEF Heads
<1>5. \A t \in Tables : Slots(t) \subseteq Heads
  BY DEF Heads
<1>6. \A h \in Heads : \A n : h # <<"node", n>>
  BY <1>1, <1>3, <1>4 DEF FreeList
<1>7. Addresses \cap Heads = {}
  BY <1>2, <1>6
<1>8. \A t \in Tables : FreeList \notin Slots(t)
  BY <1>1, <1>3 DEF FreeList
<1>9. \A t, u \in Tables : t # u => Slots(t) \cap Slots(u) = {}
  BY <1>3
<1>10. FreeList \in Heads
  BY DEF Heads
<1>11. \A t \in Tables : \A n \in 0..Size - 1 : <<t, n>> \in Slots(t)
  BY DEF Slots
<1>12. Cells = Addresses \cup Heads /\ FreeList \in Cells
  BY <1>10 DEF Cells
<1> QED BY <1>1, <1>5, <1>7, <1>8, <1>9, <1>10, <1>11, <1>12

LEMMA CellLemma ==
  ASSUME HashConstants, NEW l, NEW S, NEW C, Chains(l, S, C), NEW h \in Heads
  PROVE  LET s == S[h]
         IN  /\ s \in Seq(Addresses) /\ IsInjective(s)
             /\ Len(s) \in Nat /\ DOMAIN s = 1..Len(s)
             /\ ToSet(s) \subseteq Addresses /\ Linked(l, h, s)
             /\ \A k \in 1..Len(s) : s[k] \in Addresses /\ s[k] \in ToSet(s) /\ s[k] # Null
             /\ \A k \in 0..Len(s) : CellAt(h, s, k) \in Cells
             /\ \A k \in 0..Len(s) : l[CellAt(h, s, k)] = Succ(s, k)
             /\ \A k, n \in 0..Len(s) : CellAt(h, s, k) = CellAt(h, s, n) => k = n
<1> DEFINE s == S[h]
<1>1. s \in Seq(Addresses) /\ IsInjective(s) /\ Linked(l, h, s)
  BY DEF Chains
<1>2. /\ Len(s) \in Nat /\ DOMAIN s = 1..Len(s)
      /\ \A k \in 1..Len(s) : s[k] \in Addresses /\ s[k] \in ToSet(s)
      /\ \A k, n \in 1..Len(s) : s[k] = s[n] => k = n
      /\ ToSet(s) \subseteq Addresses
  BY <1>1, SeqLemma
<1>3. h \notin Addresses /\ h \in Cells /\ Addresses \subseteq Cells /\ Null \notin Addresses
  BY HeadLemma
<1>4. \A k \in 0..Len(s) : k # 0 => k \in 1..Len(s)
  OBVIOUS
<1>5. \A k \in 0..Len(s) : CellAt(h, s, k) \in Cells
  BY <1>2, <1>3, <1>4 DEF CellAt
<1>6. \A k, n \in 0..Len(s) : CellAt(h, s, k) = CellAt(h, s, n) => k = n
  BY <1>2, <1>3, <1>4 DEF CellAt
<1> QED BY <1>1, <1>2, <1>3, <1>5, <1>6 DEF Linked

LEMMA CellsApart ==
  ASSUME HashConstants, NEW l, NEW S, NEW C, Chains(l, S, C),
         NEW g \in Heads, NEW h \in Heads, g # h,
         NEW k \in 0..Len(S[g]), NEW n \in 0..Len(S[h])
  PROVE  CellAt(g, S[g], k) # CellAt(h, S[h], n)
<1>1. /\ k # 0 => k \in 1..Len(S[g])
      /\ n # 0 => n \in 1..Len(S[h])
  OBVIOUS
<1>2. g \notin Addresses /\ h \notin Addresses
  BY HeadLemma
<1>3. /\ k # 0 => S[g][k] \in Addresses /\ S[g][k] \in ToSet(S[g])
      /\ n # 0 => S[h][n] \in Addresses /\ S[h][n] \in ToSet(S[h])
  BY <1>1, CellLemma
<1>4. ToSet(S[g]) \cap ToSet(S[h]) = {}
  BY DEF Chains
<1> QED BY <1>2, <1>3, <1>4 DEF CellAt

LEMMA FrameLemma ==
  ASSUME NEW l, NEW m, NEW h, NEW s, Linked(l, h, s),
         \A k \in 0..Len(s) : m[CellAt(h, s, k)] = l[CellAt(h, s, k)]
  PROVE  Linked(m, h, s)
BY DEF Linked

(***************************************************************************)
(* The node behind cell k of one head is put in front of another: what     *)
(* hash_insert, hash_remove and the loops do to the pointers.              *)
(***************************************************************************)
LEMMA LinkDel ==
  ASSUME HashConstants, NEW l, NEW S, NEW C, Chains(l, S, C), NEW h \in Heads,
         NEW k \in 0..Len(S[h]) - 1, NEW m,
         m[CellAt(h, S[h], k)] = l[S[h][k + 1]],
         \A n \in 0..Len(S[h]) : n # k /\ n # k + 1 =>
            m[CellAt(h, S[h], n)] = l[CellAt(h, S[h], n)]
  PROVE  Linked(m, h, Del(S[h], k))
<1> DEFINE s == S[h]
           r == Del(s, k)
<1>1. /\ Len(s) \in Nat /\ s \in Seq(Addresses) /\ IsInjective(s)
      /\ \A n \in 0..Len(s) : l[CellAt(h, s, n)] = Succ(s, n)
  BY CellLemma
<1>3. k \in Nat /\ Len(s) - 1 \in Nat /\ k \in 0..Len(s) - 1
  BY <1>1
<1> HIDE DEF s, r
<1>2. /\ Len(r) = Len(s) - 1
      /\ \A n \in 1..k : r[n] = s[n]
      /\ \A n \in k + 1..Len(s) - 1 : r[n] = s[n + 1]
  BY <1>1, <1>3, DelLemma DEF r
<1>4. ASSUME NEW n \in 0..Len(r)
      PROVE  m[CellAt(h, r, n)] = Succ(r, n)
  <2>1. CASE n < k
    <3>1. /\ n \in 0..Len(s) /\ n # k /\ n # k + 1 /\ n + 1 \in 1..k
          /\ (n # 0 => n \in 1..k) /\ n < Len(s) /\ n < Len(r)
      BY <1>1, <1>2, <1>3, <2>1
    <3>2. CellAt(h, r, n) = CellAt(h, s, n) /\ Succ(r, n) = Succ(s, n)
      BY <1>2, <3>1 DEF CellAt, Succ
    <3>3. m[CellAt(h, s, n)] = l[CellAt(h, s, n)]
      BY <3>1 DEF s
    <3> QED BY <1>1, <3>1, <3>2, <3>3
  <2>2. CASE n = k
    <3>1. /\ k + 1 \in 0..Len(s) /\ k + 1 # 0 /\ (k # 0 => k \in 1..k)
          /\ (k < Len(r) <=> k + 1 < Len(s))
          /\ (k < Len(r) => k + 1 \in k + 1..Len(s) - 1)
      BY <1>1, <1>2, <1>3
    <3>2. CellAt(h, r, k) = CellAt(h, s, k) /\ Succ(r, k) = Succ(s, k + 1)
      BY <1>2, <3>1 DEF CellAt, Succ
    <3>3. l[s[k + 1]] = Succ(s, k + 1)
      BY <1>1, <3>1 DEF CellAt
    <3> QED BY <2>2, <3>2, <3>3 DEF s
  <2>3. CASE n > k
    <3>1. /\ n + 1 \in 0..Len(s) /\ n + 1 # k /\ n + 1 # k + 1 /\ n # 0 /\ n + 1 # 0
          /\ n \in k + 1..Len(s) - 1 /\ (n < Len(r) <=> n + 1 < Len(s))
          /\ (n < Len(r) => n + 1 \in k + 1..Len(s) - 1)
      BY <1>1, <1>2, <1>3, <2>3
    <3>2. CellAt(h, r, n) = CellAt(h, s, n + 1) /\ Succ(r, n) = Succ(s, n + 1)
      BY <1>2, <3>1 DEF CellAt, Succ
    <3>3. m[CellAt(h, s, n + 1)] = l[CellAt(h, s, n + 1)]
      BY <3>1 DEF s
    <3> QED BY <1>1, <3>1, <3>2, <3>3
  <2>4. n < k \/ n = k \/ n > k
    BY <1>1, <1>2, <1>3
  <2> QED BY <2>1, <2>2, <2>3, <2>4
<1> QED BY <1>4 DEF Linked, r, s

LEMMA LinkPush ==
  ASSUME HashConstants, NEW l, NEW S, NEW C, Chains(l, S, C), NEW h \in Heads,
         NEW p \in Addresses, p \notin ToSet(S[h]), NEW m,
         m[h] = p, m[p] = l[h],
         \A n \in 1..Len(S[h]) : m[S[h][n]] = l[S[h][n]]
  PROVE  Linked(m, h, Push(p, S[h]))
<1> DEFINE s == S[h]
           r == Push(p, s)
<1>1. /\ Len(s) \in Nat /\ s \in Seq(Addresses) /\ IsInjective(s)
      /\ \A n \in 0..Len(s) : l[CellAt(h, s, n)] = Succ(s, n)
  BY CellLemma
<1>2. Len(r) = Len(s) + 1 /\ r[1] = p /\ \A n \in 1..Len(s) : r[n + 1] = s[n]
  BY <1>1, PushLemma
<1>3. \A n \in 1..Len(s) : m[s[n]] = l[s[n]]
  OBVIOUS
<1> HIDE DEF s, r
<1>4. ASSUME NEW n \in 0..Len(r)
      PROVE  m[CellAt(h, r, n)] = Succ(r, n)
  <2>1. CASE n = 0
    <3>1. 0 < Len(r) /\ 0 + 1 = 1
      BY <1>1, <1>2
    <3> QED BY <1>2, <2>1, <3>1 DEF CellAt, Succ
  <2>2. CASE n # 0
    <3> DEFINE j == n - 1
    <3>1. /\ j \in 0..Len(s) /\ n = j + 1 /\ j + 1 # 0 /\ (j < Len(s) <=> j + 1 < Len(r))
          /\ (j # 0 => j \in 1..Len(s)) /\ (j < Len(s) => j + 1 \in 1..Len(s))
      BY <1>1, <1>2, <2>2
    <3> HIDE DEF j
    <3>2. Succ(r, j + 1) = Succ(s, j)
      BY <1>2, <3>1 DEF Succ
    <3>3. m[r[j + 1]] = l[CellAt(h, s, j)]
      <4>1. CASE j = 0
        BY <1>2, <4>1 DEF CellAt, s
      <4>2. CASE j # 0
        BY <1>2, <1>3, <3>1, <4>2 DEF CellAt
      <4> QED BY <4>1, <4>2
    <3> QED BY <1>1, <3>1, <3>2, <3>3 DEF CellAt
  <2> QED BY <2>1, <2>2
<1> QED BY <1>4 DEF Linked, r, s

Moved(S, g, k, h) == [S EXCEPT ![g] = Del(S[g], k), ![h] = Push(S[g][k + 1], S[h])]

IsMoved(S, M, p, g, k, h) ==
  /\ p \in Addresses /\ p \in ToSet(S[g]) /\ p # Null
  /\ \A f \in Heads : f # g => p \notin ToSet(S[f])
  /\ M \in [Heads -> Seq(Addresses)]
  /\ M[g] = Del(S[g], k) /\ M[h] = Push(p, S[h])
  /\ \A f \in Heads \ {g, h} : M[f] = S[f]
  /\ \A f \in Heads : IsInjective(M[f])
  /\ \A f \in Heads : \A x :
       x \in ToSet(M[f]) <=> IF x = p THEN f = h ELSE x \in ToSet(S[f])

LEMMA MovedLemma ==
  ASSUME HashConstants, NEW l, NEW S, NEW C, Chains(l, S, C),
         NEW g \in Heads, NEW h \in Heads, g # h, NEW k \in 0..Len(S[g]) - 1
  PROVE  IsMoved(S, Moved(S, g, k, h), S[g][k + 1], g, k, h)
<1> DEFINE p == S[g][k + 1]
           M == Moved(S, g, k, h)
<1>1. /\ S \in [Heads -> Seq(Addresses)]
      /\ \A e, f \in Heads : e # f => ToSet(S[e]) \cap ToSet(S[f]) = {}
  BY DEF Chains
<1>2. \A f \in Heads : S[f] \in Seq(Addresses) /\ IsInjective(S[f])
  BY CellLemma
<1>3. p \in Addresses /\ p \in ToSet(S[g]) /\ p # Null
  <2>1. k + 1 \in 1..Len(S[g])
    BY CellLemma
  <2> QED BY <2>1, CellLemma
<1>4. \A f \in Heads : f # g => p \notin ToSet(S[f])
  BY <1>1, <1>3
<1>5. /\ Del(S[g], k) \in Seq(Addresses) /\ IsInjective(Del(S[g], k))
      /\ ToSet(Del(S[g], k)) = ToSet(S[g]) \ {p}
  BY <1>2, DelLemma
<1>6. /\ Push(p, S[h]) \in Seq(Addresses) /\ IsInjective(Push(p, S[h]))
      /\ ToSet(Push(p, S[h])) = ToSet(S[h]) \cup {p}
  BY <1>2, <1>3, <1>4, PushLemma
<1>7. /\ M \in [Heads -> Seq(Addresses)]
      /\ M[g] = Del(S[g], k) /\ M[h] = Push(p, S[h])
      /\ \A f \in Heads \ {g, h} : M[f] = S[f]
  BY <1>1, <1>5, <1>6 DEF Moved
<1> HIDE DEF p, M
<1>8. \A f \in Heads : IsInjective(M[f])
  BY <1>2, <1>5, <1>6, <1>7
<1>9. \A f \in Heads : \A x :
        x \in ToSet(M[f]) <=> IF x = p THEN f = h ELSE x \in ToSet(S[f])
  BY <1>4, <1>5, <1>6, <1>7
<1>10. IsMoved(S, M, p, g, k, h)
  BY <1>3, <1>4, <1>7, <1>8, <1>9 DEF IsMoved
<1> QED BY <1>10 DEF p, M

LEMMA MoveLemma ==
  ASSUME HashConstants, NEW l, NEW S, NEW C, Chains(l, S, C),
         NEW g \in Heads, NEW h \in Heads, g # h, NEW k \in 0..Len(S[g]) - 1
  PROVE  LET c == CellAt(g, S[g], k)
             p == S[g][k + 1]
             d == [l EXCEPT ![c] = l[p]]
         IN  /\ l[c] = p
             /\ Chains([d EXCEPT ![p] = d[h], ![h] = p], Moved(S, g, k, h), C)
<1> DEFINE c == CellAt(g, S[g], k)
           p == S[g][k + 1]
           M == Moved(S, g, k, h)
<1>1. /\ l \in [Cells -> Addresses \cup {Null}] /\ S \in [Heads -> Seq(Addresses)]
      /\ \A e, f \in Heads : e # f => ToSet(S[e]) \cap ToSet(S[f]) = {}
      /\ UNION {ToSet(S[f]) : f \in Heads} = Allocated(C)
  BY DEF Chains
<1>2. /\ p \in Addresses /\ p \in ToSet(S[g])
      /\ \A f \in Heads : f # g => p \notin ToSet(S[f])
      /\ M \in [Heads -> Seq(Addresses)]
      /\ M[g] = Del(S[g], k) /\ M[h] = Push(p, S[h])
      /\ \A f \in Heads \ {g, h} : M[f] = S[f]
      /\ \A f \in Heads : IsInjective(M[f])
      /\ \A f \in Heads : \A x :
           x \in ToSet(M[f]) <=> IF x = p THEN f = h ELSE x \in ToSet(S[f])
  <2>1. IsMoved(S, M, p, g, k, h)
    BY MovedLemma
  <2> HIDE DEF M, p
  <2> QED BY <2>1 DEF IsMoved
<1>3. /\ k \in 0..Len(S[g]) /\ k + 1 \in 0..Len(S[g]) /\ k # k + 1 /\ k + 1 # 0
      /\ 0 \in 0..Len(S[h]) /\ Len(S[g]) \in Nat /\ Len(S[h]) \in Nat /\ k < Len(S[g])
  BY CellLemma
<1>4. c = CellAt(g, S[g], k) /\ p = CellAt(g, S[g], k + 1) /\ h = CellAt(h, S[h], 0)
  BY <1>3 DEF CellAt
<1>5. l[c] = p
  BY <1>3, CellLemma DEF Succ
<1> HIDE DEF c, p, M
<1> DEFINE d == [l EXCEPT ![c] = l[p]]
           m == [d EXCEPT ![p] = d[h], ![h] = p]
<1>6. c \in Cells /\ p \in Cells /\ h \in Cells /\ c # p /\ c # h /\ p # h
  BY <1>3, <1>4, CellLemma, CellsApart
<1>7. /\ m \in [Cells -> Addresses \cup {Null}]
      /\ m[c] = l[p] /\ m[p] = l[h] /\ m[h] = p
      /\ \A x \in Cells : x \notin {c, p, h} => m[x] = l[x]
  BY <1>1, <1>2, <1>6
<1> HIDE DEF d, m
<1>8. Linked(m, g, M[g])
  <2>1. ASSUME NEW n \in 0..Len(S[g]), n # k, n # k + 1
        PROVE  m[CellAt(g, S[g], n)] = l[CellAt(g, S[g], n)]
    <3>1. CellAt(g, S[g], n) # c /\ CellAt(g, S[g], n) # p
      BY <1>3, <1>4, <2>1, CellLemma
    <3>2. CellAt(g, S[g], n) # h /\ CellAt(g, S[g], n) \in Cells
      BY <1>3, <1>4, CellLemma, CellsApart
    <3> QED BY <1>7, <3>1, <3>2
  <2>2. m[CellAt(g, S[g], k)] = l[S[g][k + 1]]
    BY <1>7 DEF c, p
  <2>3. Linked(m, g, Del(S[g], k))
    BY <2>1, <2>2, LinkDel
  <2> QED BY <1>2, <2>3
<1>9. Linked(m, h, M[h])
  <2>1. ASSUME NEW n \in 1..Len(S[h])
        PROVE  m[S[h][n]] = l[S[h][n]]
    <3>1. S[h][n] = CellAt(h, S[h], n) /\ n \in 0..Len(S[h]) /\ n # 0
      BY <1>3 DEF CellAt
    <3>2. S[h][n] # c /\ S[h][n] # p
      BY <1>3, <1>4, <3>1, CellsApart
    <3>3. S[h][n] # h /\ S[h][n] \in Cells
      BY <1>3, <1>4, <3>1, CellLemma
    <3> QED BY <1>7, <3>2, <3>3
  <2>2. p \notin ToSet(S[h])
    BY <1>2
  <2> QED BY <1>2, <1>7, <2>1, <2>2, LinkPush
<1>10. ASSUME NEW f \in Heads, f # g, f # h
       PROVE  Linked(m, f, M[f])
  <2>1. ASSUME NEW n \in 0..Len(S[f])
        PROVE  m[CellAt(f, S[f], n)] = l[CellAt(f, S[f], n)]
    <3>1. CellAt(f, S[f], n) \in Cells
      BY CellLemma
    <3>2. CellAt(f, S[f], n) \notin {c, p, h}
      BY <1>3, <1>4, <1>10, CellsApart
    <3> QED BY <1>7, <3>1, <3>2
  <2>2. Linked(l, f, S[f])
    BY CellLemma
  <2>3. Linked(m, f, S[f])
    BY <2>1, <2>2, FrameLemma
  <2> QED BY <1>2, <1>10, <2>3
<1>12. \A e, f \in Heads : e # f => ToSet(M[e]) \cap ToSet(M[f]) = {}
  <2>1. \A e, f \in Heads : \A x : x \in ToSet(S[e]) /\ x \in ToSet(S[f]) => e = f
    BY <1>1
  <2>2. \A e, f \in Heads : \A x : x \in ToSet(M[e]) /\ x \in ToSet(M[f]) => e = f
    BY <1>2, <2>1
  <2> QED BY <2>2
<1>13. UNION {ToSet(M[f]) : f \in Heads} = UNION {ToSet(S[f]) : f \in Heads}
  <2>1. \A f \in Heads : ToSet(M[f]) \subseteq UNION {ToSet(S[e]) : e \in Heads}
    BY <1>2
  <2>2. \A f \in Heads : ToSet(S[f]) \subseteq UNION {ToSet(M[e]) : e \in Heads}
    BY <1>2
  <2> QED BY <2>1, <2>2
<1>14. Chains(m, M, C)
  BY <1>1, <1>2, <1>7, <1>8, <1>9, <1>10, <1>12, <1>13 DEF Chains
<1> QED BY <1>5, <1>14 DEF m, d, c, p, M

(***************************************************************************)
(* The chunks.                                                             *)
(***************************************************************************)
LEMMA ChunkLemma ==
  ASSUME HashConstants, NEW C \in Nat
  PROVE  /\ C * HASH_ALLOC \in Nat /\ HASH_ALLOC \in Nat \ {0} /\ MaxChunks \in Nat
         /\ (C + 1) * HASH_ALLOC = C * HASH_ALLOC + HASH_ALLOC
         /\ C <= MaxChunks => C * HASH_ALLOC <= MaxChunks * HASH_ALLOC
<1>1. HASH_ALLOC \in Nat \ {0} /\ MaxChunks \in Nat
  BY Zenon DEF HashConstants
<1>2. \A a, b, c \in Nat : /\ a * b \in Nat /\ (a + 1) * b = a * b + b
                           /\ (a + c) * b = a * b + c * b
  OBVIOUS
<1>3. ASSUME C <= MaxChunks
      PROVE  C * HASH_ALLOC <= MaxChunks * HASH_ALLOC
  <2>1. MaxChunks - C \in Nat /\ C + (MaxChunks - C) = MaxChunks
    BY <1>1, <1>3
  <2>2. /\ C * HASH_ALLOC \in Nat /\ (MaxChunks - C) * HASH_ALLOC \in Nat
        /\ (C + (MaxChunks - C)) * HASH_ALLOC
             = C * HASH_ALLOC + (MaxChunks - C) * HASH_ALLOC
    <3> DEFINE d == MaxChunks - C
    <3>1. d \in Nat
      BY <2>1
    <3> HIDE DEF d
    <3>2. /\ C * HASH_ALLOC \in Nat /\ d * HASH_ALLOC \in Nat
          /\ (C + d) * HASH_ALLOC = C * HASH_ALLOC + d * HASH_ALLOC
      BY <1>1, <1>2, <3>1
    <3> QED BY <3>2 DEF d
  <2>3. \A x, y, z \in Nat : z = x + y => x <= z
    OBVIOUS
  <2>4. MaxChunks * HASH_ALLOC \in Nat
    BY <1>1, <1>2
  <2> QED BY <2>1, <2>2, <2>3, <2>4
<1> QED BY <1>1, <1>2, <1>3

FreshNodes == [n \in 1..HASH_ALLOC |-> <<"node", chunks * HASH_ALLOC + n>>]

LEMMA NewChunkLemma ==
  ASSUME HashConstants, chunks \in Nat, chunks < MaxChunks,
         NEW S, Chains(link, S, chunks), link[FreeList] = Null
  PROVE  Chains(NewChunk, [S EXCEPT ![FreeList] = FreshNodes], chunks + 1)
<1> DEFINE A == HASH_ALLOC
           b == chunks * HASH_ALLOC
           e == MaxChunks * HASH_ALLOC
           N(n) == <<"node", n>>
           F == FreshNodes
           M == [S EXCEPT ![FreeList] = F]
<1>1. /\ A \in Nat \ {0} /\ b \in Nat /\ e \in Nat /\ b + A <= e
      /\ (chunks + 1) * HASH_ALLOC = b + A
  <2>1. chunks + 1 \in Nat /\ chunks + 1 <= MaxChunks
    BY ChunkLemma
  <2> QED BY <2>1, ChunkLemma
<1> HIDE DEF b, e
<1>2. /\ Allocated(chunks) = {N(n) : n \in 1..b}
      /\ Allocated(chunks + 1) = {N(n) : n \in 1..b + A}
      /\ Addresses = {N(n) : n \in 1..e}
      /\ \A m, n : N(m) = N(n) => m = n
  BY <1>1 DEF Allocated, Addresses, b, e
<1>3. \A n \in 1..b + A : N(n) \in Allocated(chunks + 1) \ Allocated(chunks) <=> n \in b + 1..b + A
  BY <1>1, <1>2
<1>4. /\ link \in [Cells -> Addresses \cup {Null}] /\ S \in [Heads -> Seq(Addresses)]
      /\ \A g, h \in Heads : g # h => ToSet(S[g]) \cap ToSet(S[h]) = {}
      /\ UNION {ToSet(S[h]) : h \in Heads} = Allocated(chunks)
  BY DEF Chains
<1>5. /\ \A n \in 1..A : b + n \in 1..e /\ b + n \in 1..b + A
      /\ F = [n \in 1..A |-> N(b + n)]
  BY <1>1 DEF FreshNodes, b
<1> HIDE DEF A, F, N
<1>6. F \in Seq(Addresses) /\ Len(F) = A /\ DOMAIN F = 1..A
  <2>1. F \in [1..A -> Addresses]
    BY <1>2, <1>5
  <2> QED BY <1>1, <2>1
<1>7. \A n \in 1..A : F[n] = N(b + n)
  BY <1>5
<1>8. IsInjective(F)
  <2>1. \A m, n \in 1..A : b + m = b + n => m = n
    BY <1>1
  <2> QED BY <1>2, <1>6, <1>7, <2>1 DEF IsInjective
<1>9. ToSet(F) = Allocated(chunks + 1) \ Allocated(chunks)
  <2>1. ToSet(F) = {N(b + n) : n \in 1..A}
    BY <1>6, <1>7 DEF ToSet
  <2>2. \A m \in b + 1..b + A : m - b \in 1..A /\ b + (m - b) = m
    BY <1>1
  <2>3. \A n \in 1..A : b + n \in b + 1..b + A /\ b + n \in 1..b + A
    BY <1>1
  <2> QED BY <1>2, <1>3, <2>1, <2>2, <2>3
<1>10. /\ NewChunk[FreeList] = N(b + 1)
       /\ \A n \in b + 1..b + A : NewChunk[N(n)] = IF n = b + A THEN Null ELSE N(n + 1)
       /\ \A c \in Cells : c # FreeList /\ c \notin ToSet(F) => NewChunk[c] = link[c]
       /\ NewChunk = [c \in Cells |-> NewChunk[c]]
  <2>1. FreeList \in Cells /\ Addresses \subseteq Cells /\ FreeList \notin Addresses
    BY HeadLemma
  <2>2. /\ NewChunk[FreeList] = N(b + 1)
        /\ \A c \in Cells : c # FreeList /\ c \notin ToSet(F) => NewChunk[c] = link[c]
        /\ NewChunk = [c \in Cells |-> NewChunk[c]]
    BY <1>9, <2>1 DEF NewChunk, N, b
  <2>3. ASSUME NEW n \in b + 1..b + A
        PROVE  NewChunk[N(n)] = IF n = b + A THEN Null ELSE N(n + 1)
    <3>1. n \in 1..b + A /\ n \in 1..e
      BY <1>1
    <3>2. N(n) \in Addresses /\ N(n) \in Allocated(chunks + 1) \ Allocated(chunks)
      BY <1>2, <1>3, <3>1
    <3>3. N(n) \in Cells /\ N(n) # FreeList /\ N(n)[2] = n
      BY <2>1, <3>2 DEF N
    <3>4. NewChunk[N(n)] = IF N(n)[2] = (chunks + 1) * HASH_ALLOC THEN Null
                           ELSE <<"node", N(n)[2] + 1>>
      BY <3>2, <3>3 DEF NewChunk
    <3> QED BY <1>1, <3>3, <3>4 DEF N
  <2> QED BY <2>2, <2>3
<1> HIDE DEF M
<1>11. NewChunk \in [Cells -> Addresses \cup {Null}]
  <2>1. ASSUME NEW c \in Cells
        PROVE  NewChunk[c] \in Addresses \cup {Null}
    <3>1. CASE c = FreeList
      <4>1. b + 1 \in 1..e
        BY <1>1
      <4> QED BY <1>2, <1>10, <3>1, <4>1
    <3>2. CASE c \in ToSet(F)
      <4>1. PICK m \in 1..A : c = N(b + m)
        BY <1>6, <1>7, <3>2 DEF ToSet
      <4>2. b + m \in b + 1..b + A /\ (b + m # b + A => (b + m) + 1 \in 1..e)
        BY <1>1
      <4> QED BY <1>2, <1>10, <4>1, <4>2
    <3>3. CASE c # FreeList /\ c \notin ToSet(F)
      BY <1>4, <1>10, <3>3
    <3> QED BY <3>1, <3>2, <3>3
  <2> QED BY <1>10, <2>1
<1>12. FreeList \in Heads
  BY HeadLemma
<1>13. /\ M \in [Heads -> Seq(Addresses)] /\ M[FreeList] = F
       /\ \A h \in Heads \ {FreeList} : M[h] = S[h]
  BY <1>4, <1>6, <1>12 DEF M
<1>14. Linked(NewChunk, FreeList, F)
  <2> SUFFICES ASSUME NEW k \in 0..A
               PROVE  NewChunk[CellAt(FreeList, F, k)] = Succ(F, k)
    BY <1>6 DEF Linked
  <2>1. CASE k = 0
    <3>1. 0 < A /\ 1 \in 1..A /\ 0 + 1 = 1
      BY <1>1
    <3> QED BY <1>6, <1>7, <1>10, <2>1, <3>1 DEF CellAt, Succ
  <2>2. CASE k # 0
    <3>1. /\ k \in 1..A /\ b + k \in b + 1..b + A
          /\ (k < A => k + 1 \in 1..A /\ b + (k + 1) = (b + k) + 1)
          /\ (b + k = b + A <=> ~(k < A))
      BY <1>1, <2>2
    <3>2. CellAt(FreeList, F, k) = F[k] /\ Len(F) = A /\ k # 0
      BY <1>6, <2>2 DEF CellAt
    <3>3. CASE k < A
      <4>1. Succ(F, k) = F[k + 1]
        BY <3>2, <3>3 DEF Succ
      <4>2. F[k] = N(b + k) /\ F[k + 1] = N((b + k) + 1)
        BY <1>7, <3>1, <3>3
      <4>3. NewChunk[N(b + k)] = N((b + k) + 1)
        BY ONLY <1>10, <3>1, <3>3
      <4> QED BY ONLY <3>2, <4>1, <4>2, <4>3
    <3>4. CASE ~(k < A)
      <4>1. Succ(F, k) = Null
        BY <3>2, <3>4 DEF Succ
      <4>2. F[k] = N(b + k)
        BY <1>7, <3>1
      <4>3. NewChunk[N(b + k)] = Null
        BY ONLY <1>10, <3>1, <3>4
      <4> QED BY ONLY <3>2, <4>1, <4>2, <4>3
    <3> QED BY <3>3, <3>4
  <2> QED BY <2>1, <2>2
<1>15. S[FreeList] = <<>>
  <2>1. 0 \in 0..Len(S[FreeList]) /\ 0 + 1 = 1 /\ Len(S[FreeList]) \in Nat
    BY <1>12, CellLemma
  <2>2. Succ(S[FreeList], 0) = Null
    BY <1>12, <2>1, CellLemma DEF CellAt
  <2>3. ~(0 < Len(S[FreeList]))
    <3>1. 0 < Len(S[FreeList]) => 1 \in 1..Len(S[FreeList])
      BY <2>1
    <3>2. 0 < Len(S[FreeList]) => S[FreeList][1] # Null
      BY <1>12, <3>1, CellLemma
    <3> QED BY <2>1, <2>2, <3>2 DEF Succ
  <2>4. Len(S[FreeList]) = 0 /\ S[FreeList] \in Seq(Addresses)
    BY <1>4, <1>12, <2>1, <2>3
  <2> QED BY <2>4
<1>16. ToSet(S[FreeList]) = {}
  BY <1>15 DEF ToSet
<1>17. ASSUME NEW h \in Heads, h # FreeList
       PROVE  Linked(NewChunk, h, S[h]) /\ ToSet(S[h]) \cap ToSet(F) = {}
  <2>1. ToSet(S[h]) \subseteq Allocated(chunks)
    BY <1>4
  <2>2. ToSet(S[h]) \cap ToSet(F) = {}
    BY <1>9, <2>1
  <2>3. ASSUME NEW n \in 0..Len(S[h])
        PROVE  NewChunk[CellAt(h, S[h], n)] = link[CellAt(h, S[h], n)]
    <3>1. h \notin Addresses /\ ToSet(F) \subseteq Addresses /\ FreeList \notin Addresses
      <4>1. ToSet(F) \subseteq Addresses
        BY <1>6, <1>8, SeqLemma
      <4> QED BY <4>1, HeadLemma
    <3>2. n # 0 => S[h][n] \in ToSet(S[h]) /\ S[h][n] \in Addresses
      <4>1. n # 0 => n \in 1..Len(S[h])
        OBVIOUS
      <4> QED BY <4>1, CellLemma
    <3>3. CellAt(h, S[h], n) # FreeList /\ CellAt(h, S[h], n) \notin ToSet(F)
      BY <1>17, <2>2, <3>1, <3>2 DEF CellAt
    <3>4. CellAt(h, S[h], n) \in Cells
      BY CellLemma
    <3> QED BY <1>10, <3>3, <3>4
  <2>4. Linked(link, h, S[h])
    BY CellLemma
  <2>5. Linked(NewChunk, h, S[h])
    BY <2>3, <2>4, FrameLemma
  <2> QED BY <2>2, <2>5
<1>18. \A h \in Heads : IsInjective(M[h]) /\ Linked(NewChunk, h, M[h])
  <2>1. \A h \in Heads : IsInjective(S[h])
    BY CellLemma
  <2> QED BY <1>8, <1>13, <1>14, <1>17, <2>1
<1>19. \A g, h \in Heads : g # h => ToSet(M[g]) \cap ToSet(M[h]) = {}
  BY <1>4, <1>13, <1>17
<1>20. UNION {ToSet(M[h]) : h \in Heads} = Allocated(chunks + 1)
  <2>1. Allocated(chunks) \subseteq Allocated(chunks + 1)
    <3>1. \A n \in 1..b : n \in 1..b + A
      BY <1>1
    <3> QED BY <1>2, <3>1
  <2>2. \A h \in Heads : ToSet(M[h]) \subseteq Allocated(chunks + 1)
    BY <1>4, <1>9, <1>13, <2>1
  <2>3. \A x \in Allocated(chunks) : \E h \in Heads : x \in ToSet(M[h])
    BY <1>4, <1>13, <1>16
  <2>4. \A x \in Allocated(chunks + 1) : \E h \in Heads : x \in ToSet(M[h])
    BY <1>9, <1>12, <1>13, <2>3
  <2> HIDE DEF F
  <2> QED BY <2>2, <2>4
<1>21. Chains(NewChunk, M, chunks + 1)
  BY <1>11, <1>13, <1>18, <1>19, <1>20 DEF Chains
<1> QED BY <1>21 DEF M, F

(***************************************************************************)
(* What Chain and hash_key_string, which are recursive, compute.           *)
(***************************************************************************)
LEMMA ShortEnough ==
  ASSUME HashConstants, NEW s \in Seq(Addresses), IsInjective(s)
  PROVE  Len(s) <= MaxChunks * HASH_ALLOC
<1> DEFINE e == MaxChunks * HASH_ALLOC
           f == [k \in 1..Len(s) |-> s[k][2]]
<1>1. e \in Nat
  <2>1. MaxChunks \in Nat
    BY Zenon DEF HashConstants
  <2> QED BY <2>1, ChunkLemma
<1>2. Addresses = {<<"node", n>> : n \in 1..e}
  BY DEF Addresses, Allocated
<1> HIDE DEF e
<1>3. /\ Len(s) \in Nat /\ \A k \in 1..Len(s) : s[k] \in Addresses
      /\ \A k, n \in 1..Len(s) : s[k] = s[n] => k = n
  BY SeqLemma
<1>4. \A k \in 1..Len(s) : s[k] = <<"node", f[k]>> /\ f[k] \in 1..e
  BY <1>2, <1>3
<1>5. \A k, n \in 1..Len(s) : f[k] = f[n] => k = n
  BY <1>3, <1>4
<1>6. f \in [1..Len(s) -> 1..e]
  BY <1>4
<1>7. f \in Injection(1..Len(s), 1..e)
  <2> HIDE DEF f
  <2> QED BY <1>5, <1>6 DEF Injection, IsInjective
<1>8. /\ IsFiniteSet(1..e)
      /\ \A n \in Nat : Cardinality(1..n) = n
  <2>1. \A n \in Nat : Cardinality(1..n) = n
    BY FS_Interval
  <2>2. IsFiniteSet(1..e)
    BY <1>1, FS_Interval
  <2> QED BY <2>1, <2>2
<1>9. Cardinality(1..Len(s)) <= Cardinality(1..e)
  BY <1>7, <1>8, FS_Injection
<1> QED BY <1>1, <1>3, <1>8, <1>9 DEF e

LEMMA WalkLemma ==
  ASSUME HashConstants, NEW S, NEW C, Chains(link, S, C), NEW h \in Heads
  PROVE  /\ DOMAIN Walk(h) = 0..MaxChunks * HASH_ALLOC + 1
         /\ \A n \in 1..MaxChunks * HASH_ALLOC + 1 :
              Walk(h)[n] = IF n <= Len(S[h]) THEN S[h][n] ELSE Null
<1> DEFINE c == MaxChunks * HASH_ALLOC + 1
           to == [x \in DOMAIN link \cup {Null} |-> IF x = Null THEN Null ELSE link[x]]
           F(w) == [n \in 0..c |-> IF n = 0 THEN h ELSE to[w[n - 1]]]
           s == S[h]
           Node(n) == IF n = 0 THEN h ELSE IF n <= Len(s) THEN s[n] ELSE Null
           g == [n \in 0..c |-> Node(n)]
           w == CHOOSE v : v = F(v)
<1>1. Walk(h) = w
  BY DEF Walk
<1>2. c \in Nat
  <2>1. MaxChunks \in Nat
    BY Zenon DEF HashConstants
  <2> QED BY <2>1, ChunkLemma
<1>3. /\ Len(s) \in Nat /\ \A k \in 0..Len(s) : CellAt(h, s, k) \in Cells
      /\ \A k \in 0..Len(s) : link[CellAt(h, s, k)] = Succ(s, k)
      /\ DOMAIN link = Cells /\ Null \notin Cells
  <2>1. DOMAIN link = Cells
    BY DEF Chains
  <2> QED BY <2>1, CellLemma, HeadLemma
<1> HIDE DEF s, c
<1>4. \A n \in 1..c : Node(n) = to[Node(n - 1)]
  <2> TAKE n \in 1..c
  <2>1. (n - 1) + 1 = n /\ n \in Nat /\ n # 0
    BY <1>2
  <2>2. CASE n - 1 <= Len(s)
    <3>1. n - 1 \in 0..Len(s) /\ (n - 1 < Len(s) <=> n <= Len(s))
      BY <1>2, <1>3, <2>2
    <3>2. Node(n - 1) = CellAt(h, s, n - 1)
      BY <2>2 DEF CellAt
    <3>3. Node(n) = Succ(s, n - 1)
      BY <2>1, <3>1 DEF Succ
    <3>4. CellAt(h, s, n - 1) \in DOMAIN link /\ CellAt(h, s, n - 1) # Null
      BY <1>3, <3>1
    <3> HIDE DEF Node
    <3> QED BY <1>3, <3>1, <3>2, <3>3, <3>4
  <2>3. CASE ~(n - 1 <= Len(s))
    <3>1. ~(n <= Len(s)) /\ n - 1 # 0
      BY <1>2, <1>3, <2>3
    <3>2. Node(n) = Null /\ Node(n - 1) = Null
      BY <2>1, <2>3, <3>1
    <3> HIDE DEF Node
    <3> QED BY <3>2
  <2> QED BY <2>2, <2>3
<1>5. Node(0) = h
  OBVIOUS
<1> HIDE DEF Node, to
<1>6. g = F(g)
  <2>1. \A n \in 0..c : n # 0 => n \in 1..c /\ n - 1 \in 0..c
    BY <1>2
  <2>2. \A n \in 0..c : n # 0 => g[n - 1] = Node(n - 1)
    BY <2>1
  <2>3. \A n \in 0..c : g[n] = IF n = 0 THEN h ELSE to[g[n - 1]]
    BY <1>4, <1>5, <2>1, <2>2
  <2> QED BY <2>3
<1>7. w = F(w)
  BY <1>6
<1> HIDE DEF w
<1>8. DOMAIN w = 0..c /\ \A n \in 0..c : w[n] = IF n = 0 THEN h ELSE to[w[n - 1]]
  BY <1>7
<1> HIDE DEF F
<1>9. \A n \in 0..c : w[n] = Node(n)
  <2> DEFINE I == {n \in 0..c : w[n] = Node(n)}
  <2>1. 0 \in 0..c /\ \A n \in 1..c : n \in 0..c /\ n # 0
    BY <1>2
  <2>2. 0 \in I
    BY <1>5, <1>8, <2>1
  <2>3. \A n \in 1..c : n - 1 \in I => n \in I
    BY <1>4, <1>8, <2>1
  <2>4. 0..c \subseteq I
    <3> HIDE DEF I
    <3> QED BY <1>2, <2>2, <2>3, UpTo
  <2> QED BY <2>4
<1>10. \A n \in 1..c : n \in 0..c /\ n # 0
  BY <1>2
<1> QED BY <1>1, <1>8, <1>9, <1>10 DEF Node, s, c

LEMMA ChainLemma ==
  ASSUME HashConstants, NEW S, NEW C, Chains(link, S, C), NEW h \in Heads
  PROVE  Chain(h) = S[h]
<1> DEFINE c == MaxChunks * HASH_ALLOC + 1
           s == S[h]
           w == Walk(h)
           Set == {n \in DOMAIN w \ {0} : w[n] # Null}
<1>1. /\ s \in Seq(Addresses) /\ Len(s) \in Nat /\ \A k \in 1..Len(s) : s[k] # Null
      /\ c \in Nat /\ Len(s) < c
  <2>1. MaxChunks \in Nat
    BY Zenon DEF HashConstants
  <2>2. MaxChunks * HASH_ALLOC \in Nat
    BY <2>1, ChunkLemma
  <2>3. /\ s \in Seq(Addresses) /\ IsInjective(s)
        /\ Len(s) \in Nat /\ \A k \in 1..Len(s) : s[k] # Null
    BY CellLemma
  <2>4. Len(s) <= MaxChunks * HASH_ALLOC
    BY <2>3, ShortEnough
  <2> QED BY <2>2, <2>3, <2>4
<1>2. DOMAIN w = 0..c /\ \A n \in 1..c : w[n] = IF n <= Len(s) THEN s[n] ELSE Null
  BY WalkLemma
<1> HIDE DEF c, w, s
<1>3. Set = 1..Len(s)
  <2>1. \A n \in 0..c : n # 0 => n \in 1..c
    BY <1>1
  <2>2. \A n \in 1..Len(s) : n \in 1..c /\ n \in 0..c /\ n # 0 /\ n <= Len(s)
    BY <1>1
  <2>3. \A n \in 1..c : n <= Len(s) => n \in 1..Len(s)
    BY <1>1
  <2> QED BY <1>1, <1>2, <2>1, <2>2, <2>3
<1>4. Cardinality(Set) = Len(s)
  <2>1. \A n \in Nat : Cardinality(1..n) = n
    BY FS_Interval
  <2> QED BY <1>1, <1>3, <2>1
<1>5. Chain(h) = [n \in 1..Len(s) |-> w[n]]
  BY <1>4 DEF Chain, w
<1>6. \A n \in 1..Len(s) : w[n] = s[n]
  <2>1. \A n \in 1..Len(s) : n \in 1..c /\ n <= Len(s)
    BY <1>1
  <2> QED BY <1>2, <2>1
<1>7. s = [n \in 1..Len(s) |-> s[n]]
  BY <1>1
<1>8. Chain(h) = s
  BY <1>5, <1>6, <1>7
<1> QED BY <1>8 DEF s

LEMMA KeyLemma ==
  ASSUME HashConstants, NEW k \in Keys
  PROVE  hash_key_string(k) \in Nat
<1> DEFINE N == Len(k)
           F(f) == [n \in 0..N |-> IF n = 0 THEN 0
                                   ELSE (f[n - 1] + 31 * f[n - 1] + k[n]) % Word]
           Upto(n, f) == /\ f = [j \in 0..n |-> f[j]] /\ f[0] = 0
                         /\ \A j \in 1..n : f[j] = (f[j - 1] + 31 * f[j - 1] + k[j]) % Word
           T == {n \in 0..N : \E f : Upto(n, f)}
           w == CHOOSE v : v = F(v)
<1>1. hash_key_string(k) = w[N]
  BY DEF hash_key_string
<1>2. N \in Nat /\ (\A n \in 1..N : k[n] \in 1..127) /\ Word \in Nat \ {0}
  <2>1. k \in Seq(1..127)
    BY Zenon DEF HashConstants
  <2>2. Word \in Nat \ {0}
    BY Zenon DEF HashConstants
  <2>3. \A A : \A s \in Seq(A) : Len(s) \in Nat /\ \A n \in 1..Len(s) : s[n] \in A
    OBVIOUS
  <2> QED BY <2>1, <2>2, <2>3
<1> HIDE DEF N
<1>3. 0 \in T
  <2>1. Upto(0, [j \in 0..0 |-> 0])
    OBVIOUS
  <2>2. 0 \in 0..N
    BY <1>2
  <2> QED BY <2>1, <2>2
<1>4. ASSUME NEW m \in 1..N, m - 1 \in T
      PROVE  m \in T
  <2>1. PICK f : Upto(m - 1, f)
    BY <1>4
  <2> DEFINE v == (f[m - 1] + 31 * f[m - 1] + k[m]) % Word
             g == [j \in 0..m |-> IF j = m THEN v ELSE f[j]]
  <2>2. \A j \in 0..m - 1 : j # m /\ j \in 0..m
    BY <1>2
  <2>3. \A j \in 1..m : j - 1 \in 0..m - 1 /\ (j # m => j \in 1..m - 1 /\ j \in 0..m - 1)
    BY <1>2
  <2>4. \A j \in 0..m - 1 : g[j] = f[j]
    BY <2>2
  <2>5. 0 \in 0..m - 1 /\ m \in 0..m /\ m \in 0..N
    BY <1>2
  <2>6. g[0] = 0
    BY <2>1, <2>4, <2>5
  <2>7. g[m] = v /\ g = [j \in 0..m |-> g[j]]
    BY <2>5
  <2> HIDE DEF g
  <2>8. ASSUME NEW j \in 1..m
        PROVE  g[j] = (g[j - 1] + 31 * g[j - 1] + k[j]) % Word
    <3>1. g[j - 1] = f[j - 1]
      BY <2>3, <2>4
    <3>2. CASE j = m
      BY <2>7, <3>1, <3>2
    <3>3. CASE j # m
      BY <2>1, <2>3, <2>4, <3>1, <3>3
    <3> QED BY <3>2, <3>3
  <2>9. Upto(m, g)
    BY <2>6, <2>7, <2>8
  <2> QED BY <2>5, <2>9
<1>5. N \in T
  <2>1. 0..N \subseteq T
    <3> HIDE DEF T
    <3> QED BY <1>2, <1>3, <1>4, UpTo
  <2> QED BY <1>2, <2>1
<1>6. PICK f : Upto(N, f)
  BY <1>5
<1>7. f = F(f)
  <2>1. \A n \in 0..N : n # 0 => n \in 1..N
    BY <1>2
  <2>2. \A n \in 0..N : f[n] = IF n = 0 THEN 0
                               ELSE (f[n - 1] + 31 * f[n - 1] + k[n]) % Word
    BY <1>6, <2>1
  <2> QED BY <1>6, <2>2
<1>8. w = F(w)
  BY <1>7
<1> HIDE DEF w
<1>9. /\ w[0] = 0
      /\ \A n \in 1..N : w[n] = (w[n - 1] + 31 * w[n - 1] + k[n]) % Word
  <2>1. 0 \in 0..N /\ \A n \in 1..N : n \in 0..N /\ n # 0
    BY <1>2
  <2> QED BY <1>8, <2>1
<1>10. w[N] \in Nat
  <2> DEFINE I == {n \in 0..N : w[n] \in Nat}
  <2>1. 0 \in I
    BY <1>2, <1>9
  <2>2. ASSUME NEW n \in 1..N, n - 1 \in I
        PROVE  n \in I
    <3>1. n \in 0..N /\ w[n - 1] \in Nat /\ k[n] \in Nat
      BY <1>2, <2>2
    <3>2. w[n - 1] + 31 * w[n - 1] + k[n] \in Int
      BY <3>1
    <3>3. \A x \in Int : x % Word \in Nat
      BY <1>2
    <3> QED BY <1>9, <3>1, <3>2, <3>3
  <2>3. 0..N \subseteq I
    <3> HIDE DEF I
    <3> QED BY <1>2, <2>1, <2>2, UpTo
  <2> QED BY <1>2, <2>3
<1> QED BY <1>1, <1>10 DEF N

LEMMA SlotLemma ==
  ASSUME HashConstants, NEW t \in Tables, NEW k \in Keys
  PROVE  Slot(t, k) \in Slots(t)
<1>1. hash_key_string(k) \in Nat /\ Size \in Nat \ {0}
  BY KeyLemma, Zenon DEF HashConstants
<1>2. hash_key_string(k) % Size \in 0..Size - 1
  BY <1>1
<1> QED BY <1>2 DEF Slot, Slots

(***************************************************************************)
(* The invariant.  Each chain of a table holds the nodes whose keys belong *)
(* to its slot, one for a key; the count is their number until the table   *)
(* is being destroyed; and a loop has left behind it no node that it is to *)
(* free.                                                                   *)
(***************************************************************************)
In(S, t) == UNION {ToSet(S[c]) : c \in Slots(t)}

Keyed(S, t) ==
  \A c \in Slots(t) :
    /\ \A p \in ToSet(S[c]) : hkey[p] \in Keys /\ Slot(t, hkey[p]) = c
    /\ \A p, q \in ToSet(S[c]) : hkey[p] = hkey[q] => p = q

Counted(S, t) ==
  /\ call[t] # "destroy" => items[t] = Cardinality(In(S, t))
  /\ t \notin live => In(S, t) = {} /\ call[t] = "none"

Stands(S, t) ==
  LET c == <<t, i[t]>>
  IN  /\ \A n \in 0..i[t] - 1 : \A p \in ToSet(S[<<t, n>>]) : hkey[p] \notin arg[t]
      /\ \E k \in 0..Len(S[c]) : /\ pp[t] = CellAt(c, S[c], k)
                                 /\ \A n \in 1..k : hkey[S[c][n]] \notin arg[t]

Looping(S, t) ==
  /\ call[t] = "none" => arg[t] = {}
  /\ call[t] = "destroy" => arg[t] = Keys
  /\ call[t] # "none" => Stands(S, t)

Table(S, t) == Keyed(S, t) /\ Counted(S, t) /\ Looping(S, t)

Typed ==
  /\ live \subseteq Tables
  /\ hkey \in [Addresses -> Keys \cup {Null}]
  /\ data \in [Addresses -> Items \cup {Null}]
  /\ items \in [Tables -> Int] /\ chunks \in 0..MaxChunks
  /\ call \in [Tables -> {"none", "delete_if", "destroy"}]
  /\ arg \in [Tables -> SUBSET Keys]
  /\ i \in [Tables -> 0..Size - 1] /\ pp \in [Tables -> Cells]

Good(S) == Chains(link, S, chunks) /\ \A t \in Tables : Table(S, t)

Inv == Typed /\ \E S : Good(S)

LEMMA AddressesFinite ==
  ASSUME HashConstants
  PROVE  IsFiniteSet(Addresses)
<1> DEFINE e == MaxChunks * HASH_ALLOC
           f == [n \in 1..e |-> <<"node", n>>]
<1>1. Addresses = {<<"node", n>> : n \in 1..e}
  BY DEF Addresses, Allocated
<1>2. IsFiniteSet(1..e)
  <2>1. MaxChunks \in Nat
    BY Zenon DEF HashConstants
  <2>2. e \in Nat
    BY <2>1, ChunkLemma
  <2> HIDE DEF e
  <2> QED BY <2>2, FS_Interval
<1> HIDE DEF e
<1>3. f \in Surjection(1..e, Addresses)
  <2>1. f \in [1..e -> Addresses] /\ \A a \in Addresses : \E n \in 1..e : f[n] = a
    BY <1>1
  <2> HIDE DEF f
  <2> QED BY <2>1 DEF Surjection
<1> HIDE DEF f
<1> QED BY <1>2, <1>3, FS_Surjection

LEMMA InLemma ==
  ASSUME HashConstants, NEW l, NEW S, NEW C, Chains(l, S, C)
  PROVE  /\ \A t \in Tables : In(S, t) \subseteq Addresses /\ IsFiniteSet(In(S, t))
         /\ \A t \in Tables : Cardinality(In(S, t)) \in Nat
         /\ \A t \in Tables : \A p \in In(S, t) : \E c \in Slots(t) : p \in ToSet(S[c])
         /\ \A t, u \in Tables : t # u => In(S, t) \cap In(S, u) = {}
<1>1. \A h \in Heads : ToSet(S[h]) \subseteq Addresses
  BY CellLemma
<1>2. \A t \in Tables : \A p \in In(S, t) : \E c \in Slots(t) : p \in ToSet(S[c])
  BY Zenon DEF In
<1>3. \A t \in Tables : In(S, t) \subseteq Addresses
  BY <1>1, <1>2, HeadLemma
<1>4. \A t \in Tables : IsFiniteSet(In(S, t))
  BY <1>3, AddressesFinite, FS_Subset
<1>5. \A t \in Tables : Cardinality(In(S, t)) \in Nat
  BY <1>4, FS_CardinalityType
<1>6. ASSUME NEW t \in Tables, NEW u \in Tables, t # u
      PROVE  In(S, t) \cap In(S, u) = {}
  <2>1. ASSUME NEW p, p \in In(S, t), p \in In(S, u)
        PROVE  FALSE
    <3>1. PICK c \in Slots(t) : p \in ToSet(S[c])
      BY <1>2, <2>1
    <3>2. PICK d \in Slots(u) : p \in ToSet(S[d])
      BY <1>2, <2>1
    <3>3. c \in Heads /\ d \in Heads /\ c # d
      BY <1>6, HeadLemma
    <3> QED BY <3>1, <3>2, <3>3 DEF Chains
  <2> QED BY <2>1
<1> QED BY <1>2, <1>3, <1>4, <1>5, <1>6

(* What a step that concerns neither a table nor its nodes leaves as it is. *)
LEMMA TableFrame ==
  ASSUME HashConstants, NEW t \in Tables, NEW l, NEW S, NEW C, Chains(l, S, C),
         i[t] \in 0..Size - 1, Table(S, t),
         NEW M, \A c \in Slots(t) : M[c] = S[c],
         \A p \in In(S, t) : hkey'[p] = hkey[p],
         items'[t] = items[t], call'[t] = call[t], arg'[t] = arg[t],
         i'[t] = i[t], pp'[t] = pp[t], t \in live => t \in live'
  PROVE  Table(M, t)' /\ In(M, t) = In(S, t)
<1>1. In(M, t) = In(S, t)
  BY DEF In
<1>2. \A c \in Slots(t) : ToSet(S[c]) \subseteq In(S, t) /\ M[c] = S[c]
  BY DEF In
<1>3. Keyed(M, t)'
  <2>1. Keyed(S, t)
    BY DEF Table
  <2>2. \A c \in Slots(t) : \A p \in ToSet(S[c]) : hkey'[p] = hkey[p]
    BY <1>2
  <2> QED BY <1>2, <2>1, <2>2 DEF Keyed, Slot
<1>4. Counted(M, t)'
  BY <1>1 DEF Table, Counted
<1>5. Looping(M, t)'
  <2>1. Looping(S, t)
    BY DEF Table
  <2>2. ASSUME call[t] # "none"
        PROVE  Stands(M, t)'
    <3>1. Stands(S, t)
      BY <2>1, <2>2 DEF Looping
    <3>2. /\ <<t, i[t]>> \in Slots(t)
          /\ \A n \in 0..i[t] - 1 : <<t, n>> \in Slots(t)
      <4>1. \A n \in 0..i[t] - 1 : n \in 0..Size - 1
        <5>1. Size \in Nat
          BY Zenon DEF HashConstants
        <5> QED BY <5>1
      <4> QED BY <4>1, HeadLemma
    <3>3. \A n \in 1..Len(S[<<t, i[t]>>]) : S[<<t, i[t]>>][n] \in In(S, t)
      <4>1. <<t, i[t]>> \in Heads
        BY <3>2, HeadLemma
      <4> QED BY <1>2, <3>2, <4>1, CellLemma
    <3>4. Len(S[<<t, i[t]>>]) \in Nat
      BY <3>2, HeadLemma, CellLemma
    <3> DEFINE c == <<t, i[t]>>
    <3>5. /\ i'[t] = i[t] /\ M[c] = S[c] /\ arg'[t] = arg[t] /\ pp'[t] = pp[t]
          /\ \A n \in 0..i[t] - 1 : \A p \in ToSet(M[<<t, n>>]) : hkey'[p] \notin arg[t]
      BY <1>2, <3>1, <3>2 DEF Stands
    <3>6. PICK k \in 0..Len(S[c]) : /\ pp[t] = CellAt(c, S[c], k)
                                    /\ \A n \in 1..k : hkey[S[c][n]] \notin arg[t]
      BY <3>1 DEF Stands
    <3>7. \A n \in 1..k : hkey'[S[c][n]] \notin arg[t]
      <4>1. \A n \in 1..k : n \in 1..Len(S[c])
        BY <3>4
      <4> QED BY <3>3, <3>6, <4>1
    <3> HIDE DEF c
    <3> QED BY <3>5, <3>6, <3>7 DEF Stands, c
  <2> QED BY <2>1, <2>2 DEF Looping
<1> QED BY <1>1, <1>3, <1>4, <1>5 DEF Table

(* What hash_find and hash_remove look for. *)
LEMMA LookupLemma ==
  ASSUME HashConstants, NEW S, NEW C, Chains(link, S, C), NEW t \in Tables, NEW k \in Keys
  PROVE  LET s == S[Slot(t, k)]
             n == Lookup(t, k)
         IN  /\ Chain(Slot(t, k)) = s
             /\ n = 0 => \A m \in 1..Len(s) : hkey[s[m]] # k
             /\ n # 0 => n \in 1..Len(s) /\ hkey[s[n]] = k
<1> DEFINE s == S[Slot(t, k)]
           I == {m \in 1..Len(s) : hkey[s[m]] = k}
<1>1. Slot(t, k) \in Heads
  BY SlotLemma, HeadLemma
<1>2. Chain(Slot(t, k)) = s /\ Len(s) \in Nat
  BY <1>1, ChainLemma, CellLemma
<1> HIDE DEF s
<1>3. Lookup(t, k) = IF I # {} THEN Min(I) ELSE 0
  BY <1>2 DEF Lookup, SelectInSeq
<1>4. I \subseteq Nat /\ 0 \notin I
  BY <1>2
<1>5. I # {} => Min(I) \in I
  <2> HIDE DEF I
  <2> QED BY <1>4, LeastLemma DEF Min
<1> QED BY <1>2, <1>3, <1>4, <1>5 DEF s

(***************************************************************************)
(* A node that leaves a table, and one that joins it.                      *)
(***************************************************************************)
Took(S, M, t, p) ==
  /\ Chains(link', M, chunks')
  /\ p \in In(S, t) /\ In(M, t) = In(S, t) \ {p}
  /\ hkey' = [hkey EXCEPT ![p] = Null] /\ data' = [data EXCEPT ![p] = Null]
  /\ \A u \in Tables \ {t} : p \notin In(S, u) /\ \A c \in Slots(u) : M[c] = S[c]
  /\ Keyed(M, t)'

LEMMA TakeLemma ==
  ASSUME HashConstants, Typed, NEW S, Good(S), NEW t \in Tables, NEW g \in Slots(t),
         NEW k \in 0..Len(S[g]) - 1,
         link' = FreeNode(link, CellAt(g, S[g], k), S[g][k + 1]),
         Forget(S[g][k + 1]), chunks' = chunks
  PROVE  /\ Took(S, Moved(S, g, k, FreeList), t, S[g][k + 1])
         /\ link[CellAt(g, S[g], k)] = S[g][k + 1] /\ S[g][k + 1] # Null
<1> DEFINE p == S[g][k + 1]
           M == Moved(S, g, k, FreeList)
<1>1. /\ g \in Heads /\ FreeList \in Heads /\ g # FreeList
      /\ Slots(t) \subseteq Heads /\ FreeList \notin Slots(t)
      /\ \A u \in Tables \ {t} : Slots(u) \subseteq Heads \ {g, FreeList}
  BY HeadLemma
<1>2. Chains(link, S, chunks) /\ Keyed(S, t)
  BY DEF Good, Table
<1>3. IsMoved(S, M, p, g, k, FreeList)
  BY <1>1, <1>2, MovedLemma
<1>4. Chains(link', M, chunks') /\ link[CellAt(g, S[g], k)] = p
  <2> DEFINE e == [link EXCEPT ![CellAt(g, S[g], k)] = link[p]]
  <2>1. /\ link[CellAt(g, S[g], k)] = p
        /\ Chains([e EXCEPT ![p] = e[FreeList], ![FreeList] = p], M, chunks)
    BY <1>1, <1>2, MoveLemma
  <2>2. link' = [e EXCEPT ![p] = e[FreeList], ![FreeList] = p]
    BY DEF FreeNode, hash_node_free
  <2> QED BY <2>1, <2>2
<1> HIDE DEF p, M
<1>5. /\ p \in Addresses /\ p \in ToSet(S[g]) /\ p # Null
      /\ \A f \in Heads \ {g, FreeList} : M[f] = S[f] /\ p \notin ToSet(S[f])
      /\ \A f \in Heads : \A x :
           x \in ToSet(M[f]) <=> IF x = p THEN f = FreeList ELSE x \in ToSet(S[f])
  BY <1>3 DEF IsMoved
<1>6. \A c \in Slots(t) : ToSet(M[c]) = ToSet(S[c]) \ {p}
  BY <1>1, <1>5
<1>7. \A u \in Tables \ {t} : \A c \in Slots(u) : M[c] = S[c] /\ p \notin ToSet(S[c])
  BY <1>1, <1>5
<1>8. \A u \in Tables \ {t} : p \notin In(S, u)
  BY <1>2, <1>7, InLemma
<1>9. p \in In(S, t)
  BY <1>5 DEF In
<1>10. In(M, t) = In(S, t) \ {p}
  <2>1. \A x : x \in In(M, t) <=> \E f \in Slots(t) : x \in ToSet(M[f])
    BY Zenon DEF In
  <2>2. \A x : x \in In(S, t) <=> \E f \in Slots(t) : x \in ToSet(S[f])
    BY Zenon DEF In
  <2>3. \A f \in Slots(t) : \A x : x \in ToSet(M[f]) <=> x \in ToSet(S[f]) /\ x # p
    BY <1>6
  <2> QED BY <2>1, <2>2, <2>3
<1>11. hkey' = [hkey EXCEPT ![p] = Null] /\ data' = [data EXCEPT ![p] = Null]
  BY DEF Forget, p
<1>12. \A x \in Addresses : x # p => hkey'[x] = hkey[x]
  BY <1>11 DEF Typed
<1>13. \A c \in Slots(t) : ToSet(S[c]) \subseteq Addresses
  BY <1>1, <1>2, CellLemma
<1>14. \A c \in Slots(t) : \A x \in ToSet(M[c]) : x \in ToSet(S[c]) /\ hkey'[x] = hkey[x]
  BY <1>6, <1>12, <1>13
<1>15. Keyed(M, t)'
  BY <1>2, <1>14 DEF Keyed, Slot
<1>16. Took(S, M, t, p)
  BY <1>4, <1>7, <1>8, <1>9, <1>10, <1>11, <1>15 DEF Took
<1> QED BY <1>4, <1>5, <1>16 DEF p, M

Joined(S, M, t, k, d, p) ==
  /\ Chains(link', M, chunks') /\ chunks' \in 0..MaxChunks
  /\ p \in Addresses /\ p \notin In(S, t) /\ In(M, t) = In(S, t) \cup {p}
  /\ hkey' = [hkey EXCEPT ![p] = k] /\ data' = [data EXCEPT ![p] = d]
  /\ \A u \in Tables \ {t} : p \notin In(S, u) /\ \A c \in Slots(u) : M[c] = S[c]
  /\ \A q \in In(S, t) : hkey[q] # k
  /\ Keyed(M, t)'

(* The free list, filled when it is empty and there is memory.             *)
LEMMA RefillLemma ==
  ASSUME HashConstants, Typed, NEW S, Chains(link, S, chunks), NEW r \in Refilled
  PROVE  \E T : /\ Chains(r[1], T, r[2]) /\ r[2] \in 0..MaxChunks
                /\ \A h \in Heads \ {FreeList} : T[h] = S[h]
<1>1. chunks \in 0..MaxChunks /\ MaxChunks \in Nat
  BY Zenon DEF Typed, HashConstants
<1>2. CASE r = <<link, chunks>>
  BY <1>1, <1>2
<1>3. CASE r # <<link, chunks>>
  <2> DEFINE T == [S EXCEPT ![FreeList] = FreshNodes]
  <2>1. link[FreeList] = Null /\ chunks < MaxChunks /\ r = <<NewChunk, chunks + 1>>
    BY <1>3 DEF Refilled
  <2>2. chunks \in Nat
    BY <1>1
  <2>3. Chains(NewChunk, T, chunks + 1)
    BY <2>1, <2>2, NewChunkLemma
  <2>4. chunks + 1 \in 0..MaxChunks
    BY <1>1, <2>1
  <2>5. \A h \in Heads \ {FreeList} : T[h] = S[h]
    BY DEF Chains
  <2> HIDE DEF T
  <2>6. Chains(r[1], T, r[2]) /\ r[2] \in 0..MaxChunks
    BY <2>1, <2>3, <2>4
  <2> QED BY <2>5, <2>6
<1> QED BY <1>2, <1>3

LEMMA JoinLemma ==
  ASSUME HashConstants, Typed, NEW S, Good(S), NEW t \in Tables, NEW k \in Keys, NEW d,
         Lookup(t, k) = 0, NEW r \in Refilled, NEW p, p = r[1][FreeList], p # Null,
         link' = [r[1] EXCEPT ![FreeList] = r[1][p],
                              ![p] = r[1][Slot(t, k)], ![Slot(t, k)] = p],
         hkey' = [hkey EXCEPT ![p] = k], data' = [data EXCEPT ![p] = d], chunks' = r[2]
  PROVE  \E M : Joined(S, M, t, k, d, p)
<1> DEFINE c == Slot(t, k)
           l == r[1]
<1>1. /\ c \in Slots(t) /\ c \in Heads /\ FreeList \in Heads /\ FreeList # c
      /\ Slots(t) \subseteq Heads \ {FreeList}
      /\ \A u \in Tables \ {t} : Slots(u) \subseteq Heads \ {c, FreeList}
  BY SlotLemma, HeadLemma
<1>2. Chains(link, S, chunks) /\ Keyed(S, t)
  BY DEF Good, Table
<1>3. PICK T : /\ Chains(l, T, r[2]) /\ r[2] \in 0..MaxChunks
               /\ \A h \in Heads \ {FreeList} : T[h] = S[h]
  BY <1>2, RefillLemma
<1> DEFINE s == T[FreeList]
           M == Moved(T, FreeList, 0, c)
<1>4. Len(s) \in Nat /\ 0 \in 0..Len(s) - 1 /\ p = s[0 + 1] /\ CellAt(FreeList, s, 0) = FreeList
  <2>1. Len(s) \in Nat /\ \A n \in 0..Len(s) : l[CellAt(FreeList, s, n)] = Succ(s, n)
    BY <1>1, <1>3, CellLemma
  <2>2. 0 \in 0..Len(s)
    BY <2>1
  <2>3. p = Succ(s, 0)
    BY <2>1, <2>2 DEF CellAt
  <2>4. 0 < Len(s)
    BY <2>3 DEF Succ
  <2>5. 0 \in 0..Len(s) - 1
    BY <2>1, <2>4
  <2> QED BY <2>1, <2>3, <2>4, <2>5 DEF Succ, CellAt
<1>5. IsMoved(T, M, p, FreeList, 0, c)
  BY <1>1, <1>3, <1>4, MovedLemma
<1>6. Chains(link', M, chunks')
  <2> DEFINE e == [l EXCEPT ![FreeList] = l[p]]
  <2>1. Chains([e EXCEPT ![p] = e[c], ![c] = p], M, r[2])
    BY <1>1, <1>3, <1>4, MoveLemma
  <2>2. e[c] = l[c]
    <3>1. c \in DOMAIN l
      <4>1. c \in Cells
        BY <1>1, HeadLemma
      <4> QED BY <1>3, <4>1 DEF Chains
    <3> QED BY <1>1, <3>1
  <2>3. link' = [e EXCEPT ![p] = l[c], ![c] = p]
    OBVIOUS
  <2> QED BY <2>1, <2>2, <2>3
<1> HIDE DEF M, s, l, c
<1>7. /\ p \in Addresses
      /\ \A f \in Heads \ {FreeList} : p \notin ToSet(S[f])
      /\ \A f \in Heads \ {c, FreeList} : M[f] = S[f]
      /\ \A f \in Heads \ {FreeList} : \A x :
           x \in ToSet(M[f]) <=> IF x = p THEN f = c ELSE x \in ToSet(S[f])
  BY <1>3, <1>5 DEF IsMoved
<1>8. /\ \A f \in Slots(t) : f # c => ToSet(M[f]) = ToSet(S[f])
      /\ ToSet(M[c]) = ToSet(S[c]) \cup {p}
      /\ \A f \in Slots(t) : p \notin ToSet(S[f])
  BY <1>1, <1>7
<1>9. \A u \in Tables \ {t} : \A f \in Slots(u) : M[f] = S[f] /\ p \notin ToSet(S[f])
  BY <1>1, <1>7
<1>10. \A u \in Tables : p \notin In(S, u)
  BY <1>2, <1>8, <1>9, InLemma
<1>11. In(M, t) = In(S, t) \cup {p}
  <2>1. \A x : x \in In(M, t) <=> \E f \in Slots(t) : x \in ToSet(M[f])
    BY Zenon DEF In
  <2>2. \A x : x \in In(S, t) <=> \E f \in Slots(t) : x \in ToSet(S[f])
    BY Zenon DEF In
  <2> QED BY <1>1, <1>8, <2>1, <2>2
<1>12. \A f \in Slots(t) : \A x \in ToSet(S[f]) : hkey[x] \in Keys /\ Slot(t, hkey[x]) = f
  BY <1>2 DEF Keyed
<1>13. \A x \in ToSet(S[c]) : hkey[x] # k
  <2>1. \A m \in 1..Len(S[c]) : hkey[S[c][m]] # k
    BY <1>2, LookupLemma DEF c
  <2>2. \A x \in ToSet(S[c]) : \E m \in 1..Len(S[c]) : x = S[c][m]
    BY <1>1, <1>2, CellLemma, SeqLemma
  <2> QED BY <2>1, <2>2
<1>14. \A q \in In(S, t) : hkey[q] # k
  <2>1. \A q \in In(S, t) : \E f \in Slots(t) : q \in ToSet(S[f])
    BY <1>2, InLemma
  <2> QED BY <1>12, <1>13, <2>1 DEF c
<1>15. /\ hkey'[p] = k
       /\ \A f \in Slots(t) : \A x \in ToSet(S[f]) : hkey'[x] = hkey[x]
  <2>1. \A f \in Slots(t) : ToSet(S[f]) \subseteq Addresses
    BY <1>1, <1>2, CellLemma
  <2> QED BY <1>7, <1>8, <2>1 DEF Typed
<1>16. ASSUME NEW f \in Slots(t)
       PROVE  /\ \A x \in ToSet(M[f]) : hkey'[x] \in Keys /\ Slot(t, hkey'[x]) = f
              /\ \A x, y \in ToSet(M[f]) : hkey'[x] = hkey'[y] => x = y
  <2>1. \A x, y \in ToSet(S[f]) : hkey[x] = hkey[y] => x = y
    BY <1>2 DEF Keyed
  <2>2. CASE f # c
    BY <1>8, <1>12, <1>15, <2>1, <2>2
  <2>3. CASE f = c
    <3>1. \A x \in ToSet(M[f]) : hkey'[x] \in Keys /\ Slot(t, hkey'[x]) = f
      BY <1>8, <1>12, <1>15, <2>3 DEF c
    <3>2. \A x, y \in ToSet(M[f]) : hkey'[x] = hkey'[y] => x = y
      BY <1>8, <1>13, <1>15, <2>1, <2>3
    <3> QED BY <3>1, <3>2
  <2> QED BY <2>2, <2>3
<1>17. Keyed(M, t)'
  BY <1>16 DEF Keyed, Slot
<1>18. Joined(S, M, t, k, d, p)
  BY <1>3, <1>6, <1>7, <1>9, <1>10, <1>11, <1>14, <1>17 DEF Joined
<1> QED BY <1>18

(***************************************************************************)
(* One action at a time.                                                   *)
(***************************************************************************)
Untouched(S, M, u) ==
  /\ \A c \in Slots(u) : M[c] = S[c]
  /\ \A q \in In(S, u) : hkey'[q] = hkey[q]
  /\ items'[u] = items[u] /\ call'[u] = call[u] /\ arg'[u] = arg[u]
  /\ i'[u] = i[u] /\ pp'[u] = pp[u]
  /\ u \in live => u \in live'

LEMMA OthersLemma ==
  ASSUME HashConstants, Typed, NEW S, Good(S), NEW t, NEW M,
         \A u \in Tables \ {t} : Untouched(S, M, u)
  PROVE  \A u \in Tables \ {t} : Table(M, u)'
<1> SUFFICES ASSUME NEW u \in Tables \ {t}
             PROVE  Table(M, u)'
  OBVIOUS
<1>1. u \in Tables /\ Table(S, u) /\ Chains(link, S, chunks)
  BY DEF Good
<1>2. i[u] \in 0..Size - 1
  BY <1>1 DEF Typed
<1>3. /\ \A c \in Slots(u) : M[c] = S[c]
      /\ \A q \in In(S, u) : hkey'[q] = hkey[q]
      /\ items'[u] = items[u] /\ call'[u] = call[u]
      /\ arg'[u] = arg[u] /\ i'[u] = i[u] /\ pp'[u] = pp[u]
      /\ u \in live => u \in live'
  BY DEF Untouched
<1> QED BY <1>1, <1>2, <1>3, TableFrame

LEMMA SameStep ==
  ASSUME HashConstants, Typed, NEW S, Good(S),
         UNCHANGED <<nodes, loop>>, live \subseteq live', live' \subseteq Tables
  PROVE  Typed' /\ Good(S)'
<1>1. UNCHANGED <<link, hkey, data, items, chunks, call, arg, i, pp>>
  BY DEF nodes, loop
<1>2. Typed'
  BY <1>1 DEF Typed
<1>3. Chains(link, S, chunks)'
  BY <1>1 DEF Good
<1>4. ASSUME NEW u \in Tables
      PROVE  Table(S, u)'
  <2>1. Table(S, u) /\ Chains(link, S, chunks) /\ i[u] \in 0..Size - 1
    BY DEF Good, Typed
  <2>2. u \in live => u \in live'
    OBVIOUS
  <2> QED BY <1>1, <2>1, <2>2, TableFrame
<1> QED BY <1>2, <1>3, <1>4 DEF Good

LEMMA InsertStep ==
  ASSUME HashConstants, Typed, NEW S, Good(S), NEW t \in Tables,
         NEW k \in Keys, NEW d \in Items, hash_insert(t, k, d)
  PROVE  /\ Typed'
         /\ \/ Good(S)' /\ UNCHANGED <<nodes, deleted>> /\ ret' = Null
            \/ \E M, p : /\ Good(M)' /\ Joined(S, M, t, k, d, p)
                         /\ ret' = d /\ deleted' = deleted \ {d}
<1>1. t \in live /\ call[t] = "none" /\ UNCHANGED <<live, loop>>
  BY DEF hash_insert, Calls
<1>2. ASSUME ret' = Null, UNCHANGED <<nodes, deleted>>
      PROVE  Typed' /\ Good(S)'
  <2>1. live \subseteq live' /\ live' \subseteq Tables
    BY <1>1 DEF Typed
  <2>2. UNCHANGED <<nodes, loop>>
    BY <1>1, <1>2
  <2> QED BY <2>1, <2>2, SameStep
<1>3. ASSUME Lookup(t, k) = 0, NEW r \in Refilled, r[1][FreeList] # Null,
             link' = [r[1] EXCEPT ![FreeList] = r[1][r[1][FreeList]],
                                  ![r[1][FreeList]] = r[1][Slot(t, k)],
                                  ![Slot(t, k)] = r[1][FreeList]],
             hkey' = [hkey EXCEPT ![r[1][FreeList]] = k],
             data' = [data EXCEPT ![r[1][FreeList]] = d],
             items' = [items EXCEPT ![t] = @ + 1], chunks' = r[2]
      PROVE  Typed' /\ \E M : Good(M)' /\ Joined(S, M, t, k, d, r[1][FreeList])
  <2> DEFINE p == r[1][FreeList]
  <2>1. PICK M : Joined(S, M, t, k, d, p)
    BY <1>3, JoinLemma
  <2> HIDE DEF p
  <2>2. /\ Chains(link', M, chunks') /\ chunks' \in 0..MaxChunks
        /\ p \in Addresses /\ p \notin In(S, t) /\ In(M, t) = In(S, t) \cup {p}
        /\ hkey' = [hkey EXCEPT ![p] = k] /\ data' = [data EXCEPT ![p] = d]
        /\ \A u \in Tables \ {t} : p \notin In(S, u) /\ \A c \in Slots(u) : M[c] = S[c]
        /\ Keyed(M, t)'
    BY <2>1 DEF Joined
  <2>3. Typed'
    <3>1. items' \in [Tables -> Int]
      BY <1>3 DEF Typed
    <3>2. hkey' \in [Addresses -> Keys \cup {Null}] /\ data' \in [Addresses -> Items \cup {Null}]
      BY <2>2 DEF Typed
    <3> QED BY <1>1, <2>2, <3>1, <3>2 DEF Typed, loop
  <2>4. Chains(link, S, chunks) /\ Table(S, t)
    BY DEF Good
  <2>5. \A u \in Tables \ {t} : Table(M, u)'
    <3>1. \A u \in Tables : \A q \in In(S, u) : q \in Addresses
      BY <2>4, InLemma
    <3>2. \A u \in Tables \ {t} : \A q \in In(S, u) : hkey'[q] = hkey[q]
      BY <2>2, <3>1 DEF Typed
    <3>3. \A u \in Tables \ {t} : items'[u] = items[u]
      BY <1>3 DEF Typed
    <3>4. UNCHANGED <<live, call, arg, i, pp>>
      BY <1>1 DEF loop
    <3>5. \A u \in Tables \ {t} : Untouched(S, M, u)
      BY <2>2, <3>2, <3>3, <3>4 DEF Untouched
    <3> QED BY <3>5, OthersLemma
  <2>6. Counted(M, t)'
    <3>1. items'[t] = items[t] + 1 /\ items[t] = Cardinality(In(S, t))
      BY <1>1, <1>3, <2>4 DEF Typed, Table, Counted
    <3>2. Cardinality(In(M, t)) = Cardinality(In(S, t)) + 1
      BY <2>2, <2>4, InLemma, FS_AddElement
    <3> QED BY <1>1, <3>1, <3>2 DEF Counted, loop
  <2>7. Looping(M, t)'
    BY <1>1, <2>4 DEF Table, Looping, loop
  <2>8. Good(M)'
    BY <2>2, <2>5, <2>6, <2>7 DEF Good, Table
  <2> QED BY <2>1, <2>3, <2>8 DEF p
<1>4. \/ ret' = Null /\ UNCHANGED <<nodes, deleted>>
      \/ /\ Lookup(t, k) = 0
         /\ \E r \in Refilled :
              /\ r[1][FreeList] # Null
              /\ link' = [r[1] EXCEPT ![FreeList] = r[1][r[1][FreeList]],
                                      ![r[1][FreeList]] = r[1][Slot(t, k)],
                                      ![Slot(t, k)] = r[1][FreeList]]
              /\ hkey' = [hkey EXCEPT ![r[1][FreeList]] = k]
              /\ data' = [data EXCEPT ![r[1][FreeList]] = d]
              /\ items' = [items EXCEPT ![t] = @ + 1]
              /\ chunks' = r[2] /\ ret' = d /\ deleted' = deleted \ {d}
  BY DEF hash_insert, Exists
<1>5. CASE ret' = Null /\ UNCHANGED <<nodes, deleted>>
  BY <1>2, <1>5
<1>6. CASE ~(ret' = Null /\ UNCHANGED <<nodes, deleted>>)
  BY <1>3, <1>4, <1>6
<1> QED BY <1>5, <1>6

(* A node taken out of a table, whose count says so unless it is being     *)
(* destroyed.                                                              *)
LEMMA TakeStep ==
  ASSUME HashConstants, Typed, NEW S, Good(S), NEW t \in Tables, t \in live, NEW M, NEW p,
         Took(S, M, t, p), UNCHANGED <<live, loop, chunks>>,
         items' = IF call[t] = "destroy" THEN items ELSE [items EXCEPT ![t] = @ - 1],
         call[t] # "none" => Stands(M, t)'
  PROVE  Typed' /\ Good(M)'
<1>1. /\ Chains(link', M, chunks')
      /\ p \in In(S, t) /\ In(M, t) = In(S, t) \ {p}
      /\ hkey' = [hkey EXCEPT ![p] = Null] /\ data' = [data EXCEPT ![p] = Null]
      /\ \A u \in Tables \ {t} : p \notin In(S, u) /\ \A c \in Slots(u) : M[c] = S[c]
      /\ Keyed(M, t)'
  BY DEF Took
<1>2. /\ Chains(link, S, chunks) /\ Table(S, t)
      /\ UNCHANGED <<live, call, arg, i, pp, chunks>>
  BY DEF Good, loop
<1>3. \A u \in Tables : In(S, u) \subseteq Addresses
  BY <1>2, InLemma
<1>4. Typed'
  <2>1. items' \in [Tables -> Int]
    BY DEF Typed
  <2>2. hkey' \in [Addresses -> Keys \cup {Null}] /\ data' \in [Addresses -> Items \cup {Null}]
    BY <1>1, <1>3 DEF Typed
  <2> QED BY <1>2, <2>1, <2>2 DEF Typed
<1>5. \A u \in Tables \ {t} : Table(M, u)'
  <2>1. \A u \in Tables \ {t} : \A q \in In(S, u) : hkey'[q] = hkey[q]
    BY <1>1, <1>3 DEF Typed
  <2>2. \A u \in Tables \ {t} : items'[u] = items[u]
    BY DEF Typed
  <2>3. \A u \in Tables \ {t} : Untouched(S, M, u)
    BY <1>1, <1>2, <2>1, <2>2 DEF Untouched
  <2> QED BY <2>3, OthersLemma
<1>6. Counted(M, t)'
  <2>1. ASSUME call[t] # "destroy"
        PROVE  items'[t] = Cardinality(In(M, t))
    <3>1. items'[t] = items[t] - 1 /\ items[t] = Cardinality(In(S, t))
      BY <1>2, <2>1 DEF Typed, Table, Counted
    <3>2. Cardinality(In(M, t)) = Cardinality(In(S, t)) - 1
      <4>1. IsFiniteSet(In(S, t))
        BY <1>2, InLemma
      <4> QED BY <1>1, <4>1, FS_RemoveElement
    <3> QED BY <3>1, <3>2
  <2> QED BY <1>2, <2>1 DEF Counted
<1>7. Looping(M, t)'
  BY <1>2 DEF Table, Looping
<1> QED BY <1>1, <1>4, <1>5, <1>6, <1>7 DEF Good, Table

LEMMA RemoveStep ==
  ASSUME HashConstants, Typed, NEW S, Good(S), NEW t \in Tables, NEW k \in Keys,
         hash_remove(t, k)
  PROVE  /\ Typed'
         /\ \/ /\ Good(S)' /\ UNCHANGED nodes
               /\ ret' = Null /\ \A q \in In(S, t) : hkey[q] # k
            \/ \E M, p : /\ Good(M)' /\ Took(S, M, t, p)
                         /\ hkey[p] = k /\ ret' = data[p]
<1> DEFINE g == Slot(t, k)
           s == S[g]
           n == Lookup(t, k)
<1>1. /\ t \in live /\ call[t] = "none" /\ UNCHANGED <<live, loop, deleted>>
      /\ ret' = hash_find(t, k)
  BY DEF hash_remove, Calls
<1>2. Chains(link, S, chunks) /\ Keyed(S, t)
  BY DEF Good, Table
<1>3. g \in Slots(t) /\ g \in Heads
  BY SlotLemma, HeadLemma
<1>4. /\ Chain(g) = s
      /\ n = 0 => \A m \in 1..Len(s) : hkey[s[m]] # k
      /\ n # 0 => n \in 1..Len(s) /\ hkey[s[n]] = k
  BY <1>2, LookupLemma
<1>5. /\ s \in Seq(Addresses) /\ IsInjective(s) /\ Len(s) \in Nat
  BY <1>2, <1>3, CellLemma
<1>6. CASE n = 0
  <2>1. ret' = Null /\ UNCHANGED nodes
    BY <1>1, <1>6 DEF hash_remove, hash_find
  <2>2. Typed' /\ Good(S)'
    <3>1. live \subseteq live' /\ live' \subseteq Tables /\ UNCHANGED <<nodes, loop>>
      BY <1>1, <2>1 DEF Typed
    <3> QED BY <3>1, SameStep
  <2>3. ASSUME NEW q \in In(S, t), hkey[q] = k
        PROVE  FALSE
    <3>1. PICK f \in Slots(t) : q \in ToSet(S[f])
      BY <1>2, InLemma
    <3>2. f = g
      BY <1>2, <2>3, <3>1 DEF Keyed
    <3>3. \A x \in ToSet(s) : \E m \in 1..Len(s) : x = s[m]
      BY <1>5, SeqLemma
    <3> QED BY <1>4, <1>6, <2>3, <3>1, <3>2, <3>3
  <2> QED BY <2>1, <2>2, <2>3
<1>7. CASE n # 0
  <2> DEFINE j == n - 1
             p == s[j + 1]
             cells == <<g>> \o s
  <2>1. n \in 1..Len(s) /\ hkey[s[n]] = k
    BY <1>4, <1>7
  <2> HIDE DEF n
  <2>2. j \in 0..Len(s) - 1 /\ j + 1 = n /\ n \in Nat /\ n # 0
    BY <1>5, <2>1
  <2>3. cells[n] = CellAt(g, s, j) /\ cells[n + 1] = p
    <3>1. /\ \A m \in 1..Len(s) : cells[m + 1] = s[m]
          /\ cells[1] = g
      <4> HIDE DEF g, s
      <4> QED BY <1>5
    <3>2. n = 1 => j = 0
      BY <2>2
    <3>3. n # 1 => j \in 1..Len(s) /\ j # 0
      BY <2>1, <2>2
    <3> HIDE DEF cells, j, s
    <3>4. CASE n = 1
      BY <2>1, <2>2, <3>1, <3>2, <3>4 DEF CellAt
    <3>5. CASE n # 1
      BY <2>1, <2>2, <3>1, <3>3, <3>5 DEF CellAt
    <3> QED BY <3>4, <3>5
  <2>4. /\ link' = FreeNode(link, cells[n], cells[n + 1]) /\ Forget(cells[n + 1])
        /\ items' = [items EXCEPT ![t] = @ - 1] /\ chunks' = chunks
    BY <1>4, <1>7 DEF hash_remove, n
  <2> HIDE DEF cells, j
  <2>5. Took(S, Moved(S, g, j, FreeList), t, p)
    BY <1>3, <2>2, <2>3, <2>4, TakeLemma
  <2>6. hkey[p] = k /\ ret' = data[p]
    <3>1. hash_find(t, k) = data[Chain(g)[n]]
      BY <1>7 DEF hash_find, n
    <3> QED BY <1>1, <1>4, <2>1, <2>2, <3>1
  <2>7. PICK M, q : Took(S, M, t, q) /\ hkey[q] = k /\ ret' = data[q]
    BY <2>5, <2>6
  <2>8. Typed' /\ Good(M)'
    <3>1. /\ UNCHANGED <<live, loop, chunks>>
          /\ items' = IF call[t] = "destroy" THEN items ELSE [items EXCEPT ![t] = @ - 1]
      BY <1>1, <2>4
    <3>2. call[t] # "none" => Stands(M, t)'
      BY <1>1
    <3> QED BY <1>1, <2>7, <3>1, <3>2, TakeStep
  <2> QED BY <2>7, <2>8
<1> QED BY <1>6, <1>7

LEMMA LoopStarts ==
  ASSUME HashConstants, Typed, NEW S, Good(S), NEW t \in Tables,
         NEW f \in {"delete_if", "destroy"}, NEW K \in SUBSET Keys, f = "destroy" => K = Keys,
         Loop(t, f, K)
  PROVE  Typed' /\ Good(S)'
<1>1. /\ t \in live /\ call[t] = "none"
      /\ UNCHANGED <<live, link, hkey, data, items, chunks, deleted>>
      /\ call' = [call EXCEPT ![t] = f] /\ arg' = [arg EXCEPT ![t] = K]
      /\ i' = [i EXCEPT ![t] = 0] /\ pp' = [pp EXCEPT ![t] = <<t, 0>>]
  BY DEF Loop, Calls, nodes
<1>2. Chains(link, S, chunks) /\ Table(S, t)
  BY DEF Good
<1>3. <<t, 0>> \in Slots(t) /\ <<t, 0>> \in Cells /\ <<t, 0>> \in Heads /\ 0 \in 0..Size - 1
  <2>1. 0 \in 0..Size - 1
    <3>1. Size \in Nat \ {0}
      BY Zenon DEF HashConstants
    <3> QED BY <3>1
  <2> QED BY <2>1, HeadLemma
<1>4. Typed'
  <2>1. call' \in [Tables -> {"none", "delete_if", "destroy"}] /\ arg' \in [Tables -> SUBSET Keys]
    BY <1>1 DEF Typed
  <2>2. i' \in [Tables -> 0..Size - 1] /\ pp' \in [Tables -> Cells]
    BY <1>1, <1>3 DEF Typed
  <2> QED BY <1>1, <2>1, <2>2 DEF Typed
<1>5. call'[t] = f /\ arg'[t] = K /\ i'[t] = 0 /\ pp'[t] = <<t, 0>>
  BY <1>1 DEF Typed
<1>6. \A u \in Tables \ {t} : Table(S, u)'
  <2>1. \A u \in Tables \ {t} : Untouched(S, S, u)
    BY <1>1 DEF Untouched, Typed
  <2> QED BY <2>1, OthersLemma
<1>7. Keyed(S, t)' /\ Counted(S, t)'
  BY <1>1, <1>2, <1>5 DEF Table, Keyed, Counted, Slot
<1>8. Stands(S, t)'
  <2>1. 0 \in 0..Len(S[<<t, 0>>]) /\ CellAt(<<t, 0>>, S[<<t, 0>>], 0) = <<t, 0>>
    BY <1>2, <1>3, CellLemma DEF CellAt
  <2> QED BY <1>5, <2>1 DEF Stands
<1>9. Looping(S, t)'
  BY <1>5, <1>8 DEF Looping
<1> QED BY <1>1, <1>2, <1>4, <1>6, <1>7, <1>9 DEF Good, Table

(* Where the loop of a table is. *)
At(S, t, g, k) ==
  /\ t \in live /\ g = <<t, i[t]>> /\ g \in Slots(t) /\ k \in 0..Len(S[g])
  /\ pp[t] = CellAt(g, S[g], k)
  /\ \A n \in 0..i[t] - 1 : <<t, n>> \in Slots(t) /\ <<t, n>> # g
  /\ \A n \in 0..i[t] - 1 : \A p \in ToSet(S[<<t, n>>]) : hkey[p] \notin arg[t]
  /\ \A n \in 1..k : n \in 1..Len(S[g]) /\ hkey[S[g][n]] \notin arg[t]
  /\ link[pp[t]] # Null => k \in 0..Len(S[g]) - 1 /\ link[pp[t]] = S[g][k + 1]
  /\ link[pp[t]] = Null => \A p \in ToSet(S[g]) : hkey[p] \notin arg[t]

LEMMA AtLemma ==
  ASSUME HashConstants, Typed, NEW S, Good(S), NEW t \in Tables, call[t] # "none"
  PROVE  \E g, k : At(S, t, g, k)
<1> DEFINE g == <<t, i[t]>>
<1>1. Chains(link, S, chunks) /\ t \in live /\ Stands(S, t) /\ i[t] \in 0..Size - 1
  BY DEF Good, Table, Counted, Looping, Typed
<1>2. /\ g \in Slots(t) /\ g \in Heads
      /\ \A n \in 0..i[t] - 1 : <<t, n>> \in Slots(t) /\ <<t, n>> # g
  <2>1. Size \in Nat
    BY Zenon DEF HashConstants
  <2>2. \A n \in 0..i[t] - 1 : n \in 0..Size - 1 /\ n # i[t]
    BY <1>1, <2>1
  <2> QED BY <1>1, <2>2, HeadLemma
<1>3. /\ \A n \in 0..i[t] - 1 : \A p \in ToSet(S[<<t, n>>]) : hkey[p] \notin arg[t]
      /\ \E k \in 0..Len(S[g]) : /\ pp[t] = CellAt(g, S[g], k)
                                 /\ \A n \in 1..k : hkey[S[g][n]] \notin arg[t]
  BY <1>1 DEF Stands
<1>4. PICK k \in 0..Len(S[g]) : /\ pp[t] = CellAt(g, S[g], k)
                                /\ \A n \in 1..k : hkey[S[g][n]] \notin arg[t]
  BY <1>3
<1>5. /\ Len(S[g]) \in Nat /\ S[g] \in Seq(Addresses) /\ IsInjective(S[g])
      /\ \A n \in 1..Len(S[g]) : S[g][n] # Null
      /\ link[pp[t]] = Succ(S[g], k)
  BY <1>1, <1>2, <1>4, CellLemma
<1>6. \A p \in ToSet(S[g]) : \E n \in 1..Len(S[g]) : p = S[g][n]
  BY <1>5, SeqLemma
<1> HIDE DEF g
<1>7. \A n \in 1..k : n \in 1..Len(S[g])
  BY <1>5
<1>8. CASE k < Len(S[g])
  <2>1. k + 1 \in 1..Len(S[g]) /\ k \in 0..Len(S[g]) - 1
    BY <1>5, <1>8
  <2>2. link[pp[t]] = S[g][k + 1] /\ link[pp[t]] # Null
    BY <1>5, <1>8, <2>1 DEF Succ
  <2>3. At(S, t, g, k)
    BY <1>1, <1>2, <1>3, <1>4, <1>7, <2>1, <2>2 DEF At, g
  <2> QED BY <2>3
<1>9. CASE ~(k < Len(S[g]))
  <2>1. link[pp[t]] = Null /\ k = Len(S[g])
    BY <1>5, <1>9 DEF Succ
  <2>2. \A p \in ToSet(S[g]) : hkey[p] \notin arg[t]
    BY <1>4, <1>6, <2>1
  <2>3. At(S, t, g, k)
    BY <1>1, <1>2, <1>3, <1>4, <1>7, <2>1, <2>2 DEF At, g
  <2> QED BY <2>3
<1> QED BY <1>8, <1>9

LEMMA FreeNextStep ==
  ASSUME HashConstants, Typed, NEW S, Good(S), NEW t \in Tables, FreeNext(t)
  PROVE  /\ Typed'
         /\ \E M, p : /\ Good(M)' /\ Took(S, M, t, p)
                      /\ hkey[p] \in arg[t] /\ deleted' = deleted \cup {data[p]}
<1>1. /\ call[t] # "none" /\ link[pp[t]] # Null /\ hkey[link[pp[t]]] \in arg[t]
      /\ deleted' = deleted \cup {data[link[pp[t]]]}
      /\ link' = FreeNode(link, pp[t], link[pp[t]]) /\ Forget(link[pp[t]])
      /\ items' = IF call[t] = "destroy" THEN items ELSE [items EXCEPT ![t] = @ - 1]
      /\ UNCHANGED <<live, chunks, loop>>
  BY DEF FreeNext
<1>2. PICK g, k : At(S, t, g, k)
  BY <1>1, AtLemma
<1> DEFINE p == S[g][k + 1]
           M == Moved(S, g, k, FreeList)
<1>3. /\ t \in live /\ g = <<t, i[t]>> /\ g \in Slots(t) /\ k \in 0..Len(S[g]) - 1
      /\ pp[t] = CellAt(g, S[g], k) /\ link[pp[t]] = p
      /\ \A n \in 0..i[t] - 1 : <<t, n>> \in Slots(t) /\ <<t, n>> # g
      /\ \A n \in 0..i[t] - 1 : \A q \in ToSet(S[<<t, n>>]) : hkey[q] \notin arg[t]
      /\ \A n \in 1..k : n \in 1..Len(S[g]) /\ hkey[S[g][n]] \notin arg[t]
  BY <1>1, <1>2 DEF At
<1>4. Took(S, M, t, p)
  <2>1. link' = FreeNode(link, CellAt(g, S[g], k), p) /\ Forget(p) /\ chunks' = chunks
    BY <1>1, <1>3
  <2> QED BY <1>3, <2>1, TakeLemma
<1>5. /\ Chains(link, S, chunks) /\ g \in Heads /\ FreeList \in Heads /\ g # FreeList
      /\ Slots(t) \subseteq Heads \ {FreeList}
  BY <1>3, HeadLemma DEF Good
<1>6. IsMoved(S, M, p, g, k, FreeList)
  BY <1>3, <1>5, MovedLemma
<1> HIDE DEF M, p
<1>7. /\ p \in ToSet(S[g]) /\ M[g] = Del(S[g], k)
      /\ \A f \in Slots(t) \ {g} : p \notin ToSet(S[f]) /\ M[f] = S[f]
  BY <1>5, <1>6 DEF IsMoved
<1>8. /\ k \in Nat /\ Len(S[g]) \in Nat /\ S[g] \in Seq(Addresses) /\ IsInjective(S[g])
      /\ \A n \in 1..Len(S[g]) : S[g][n] \in Addresses
      /\ \A f \in Slots(t) : ToSet(S[f]) \subseteq Addresses
      /\ \A m, n \in 1..Len(S[g]) : S[g][m] = S[g][n] => m = n
  <2>1. /\ Len(S[g]) \in Nat /\ S[g] \in Seq(Addresses) /\ IsInjective(S[g])
        /\ \A n \in 1..Len(S[g]) : S[g][n] \in Addresses
    BY <1>5, CellLemma
  <2>2. \A m, n \in 1..Len(S[g]) : S[g][m] = S[g][n] => m = n
    BY <2>1, SeqLemma
  <2>3. \A f \in Heads : ToSet(S[f]) \subseteq Addresses
    BY <1>5, CellLemma
  <2>4. k \in Nat
    BY <1>3, <2>1
  <2> QED BY <1>5, <2>1, <2>2, <2>3, <2>4
<1>9. Len(M[g]) = Len(S[g]) - 1 /\ \A n \in 1..k : M[g][n] = S[g][n]
  <2>1. k \in 0..Len(S[g]) - 1 /\ S[g] \in Seq(Addresses) /\ IsInjective(S[g])
    BY <1>3, <1>8
  <2>2. /\ Len(Del(S[g], k)) = Len(S[g]) - 1
        /\ \A n \in 1..k : Del(S[g], k)[n] = S[g][n]
    BY <2>1, DelLemma
  <2> QED BY <1>7, <2>2
<1>10. \A q \in Addresses : q # p => hkey'[q] = hkey[q]
  BY <1>4 DEF Took, Typed
<1>11. Stands(M, t)'
  <2>1. \A n \in 0..i[t] - 1 : \A q \in ToSet(M[<<t, n>>]) : hkey'[q] \notin arg[t]
    BY <1>3, <1>7, <1>8, <1>10
  <2>2. k \in 0..Len(M[g])
    BY <1>3, <1>9
  <2>3. CellAt(g, M[g], k) = CellAt(g, S[g], k)
    <3>1. k # 0 => k \in 1..k
      BY <1>8
    <3> QED BY <1>9, <3>1 DEF CellAt
  <2>4. \A n \in 1..k : hkey'[M[g][n]] \notin arg[t]
    <3>1. \A n \in 1..k : n # k + 1
      BY <1>8
    <3>2. k + 1 \in 1..Len(S[g])
      BY <1>3, <1>8
    <3>3. \A n \in 1..k : S[g][n] # p
      BY <1>3, <1>8, <3>1, <3>2 DEF p
    <3>4. \A n \in 1..k : hkey'[S[g][n]] = hkey[S[g][n]]
      BY <1>3, <1>8, <1>10, <3>3
    <3> QED BY <1>3, <1>9, <3>4
  <2>5. i' = i /\ arg' = arg /\ pp' = pp
    BY <1>1 DEF loop
  <2> QED BY <1>3, <2>1, <2>2, <2>3, <2>4, <2>5 DEF Stands
<1>12. Typed' /\ Good(M)'
  BY <1>1, <1>3, <1>4, <1>11, TakeStep
<1>13. hkey[p] \in arg[t] /\ deleted' = deleted \cup {data[p]}
  BY <1>1, <1>3
<1> QED BY <1>4, <1>12, <1>13

(* The steps that move a loop on and change no node. *)
LEMMA MoveOnStep ==
  ASSUME HashConstants, Typed, NEW S, Good(S), NEW t \in Tables, call[t] # "none",
         UNCHANGED <<live, nodes, call, arg>>,
         i' \in [Tables -> 0..Size - 1], pp' \in [Tables -> Cells],
         \A u \in Tables \ {t} : i'[u] = i[u] /\ pp'[u] = pp[u],
         Stands(S, t)'
  PROVE  Typed' /\ Good(S)'
<1>1. UNCHANGED <<live, link, hkey, data, items, chunks, call, arg>>
  BY DEF nodes
<1>2. Typed'
  BY <1>1 DEF Typed
<1>3. Chains(link, S, chunks) /\ Table(S, t)
  BY DEF Good
<1>4. \A u \in Tables \ {t} : Table(S, u)'
  <2>1. \A u \in Tables \ {t} : Untouched(S, S, u)
    BY <1>1 DEF Untouched
  <2> QED BY <2>1, OthersLemma
<1>5. Table(S, t)'
  BY <1>1, <1>3 DEF Table, Keyed, Counted, Looping, Slot
<1> QED BY <1>1, <1>2, <1>3, <1>4, <1>5 DEF Good

LEMMA KeepNextStep ==
  ASSUME HashConstants, Typed, NEW S, Good(S), NEW t \in Tables, KeepNext(t)
  PROVE  Typed' /\ Good(S)'
<1>1. /\ call[t] # "none" /\ link[pp[t]] # Null /\ hkey[link[pp[t]]] \notin arg[t]
      /\ pp' = [pp EXCEPT ![t] = link[pp[t]]] /\ UNCHANGED <<live, nodes, call, arg, i>>
  BY DEF KeepNext
<1>2. PICK g, k : At(S, t, g, k)
  BY <1>1, AtLemma
<1>3. /\ g = <<t, i[t]>> /\ g \in Slots(t) /\ k \in 0..Len(S[g]) - 1
      /\ link[pp[t]] = S[g][k + 1]
      /\ \A n \in 0..i[t] - 1 : \A p \in ToSet(S[<<t, n>>]) : hkey[p] \notin arg[t]
      /\ \A n \in 1..k : hkey[S[g][n]] \notin arg[t]
  BY <1>1, <1>2 DEF At
<1>4. /\ g \in Heads /\ Len(S[g]) \in Nat
      /\ \A n \in 1..Len(S[g]) : S[g][n] \in Addresses
      /\ Addresses \subseteq Cells
  <2>1. Chains(link, S, chunks) /\ g \in Heads
    BY <1>3, HeadLemma DEF Good
  <2> QED BY <2>1, CellLemma, HeadLemma
<1>5. k + 1 \in 1..Len(S[g]) /\ k + 1 \in 0..Len(S[g]) /\ k + 1 # 0
  BY <1>3, <1>4
<1>6. link[pp[t]] \in Cells /\ pp' \in [Tables -> Cells] /\ pp'[t] = S[g][k + 1]
  BY <1>1, <1>3, <1>4, <1>5 DEF Typed
<1>7. Stands(S, t)'
  <2>1. pp'[t] = CellAt(g, S[g], k + 1)
    BY <1>5, <1>6 DEF CellAt
  <2>2. \A n \in 1..k + 1 : hkey[S[g][n]] \notin arg[t]
    <3>1. \A n \in 1..k + 1 : n \in 1..k \/ n = k + 1
      BY <1>3, <1>4
    <3> QED BY <1>1, <1>3, <3>1
  <2>3. hkey' = hkey /\ arg' = arg /\ i' = i
    BY <1>1 DEF nodes
  <2> QED BY <1>3, <1>5, <2>1, <2>2, <2>3 DEF Stands
<1>8. i' \in [Tables -> 0..Size - 1] /\ \A u \in Tables \ {t} : i'[u] = i[u] /\ pp'[u] = pp[u]
  BY <1>1 DEF Typed
<1> QED BY <1>1, <1>6, <1>7, <1>8, MoveOnStep

LEMMA NextSlotStep ==
  ASSUME HashConstants, Typed, NEW S, Good(S), NEW t \in Tables, NextSlot(t)
  PROVE  Typed' /\ Good(S)'
<1>1. /\ call[t] # "none" /\ link[pp[t]] = Null /\ i[t] < Size - 1
      /\ i' = [i EXCEPT ![t] = @ + 1] /\ pp' = [pp EXCEPT ![t] = <<t, i[t] + 1>>]
      /\ UNCHANGED <<live, nodes, call, arg>>
  BY DEF NextSlot
<1>2. PICK g, k : At(S, t, g, k)
  BY <1>1, AtLemma
<1>3. /\ g = <<t, i[t]>>
      /\ \A n \in 0..i[t] - 1 : \A p \in ToSet(S[<<t, n>>]) : hkey[p] \notin arg[t]
      /\ \A p \in ToSet(S[g]) : hkey[p] \notin arg[t]
  BY <1>1, <1>2 DEF At
<1> DEFINE j == i[t] + 1
           f == <<t, j>>
<1>4. i[t] \in Nat /\ j \in 0..Size - 1 /\ i'[t] = j /\ pp'[t] = f
  <2>1. Size \in Nat /\ i[t] \in 0..Size - 1
    BY Zenon DEF HashConstants, Typed
  <2> QED BY <1>1, <2>1 DEF Typed
<1>5. f \in Heads /\ f \in Cells
  BY <1>4, HeadLemma
<1>6. 0 \in 0..Len(S[f]) /\ CellAt(f, S[f], 0) = f
  <2>1. Chains(link, S, chunks)
    BY DEF Good
  <2>2. Len(S[f]) \in Nat
    BY <1>5, <2>1, CellLemma
  <2> QED BY <2>2 DEF CellAt
<1>7. \A n \in 0..j - 1 : n \in 0..i[t] - 1 \/ n = i[t]
  BY <1>4
<1>8. i' \in [Tables -> 0..Size - 1] /\ pp' \in [Tables -> Cells]
  BY <1>1, <1>4, <1>5 DEF Typed
<1>9. \A u \in Tables \ {t} : i'[u] = i[u] /\ pp'[u] = pp[u]
  BY <1>1 DEF Typed
<1> HIDE DEF j
<1>10. Stands(S, t)'
  <2>1. \A n \in 0..j - 1 : \A p \in ToSet(S[<<t, n>>]) : hkey[p] \notin arg[t]
    BY <1>3, <1>7
  <2>2. \A n \in 1..0 : hkey[S[f][n]] \notin arg[t]
    OBVIOUS
  <2>3. hkey' = hkey /\ arg' = arg
    BY <1>1 DEF nodes
  <2> QED BY <1>4, <1>6, <2>1, <2>2, <2>3 DEF Stands
<1> QED BY <1>1, <1>8, <1>9, <1>10, MoveOnStep

(* At its end a loop has freed every node that it was to free.             *)
LEMMA ReturnStep ==
  ASSUME HashConstants, Typed, NEW S, Good(S), NEW t \in Tables, Return(t)
  PROVE  /\ Typed' /\ Good(S)'
         /\ \A p \in In(S, t) : hkey[p] \notin arg[t]
<1>1. /\ call[t] # "none" /\ link[pp[t]] = Null /\ i[t] = Size - 1
      /\ IF call[t] = "destroy"
         THEN live' = live \ {t} /\ items' = [items EXCEPT ![t] = 0]
         ELSE UNCHANGED <<live, items>>
      /\ call' = [call EXCEPT ![t] = "none"] /\ arg' = [arg EXCEPT ![t] = {}]
      /\ i' = [i EXCEPT ![t] = 0] /\ pp' = [pp EXCEPT ![t] = FreeList]
      /\ UNCHANGED <<link, hkey, data, chunks>>
  BY DEF Return
<1>2. PICK g, k : At(S, t, g, k)
  BY <1>1, AtLemma
<1>3. /\ t \in live /\ g = <<t, i[t]>>
      /\ \A n \in 0..i[t] - 1 : \A p \in ToSet(S[<<t, n>>]) : hkey[p] \notin arg[t]
      /\ \A p \in ToSet(S[g]) : hkey[p] \notin arg[t]
  BY <1>1, <1>2 DEF At
<1>4. Size \in Nat \ {0}
  BY Zenon DEF HashConstants
<1>5. Chains(link, S, chunks) /\ Table(S, t)
  BY DEF Good
<1>6. ASSUME NEW p \in In(S, t)
      PROVE  hkey[p] \notin arg[t]
  <2>1. PICK c \in Slots(t) : p \in ToSet(S[c])
    BY <1>5, InLemma
  <2>2. PICK n \in 0..Size - 1 : c = <<t, n>>
    BY DEF Slots
  <2>3. n \in 0..i[t] - 1 \/ n = i[t]
    BY <1>1, <1>4
  <2> QED BY <1>3, <2>1, <2>2, <2>3
<1>7. call[t] = "destroy" => In(S, t) = {}
  <2>1. ASSUME call[t] = "destroy", NEW p \in In(S, t)
        PROVE  FALSE
    <3>1. PICK c \in Slots(t) : p \in ToSet(S[c])
      BY <1>5, InLemma
    <3>2. hkey[p] \in Keys
      BY <1>5, <3>1 DEF Table, Keyed
    <3> QED BY <1>5, <1>6, <2>1, <3>2 DEF Table, Looping
  <2> QED BY <2>1
<1>8. 0 \in 0..Size - 1 /\ FreeList \in Cells
  BY <1>4, HeadLemma
<1>9. Typed'
  <2>1. call' \in [Tables -> {"none", "delete_if", "destroy"}] /\ arg' \in [Tables -> SUBSET Keys]
    BY <1>1 DEF Typed
  <2>2. i' \in [Tables -> 0..Size - 1] /\ pp' \in [Tables -> Cells]
    BY <1>1, <1>8 DEF Typed
  <2>3. live' \subseteq Tables /\ items' \in [Tables -> Int]
    BY <1>1 DEF Typed
  <2> QED BY <1>1, <2>1, <2>2, <2>3 DEF Typed
<1>10. \A u \in Tables \ {t} : Table(S, u)'
  <2>1. \A u \in Tables \ {t} : Untouched(S, S, u)
    BY <1>1 DEF Untouched, Typed
  <2> QED BY <2>1, OthersLemma
<1>11. call'[t] = "none" /\ arg'[t] = {}
  BY <1>1 DEF Typed
<1>12. Keyed(S, t)'
  BY <1>1, <1>5 DEF Table, Keyed, Slot
<1>13. Counted(S, t)'
  <2>1. CASE call[t] = "destroy"
    <3>1. items'[t] = 0 /\ Cardinality({}) = 0
      BY <1>1, <2>1, FS_EmptySet DEF Typed
    <3> QED BY <1>7, <1>11, <2>1, <3>1 DEF Counted
  <2>2. CASE call[t] # "destroy"
    BY <1>1, <1>3, <1>5, <1>11, <2>2 DEF Table, Counted
  <2> QED BY <2>1, <2>2
<1>14. Looping(S, t)'
  BY <1>11 DEF Looping
<1>15. Good(S)'
  BY <1>1, <1>5, <1>10, <1>12, <1>13, <1>14 DEF Good, Table
<1> QED BY <1>6, <1>9, <1>15

LEMMA InitHolds ==
  ASSUME HashConstants, Init
  PROVE  Inv
<1> DEFINE S == [h \in Heads |-> <<>>]
<1>1. /\ live = {} /\ link = [c \in Cells |-> Null]
      /\ hkey = [a \in Addresses |-> Null] /\ data = [a \in Addresses |-> Null]
      /\ items = [t \in Tables |-> 0] /\ chunks = 0
      /\ call = [t \in Tables |-> "none"] /\ arg = [t \in Tables |-> {}]
      /\ i = [t \in Tables |-> 0] /\ pp = [t \in Tables |-> FreeList]
  BY DEF Init
<1>2. /\ MaxChunks \in Nat \ {0} /\ HASH_ALLOC \in Nat \ {0} /\ Size \in Nat \ {0}
      /\ FreeList \in Cells
  BY HeadLemma, Zenon DEF HashConstants
<1>3. Typed
  <2>1. 0 \in 0..Size - 1 /\ 0 \in 0..MaxChunks /\ 0 \in Int
    BY <1>2
  <2> QED BY <1>1, <1>2, <2>1 DEF Typed
<1>4. S \in [Heads -> Seq(Addresses)] /\ \A h \in Heads : S[h] = <<>>
  OBVIOUS
<1> HIDE DEF S
<1>5. ToSet(<<>>) = {} /\ IsInjective(<<>>) /\ Len(<<>>) = 0
  BY DEF ToSet, IsInjective
<1>6. Chains(link, S, chunks)
  <2>1. link \in [Cells -> Addresses \cup {Null}]
    BY <1>1
  <2>2. \A h \in Heads : Linked(link, h, S[h])
    <3>1. \A h \in Heads : h \in Cells
      BY HeadLemma
    <3>2. \A k \in 0..0 : k = 0
      OBVIOUS
    <3> QED BY <1>1, <1>4, <1>5, <3>1, <3>2 DEF Linked, CellAt, Succ
  <2>3. Allocated(0) = {}
    <3>1. 0 * HASH_ALLOC = 0 /\ 1..0 = {}
      BY <1>2
    <3> QED BY <3>1 DEF Allocated
  <2>4. UNION {ToSet(S[h]) : h \in Heads} = {}
    BY <1>4, <1>5
  <2> QED BY <1>1, <1>4, <1>5, <2>1, <2>2, <2>3, <2>4 DEF Chains
<1>7. \A t \in Tables : In(S, t) = {}
  <2>1. \A t \in Tables : \A c \in Slots(t) : ToSet(S[c]) = {}
    BY <1>4, <1>5, HeadLemma
  <2> QED BY <2>1 DEF In
<1>8. ASSUME NEW t \in Tables
      PROVE  Table(S, t)
  <2>1. \A c \in Slots(t) : ToSet(S[c]) = {}
    BY <1>4, <1>5, HeadLemma
  <2>2. Keyed(S, t)
    BY <2>1 DEF Keyed
  <2>3. call[t] = "none" /\ arg[t] = {} /\ items[t] = 0
    BY <1>1
  <2>4. Counted(S, t)
    BY <1>7, <2>3, FS_EmptySet DEF Counted
  <2>5. Looping(S, t)
    BY <2>3 DEF Looping
  <2> QED BY <2>2, <2>4, <2>5 DEF Table
<1> QED BY <1>3, <1>6, <1>8 DEF Inv, Good

LEMMA CreateStep ==
  ASSUME HashConstants, Typed, NEW S, Good(S), NEW t \in Tables, hash_create(t)
  PROVE  Typed' /\ Good(S)'
<1>1. live' = live \cup {t} /\ UNCHANGED <<nodes, loop>>
  BY DEF hash_create
<1>2. live \subseteq live' /\ live' \subseteq Tables
  BY <1>1 DEF Typed
<1> QED BY <1>1, <1>2, SameStep

LEMMA NextHolds ==
  ASSUME HashConstants, Inv, [Next]_vars
  PROVE  Inv'
<1>1. Typed
  BY DEF Inv
<1>2. PICK S : Good(S)
  BY DEF Inv
<1>3. CASE UNCHANGED vars
  <2>1. UNCHANGED <<nodes, loop>> /\ live \subseteq live' /\ live' \subseteq Tables
    BY <1>1, <1>3 DEF vars, Typed
  <2>2. Typed' /\ Good(S)'
    BY <1>1, <1>2, <2>1, SameStep
  <2> QED BY <2>2 DEF Inv
<1>4. ASSUME NEW t \in Tables,
             \/ hash_create(t) \/ hash_destroy(t) \/ LoopStep(t)
             \/ \E K \in SUBSET Keys : hash_delete_if(t, K)
      PROVE  Inv'
  <2>1. CASE hash_create(t)
    <3>1. Typed' /\ Good(S)'
      BY <1>1, <1>2, <2>1, CreateStep
    <3> QED BY <3>1 DEF Inv
  <2>2. CASE hash_destroy(t)
    <3>1. Loop(t, "destroy", Keys) /\ Keys \in SUBSET Keys
      BY <2>2 DEF hash_destroy
    <3>2. Typed' /\ Good(S)'
      BY <1>1, <1>2, <3>1, LoopStarts
    <3> QED BY <3>2 DEF Inv
  <2>3. CASE FreeNext(t)
    <3>1. Typed' /\ \E M : Good(M)'
      BY <1>1, <1>2, <2>3, FreeNextStep
    <3> QED BY <3>1 DEF Inv
  <2>4. CASE KeepNext(t)
    <3>1. Typed' /\ Good(S)'
      BY <1>1, <1>2, <2>4, KeepNextStep
    <3> QED BY <3>1 DEF Inv
  <2>5. CASE NextSlot(t)
    <3>1. Typed' /\ Good(S)'
      BY <1>1, <1>2, <2>5, NextSlotStep
    <3> QED BY <3>1 DEF Inv
  <2>6. CASE Return(t)
    <3>1. Typed' /\ Good(S)'
      BY <1>1, <1>2, <2>6, ReturnStep
    <3> QED BY <3>1 DEF Inv
  <2>7. CASE \E K \in SUBSET Keys : hash_delete_if(t, K)
    <3>1. PICK K \in SUBSET Keys : Loop(t, "delete_if", K)
      BY <2>7 DEF hash_delete_if
    <3>2. Typed' /\ Good(S)'
      BY <1>1, <1>2, <3>1, LoopStarts
    <3> QED BY <3>2 DEF Inv
  <2> QED BY <1>4, <2>1, <2>2, <2>3, <2>4, <2>5, <2>6, <2>7 DEF LoopStep
<1>5. ASSUME NEW t \in Tables, NEW k \in Keys, hash_remove(t, k)
      PROVE  Inv'
  <2>1. Typed' /\ \E M : Good(M)'
    BY <1>1, <1>2, <1>5, RemoveStep
  <2> QED BY <2>1 DEF Inv
<1>6. ASSUME NEW t \in Tables, NEW k \in Keys, NEW d \in Items, hash_insert(t, k, d)
      PROVE  Inv'
  <2>1. Typed' /\ \E M : Good(M)'
    BY <1>1, <1>2, <1>6, InsertStep
  <2> QED BY <2>1 DEF Inv
<1> QED BY <1>3, <1>4, <1>5, <1>6 DEF Next

THEOREM InvHolds == ASSUME HashConstants PROVE Spec => []Inv
<1>1. Init => Inv
  BY InitHolds
<1>2. Inv /\ [Next]_vars => Inv'
  BY NextHolds
<1> QED BY <1>1, <1>2, PTL DEF Spec

(***************************************************************************)
(* What the invariant says of the hash as the code sees it.                *)
(***************************************************************************)
LEMMA NodesInLemma ==
  ASSUME HashConstants, NEW S, NEW C, Chains(link, S, C), NEW t \in Tables
  PROVE  NodesIn(t) = In(S, t)
<1>1. \A c \in Slots(t) : Chain(c) = S[c]
  BY ChainLemma, HeadLemma
<1> QED BY <1>1 DEF NodesIn, In

LEMMA FindLemma ==
  ASSUME HashConstants, NEW S, Good(S), NEW t \in Tables, NEW p \in In(S, t)
  PROVE  hkey[p] \in Keys /\ hash_find(t, hkey[p]) = data[p]
<1> DEFINE k == hkey[p]
           c == Slot(t, k)
           n == Lookup(t, k)
<1>1. Chains(link, S, chunks) /\ Keyed(S, t)
  BY DEF Good, Table
<1>2. k \in Keys /\ p \in ToSet(S[c])
  <2>1. PICK d \in Slots(t) : p \in ToSet(S[d])
    BY <1>1, InLemma
  <2> QED BY <1>1, <2>1 DEF Keyed
<1>3. c \in Slots(t) /\ c \in Heads
  BY <1>2, SlotLemma, HeadLemma
<1>4. /\ Chain(c) = S[c]
      /\ n = 0 => \A m \in 1..Len(S[c]) : hkey[S[c][m]] # k
      /\ n # 0 => n \in 1..Len(S[c]) /\ hkey[S[c][n]] = k
  BY <1>1, <1>2, LookupLemma
<1>5. S[c] \in Seq(Addresses) /\ IsInjective(S[c])
  BY <1>1, <1>3, CellLemma
<1>6. /\ \A m \in 1..Len(S[c]) : S[c][m] \in ToSet(S[c])
      /\ \E m \in 1..Len(S[c]) : p = S[c][m]
  BY <1>2, <1>5, SeqLemma
<1>7. n # 0
  BY <1>4, <1>6
<1>8. S[c][n] = p
  BY <1>1, <1>2, <1>3, <1>4, <1>6, <1>7 DEF Keyed
<1> QED BY <1>2, <1>4, <1>7, <1>8 DEF hash_find

(* Every node is in one place, and the counts count them.                  *)
THEOREM NodesAreAccounted == ASSUME HashConstants PROVE Spec => []NodesAccounted
<1>1. ASSUME Inv
      PROVE  NodesAccounted
  <2>1. PICK S : Good(S)
    BY <1>1 DEF Inv
  <2>2. Chains(link, S, chunks) /\ \A t \in Tables : Table(S, t)
    BY <2>1 DEF Good
  <2> DEFINE chains == {<<h, Chain(h)>> : h \in Heads}
  <2>3. \A h \in Heads : Chain(h) = S[h] /\ IsInjective(S[h])
    BY <2>2, ChainLemma, CellLemma
  <2>4. \A c \in chains : c[1] \in Heads /\ c[2] = S[c[1]]
    BY <2>3
  <2>5. \A h \in Heads : \E c \in chains : c[2] = S[h]
    <3>1. \A h \in Heads : <<h, Chain(h)>> \in chains /\ <<h, Chain(h)>>[2] = Chain(h)
      OBVIOUS
    <3> HIDE DEF chains
    <3> QED BY <2>3, <3>1
  <2> HIDE DEF chains
  <2>6. UNION {ToSet(c[2]) : c \in chains} = Allocated(chunks)
    <3>1. UNION {ToSet(S[h]) : h \in Heads} = Allocated(chunks)
      BY <2>2 DEF Chains
    <3>2. {ToSet(c[2]) : c \in chains} = {ToSet(S[h]) : h \in Heads}
      BY <2>4, <2>5
    <3> QED BY <3>1, <3>2
  <2>7. \A c \in chains : IsInjective(c[2])
    BY <2>3, <2>4
  <2>8. \A c, d \in chains : c[1] # d[1] => ToSet(c[2]) \cap ToSet(d[2]) = {}
    BY <2>2, <2>4 DEF Chains
  <2>9. ASSUME NEW t \in live
        PROVE  /\ call[t] # "destroy" => hash_count(t) = Cardinality(NodesIn(t))
               /\ \A p \in NodesIn(t) : hash_find(t, hkey[p]) = data[p]
               /\ \A c \in chains : c[1] \in Slots(t) =>
                    \A p \in ToSet(c[2]) : Slot(t, hkey[p]) = c[1]
    <3>1. t \in Tables
      BY <1>1 DEF Inv, Typed
    <3>2. NodesIn(t) = In(S, t)
      BY <2>2, <3>1, NodesInLemma
    <3>3. call[t] # "destroy" => hash_count(t) = Cardinality(NodesIn(t))
      BY <2>2, <3>1, <3>2 DEF Table, Counted, hash_count
    <3>4. \A p \in In(S, t) : hash_find(t, hkey[p]) = data[p]
      BY <2>1, <3>1, FindLemma
    <3>5. \A c \in chains : c[1] \in Slots(t) =>
            \A p \in ToSet(c[2]) : Slot(t, hkey[p]) = c[1]
      BY <2>2, <2>4, <3>1 DEF Table, Keyed
    <3> QED BY <3>2, <3>3, <3>4, <3>5
  <2> QED BY <2>6, <2>7, <2>8, <2>9 DEF NodesAccounted, chains
<1>2. Inv => NodesAccounted
  BY <1>1
<1> QED BY <1>2, InvHolds, PTL

(***************************************************************************)
(* The map that a hash implements, seen through the sequences.             *)
(***************************************************************************)
AbsLive == {t \in live : call[t] # "destroy"}
AbsMap == [t \in Tables |-> Contents(t)]
AbsDeleted == deleted \cup UNION {Doomed(t) : t \in Tables}

Kept(S, t) == {<<hkey[p], data[p]>> : p \in {q \in In(S, t) : hkey[q] \notin arg[t]}}
Lost(S, t) == {data[p] : p \in {q \in In(S, t) : hkey[q] \in arg[t]}}

View(S) ==
  /\ AbsMap = [t \in Tables |-> Kept(S, t)]
  /\ AbsDeleted = deleted \cup UNION {Lost(S, t) : t \in Tables}

LEMMA ViewLemma ==
  ASSUME HashConstants
  PROVE  /\ \A S : Good(S) => View(S)
         /\ \A S : Good(S)' => View(S)'
<1>1. \A S : Good(S) => View(S)
  <2> SUFFICES ASSUME NEW S, Good(S)
               PROVE  View(S)
    OBVIOUS
  <2>1. \A t \in Tables : NodesIn(t) = In(S, t)
    BY NodesInLemma DEF Good
  <2>2. \A t \in Tables : Contents(t) = Kept(S, t) /\ Doomed(t) = Lost(S, t)
    BY <2>1 DEF Contents, Doomed, Kept, Lost
  <2> QED BY <2>2 DEF View, AbsMap, AbsDeleted
<1>2. (\A S : Good(S) => View(S))'
  BY <1>1, PTL
<1> QED BY <1>1, <1>2

(* A step that changes one table, where it has put the items.              *)
Elsewhere(S, t, x) == \E u \in Tables \ {t} : x \in Lost(S, u)

LEMMA ChangeLemma ==
  ASSUME HashConstants, NEW S, Good(S), NEW t \in Tables, NEW M, Good(M)',
         \A u \in Tables \ {t} :
           /\ arg'[u] = arg[u] /\ In(M, u) = In(S, u)
           /\ \A q \in In(S, u) : hkey'[q] = hkey[q] /\ data'[q] = data[q]
  PROVE  /\ AbsMap[t] = Kept(S, t)
         /\ AbsMap' = [AbsMap EXCEPT ![t] = Kept(M, t)']
         /\ \A x : x \in AbsDeleted <=>
                  x \in deleted \/ x \in Lost(S, t) \/ Elsewhere(S, t, x)
         /\ \A x : x \in AbsDeleted' <=>
                  x \in deleted' \/ x \in Lost(M, t)' \/ Elsewhere(S, t, x)
<1>1. /\ AbsMap = [u \in Tables |-> Kept(S, u)]
      /\ AbsDeleted = deleted \cup UNION {Lost(S, u) : u \in Tables}
      /\ AbsMap' = [u \in Tables |-> Kept(M, u)']
      /\ AbsDeleted' = deleted' \cup UNION {Lost(M, u)' : u \in Tables}
  <2>1. View(S) /\ View(M)'
    BY ViewLemma
  <2> QED BY <2>1 DEF View
<1>2. \A u \in Tables \ {t} : Kept(M, u)' = Kept(S, u) /\ Lost(M, u)' = Lost(S, u)
  <2> SUFFICES ASSUME NEW u \in Tables \ {t}
               PROVE  Kept(M, u)' = Kept(S, u) /\ Lost(M, u)' = Lost(S, u)
    OBVIOUS
  <2>1. /\ arg'[u] = arg[u] /\ In(M, u) = In(S, u)
        /\ \A q \in In(S, u) : hkey'[q] = hkey[q] /\ data'[q] = data[q]
    OBVIOUS
  <2> QED BY <2>1 DEF Kept, Lost
<1>3. AbsMap[t] = Kept(S, t)
  BY <1>1
<1>4. AbsMap' = [AbsMap EXCEPT ![t] = Kept(M, t)']
  BY <1>1, <1>2
<1>5. \A x : x \in AbsDeleted <=>
         x \in deleted \/ x \in Lost(S, t) \/ Elsewhere(S, t, x)
  BY <1>1 DEF Elsewhere
<1>6. \A x : x \in AbsDeleted' <=>
         x \in deleted' \/ x \in Lost(M, t)' \/ Elsewhere(S, t, x)
  BY <1>1, <1>2 DEF Elsewhere
<1> QED BY <1>3, <1>4, <1>5, <1>6

LEMMA SameView ==
  ASSUME HashConstants, NEW S, Good(S), Good(S)', UNCHANGED <<hkey, data, arg, deleted>>
  PROVE  AbsMap' = AbsMap /\ AbsDeleted' = AbsDeleted
<1>1. View(S) /\ View(S)'
  BY ViewLemma
<1>2. \A t \in Tables : Kept(S, t)' = Kept(S, t) /\ Lost(S, t)' = Lost(S, t)
  BY DEF Kept, Lost
<1> QED BY <1>1, <1>2 DEF View

LEMMA LoopView ==
  ASSUME HashConstants, Typed, NEW S, Good(S), Good(S)', NEW t \in Tables, NEW f,
         NEW K \in SUBSET Keys, Loop(t, f, K)
  PROVE  /\ AbsMap' = [AbsMap EXCEPT ![t] = @ \ Abs!With(@, K)]
         /\ AbsDeleted' = AbsDeleted \cup Abs!ItemsOf(Abs!With(AbsMap[t], K))
         /\ \A e \in AbsMap[t] : e[1] \in Keys
<1>1. call[t] = "none" /\ arg' = [arg EXCEPT ![t] = K] /\ UNCHANGED <<hkey, data, deleted>>
  BY DEF Loop, Calls, nodes
<1>2. /\ \A u \in Tables \ {t} : arg'[u] = arg[u]
      /\ arg[t] = {} /\ arg'[t] = K
  BY <1>1 DEF Typed, Good, Table, Looping
<1>3. /\ AbsMap[t] = Kept(S, t)
      /\ AbsMap' = [AbsMap EXCEPT ![t] = Kept(S, t)']
      /\ \A x : x \in AbsDeleted <=>
               x \in deleted \/ x \in Lost(S, t) \/ Elsewhere(S, t, x)
      /\ \A x : x \in AbsDeleted' <=>
               x \in deleted' \/ x \in Lost(S, t)' \/ Elsewhere(S, t, x)
  BY <1>1, <1>2, ChangeLemma
<1>4. /\ Lost(S, t) = {} /\ Kept(S, t) = {<<hkey[q], data[q]>> : q \in In(S, t)}
      /\ Kept(S, t)' = {<<hkey[p], data[p]>> : p \in {q \in In(S, t) : hkey[q] \notin K}}
      /\ Lost(S, t)' = {data[p] : p \in {q \in In(S, t) : hkey[q] \in K}}
  BY <1>1, <1>2 DEF Kept, Lost
<1>5. Kept(S, t)' = Kept(S, t) \ Abs!With(Kept(S, t), K)
  BY <1>4 DEF Abs!With
<1>6. \A x : x \in Lost(S, t)' <=> x \in Abs!ItemsOf(Abs!With(Kept(S, t), K))
  <2> DEFINE W == Abs!With(Kept(S, t), K)
  <2>1. \A e : e \in W <=> \E q \in In(S, t) : hkey[q] \in K /\ e = <<hkey[q], data[q]>>
    BY <1>4 DEF Abs!With
  <2>2. \A x : x \in Lost(S, t)' <=> \E q \in In(S, t) : hkey[q] \in K /\ x = data[q]
    BY <1>4
  <2>3. \A q : <<hkey[q], data[q]>>[2] = data[q]
    OBVIOUS
  <2>4. \A m, x : x \in Abs!ItemsOf(m) <=> \E e \in m : x = e[2]
    BY DEF Abs!ItemsOf
  <2> HIDE DEF W
  <2>5. \A x : x \in Lost(S, t)' <=> x \in Abs!ItemsOf(W)
    <3>1. \A q \in In(S, t) : hkey[q] \in K => \E e \in W : data[q] = e[2]
      BY <2>1, <2>3
    <3>2. \A e \in W : e[2] \in Lost(S, t)'
      BY <2>1, <2>2, <2>3
    <3> QED BY <2>2, <2>4, <3>1, <3>2
  <2> QED BY <2>5 DEF W
<1>7. \A e \in AbsMap[t] : e[1] \in Keys
  BY <1>3, <1>4, FindLemma
<1>8. AbsMap' = [AbsMap EXCEPT ![t] = @ \ Abs!With(@, K)]
  BY <1>3, <1>5
<1>9. AbsDeleted' = AbsDeleted \cup Abs!ItemsOf(Abs!With(AbsMap[t], K))
  BY <1>1, <1>3, <1>4, <1>6
<1> QED BY <1>7, <1>8, <1>9

LEMMA TookView ==
  ASSUME HashConstants, Typed, NEW S, Good(S), NEW t \in Tables, NEW M, Good(M)', NEW p,
         Took(S, M, t, p), arg' = arg
  PROVE  /\ p \in In(S, t) /\ AbsMap[t] = Kept(S, t) /\ hkey[p] \in Keys
         /\ AbsMap' = [AbsMap EXCEPT ![t] = Kept(M, t)']
         /\ \A x : x \in AbsDeleted <=>
                  x \in deleted \/ x \in Lost(S, t) \/ Elsewhere(S, t, x)
         /\ \A x : x \in AbsDeleted' <=>
                  x \in deleted' \/ x \in Lost(M, t)' \/ Elsewhere(S, t, x)
         /\ \A e : e \in Kept(M, t)' <=>
                  \E q \in In(S, t) : q # p /\ hkey[q] \notin arg[t] /\ e = <<hkey[q], data[q]>>
         /\ \A x : x \in Lost(M, t)' <=>
                  \E q \in In(S, t) : q # p /\ hkey[q] \in arg[t] /\ x = data[q]
<1>1. /\ p \in In(S, t) /\ In(M, t) = In(S, t) \ {p}
      /\ hkey' = [hkey EXCEPT ![p] = Null] /\ data' = [data EXCEPT ![p] = Null]
      /\ \A u \in Tables \ {t} : p \notin In(S, u) /\ \A c \in Slots(u) : M[c] = S[c]
  BY DEF Took
<1>2. Chains(link, S, chunks)
  BY DEF Good
<1>3. \A u \in Tables : In(S, u) \subseteq Addresses
  BY <1>2, InLemma
<1>4. \A q \in Addresses : q # p => hkey'[q] = hkey[q] /\ data'[q] = data[q]
  BY <1>1 DEF Typed
<1>5. \A u \in Tables \ {t} :
        /\ arg'[u] = arg[u] /\ In(M, u) = In(S, u)
        /\ \A q \in In(S, u) : hkey'[q] = hkey[q] /\ data'[q] = data[q]
  <2>1. \A u \in Tables \ {t} : In(M, u) = In(S, u)
    BY <1>1 DEF In
  <2> QED BY <1>1, <1>3, <1>4, <2>1
<1>6. \A q : q \in In(M, t) <=> q \in In(S, t) /\ q # p
  BY <1>1
<1>7. \A q \in In(S, t) : q # p => hkey'[q] = hkey[q] /\ data'[q] = data[q]
  BY <1>3, <1>4
<1>8. \A e : e \in Kept(M, t)' <=>
         \E q \in In(S, t) : q # p /\ hkey[q] \notin arg[t] /\ e = <<hkey[q], data[q]>>
  BY <1>6, <1>7 DEF Kept
<1>9. \A x : x \in Lost(M, t)' <=>
         \E q \in In(S, t) : q # p /\ hkey[q] \in arg[t] /\ x = data[q]
  BY <1>6, <1>7 DEF Lost
<1>10. hkey[p] \in Keys
  BY <1>1, FindLemma
<1>11. /\ AbsMap[t] = Kept(S, t)
       /\ AbsMap' = [AbsMap EXCEPT ![t] = Kept(M, t)']
       /\ \A x : x \in AbsDeleted <=>
                x \in deleted \/ x \in Lost(S, t) \/ Elsewhere(S, t, x)
       /\ \A x : x \in AbsDeleted' <=>
                x \in deleted' \/ x \in Lost(M, t)' \/ Elsewhere(S, t, x)
  BY <1>5, ChangeLemma
<1> QED BY <1>1, <1>8, <1>9, <1>10, <1>11

(* A node that a loop frees was deleted when the loop was called.          *)
LEMMA FreeNextView ==
  ASSUME HashConstants, Typed, NEW S, Good(S), NEW t \in Tables, NEW M, Good(M)', NEW p,
         Took(S, M, t, p), arg' = arg, hkey[p] \in arg[t], deleted' = deleted \cup {data[p]}
  PROVE  AbsMap' = AbsMap /\ AbsDeleted' = AbsDeleted
<1>1. /\ p \in In(S, t) /\ AbsMap[t] = Kept(S, t)
      /\ AbsMap' = [AbsMap EXCEPT ![t] = Kept(M, t)']
      /\ \A x : x \in AbsDeleted <=>
               x \in deleted \/ x \in Lost(S, t) \/ Elsewhere(S, t, x)
      /\ \A x : x \in AbsDeleted' <=>
               x \in deleted' \/ x \in Lost(M, t)' \/ Elsewhere(S, t, x)
      /\ \A e : e \in Kept(M, t)' <=>
               \E q \in In(S, t) : q # p /\ hkey[q] \notin arg[t] /\ e = <<hkey[q], data[q]>>
      /\ \A x : x \in Lost(M, t)' <=>
               \E q \in In(S, t) : q # p /\ hkey[q] \in arg[t] /\ x = data[q]
  BY TookView
<1>2. \A e : e \in Kept(S, t) <=>
         \E q \in In(S, t) : hkey[q] \notin arg[t] /\ e = <<hkey[q], data[q]>>
  BY DEF Kept
<1>3. \A x : x \in Lost(S, t) <=> \E q \in In(S, t) : hkey[q] \in arg[t] /\ x = data[q]
  BY DEF Lost
<1>4. Kept(M, t)' = Kept(S, t)
  BY <1>1, <1>2
<1>5. AbsMap' = AbsMap
  BY <1>1, <1>4 DEF AbsMap
<1>6. \A x : x \in Lost(S, t) <=> x \in Lost(M, t)' \/ x = data[p]
  BY <1>1, <1>3
<1>7. AbsDeleted' = AbsDeleted
  BY <1>1, <1>6
<1> QED BY <1>5, <1>7

LEMMA RemoveView ==
  ASSUME HashConstants, Typed, NEW S, Good(S), NEW t \in Tables, call[t] = "none",
         NEW M, Good(M)', NEW p, Took(S, M, t, p), arg' = arg, deleted' = deleted
  PROVE  /\ AbsMap' = [AbsMap EXCEPT ![t] = @ \ Abs!With(@, {hkey[p]})]
         /\ AbsDeleted' = AbsDeleted /\ <<hkey[p], data[p]>> \in AbsMap[t]
<1>1. arg[t] = {} /\ Chains(link, S, chunks) /\ Keyed(S, t)
  BY DEF Good, Table, Looping
<1>2. /\ p \in In(S, t) /\ AbsMap[t] = Kept(S, t)
      /\ AbsMap' = [AbsMap EXCEPT ![t] = Kept(M, t)']
      /\ \A x : x \in AbsDeleted <=>
               x \in deleted \/ x \in Lost(S, t) \/ Elsewhere(S, t, x)
      /\ \A x : x \in AbsDeleted' <=>
               x \in deleted' \/ x \in Lost(M, t)' \/ Elsewhere(S, t, x)
      /\ \A e : e \in Kept(M, t)' <=>
               \E q \in In(S, t) : q # p /\ hkey[q] \notin arg[t] /\ e = <<hkey[q], data[q]>>
      /\ \A x : x \in Lost(M, t)' <=>
               \E q \in In(S, t) : q # p /\ hkey[q] \in arg[t] /\ x = data[q]
  BY TookView
<1>3. \A e : e \in Kept(S, t) <=> \E q \in In(S, t) : e = <<hkey[q], data[q]>>
  BY <1>1 DEF Kept
<1>4. \A q \in In(S, t) : hkey[q] = hkey[p] => q = p
  <2> SUFFICES ASSUME NEW q \in In(S, t), hkey[q] = hkey[p]
               PROVE  q = p
    OBVIOUS
  <2>1. PICK c \in Slots(t) : p \in ToSet(S[c])
    BY <1>1, <1>2, InLemma
  <2>2. PICK d \in Slots(t) : q \in ToSet(S[d])
    BY <1>1, InLemma
  <2>3. c = d
    BY <1>1, <2>1, <2>2 DEF Keyed
  <2> QED BY <1>1, <2>1, <2>2, <2>3 DEF Keyed
<1>5. Kept(M, t)' = Kept(S, t) \ Abs!With(Kept(S, t), {hkey[p]})
  <2>1. \A e : e \in Abs!With(Kept(S, t), {hkey[p]}) <=> e \in Kept(S, t) /\ e[1] = hkey[p]
    BY DEF Abs!With
  <2>2. \A q : <<hkey[q], data[q]>>[1] = hkey[q]
    OBVIOUS
  <2>3. \A e : e \in Kept(M, t)' <=> e \in Kept(S, t) /\ e[1] # hkey[p]
    BY <1>1, <1>2, <1>3, <1>4, <2>2
  <2> QED BY <2>1, <2>3
<1>6. AbsMap' = [AbsMap EXCEPT ![t] = @ \ Abs!With(@, {hkey[p]})]
  BY <1>2, <1>5
<1>7. AbsDeleted' = AbsDeleted
  <2>1. Lost(S, t) = {}
    BY <1>1 DEF Lost
  <2> QED BY <1>1, <1>2, <2>1
<1>8. <<hkey[p], data[p]>> \in AbsMap[t]
  BY <1>2, <1>3
<1> QED BY <1>6, <1>7, <1>8

LEMMA InsertView ==
  ASSUME HashConstants, Typed, NEW S, Good(S), NEW t \in Tables, call[t] = "none",
         NEW M, Good(M)', NEW k \in Keys, NEW d \in Items, WithCaller(d),
         NEW p, Joined(S, M, t, k, d, p), arg' = arg, deleted' = deleted \ {d}
  PROVE  /\ AbsMap' = [AbsMap EXCEPT ![t] = @ \cup {<<k, d>>}]
         /\ AbsDeleted' = AbsDeleted \ {d} /\ Abs!With(AbsMap[t], {k}) = {}
<1>1. arg[t] = {} /\ Chains(link, S, chunks)
  BY DEF Good, Table, Looping
<1>2. /\ p \in Addresses /\ p \notin In(S, t) /\ In(M, t) = In(S, t) \cup {p}
      /\ hkey' = [hkey EXCEPT ![p] = k] /\ data' = [data EXCEPT ![p] = d]
      /\ \A u \in Tables \ {t} : p \notin In(S, u) /\ \A c \in Slots(u) : M[c] = S[c]
      /\ \A q \in In(S, t) : hkey[q] # k
  BY DEF Joined
<1>3. \A u \in Tables : In(S, u) \subseteq Addresses
  BY <1>1, InLemma
<1>4. /\ hkey'[p] = k /\ data'[p] = d
      /\ \A q \in Addresses : q # p => hkey'[q] = hkey[q] /\ data'[q] = data[q]
  BY <1>2 DEF Typed
<1>5. \A u \in Tables \ {t} :
        /\ arg'[u] = arg[u] /\ In(M, u) = In(S, u)
        /\ \A q \in In(S, u) : hkey'[q] = hkey[q] /\ data'[q] = data[q]
  <2>1. \A u \in Tables \ {t} : In(M, u) = In(S, u)
    BY <1>2 DEF In
  <2> QED BY <1>2, <1>3, <1>4, <2>1
<1>6. /\ AbsMap[t] = Kept(S, t)
      /\ AbsMap' = [AbsMap EXCEPT ![t] = Kept(M, t)']
      /\ \A x : x \in AbsDeleted <=>
               x \in deleted \/ x \in Lost(S, t) \/ Elsewhere(S, t, x)
      /\ \A x : x \in AbsDeleted' <=>
               x \in deleted' \/ x \in Lost(M, t)' \/ Elsewhere(S, t, x)
  BY <1>5, ChangeLemma
<1>7. Lost(S, t) = {} /\ Lost(M, t)' = {}
  BY <1>1 DEF Lost
<1>8. Kept(M, t)' = Kept(S, t) \cup {<<k, d>>}
  <2>1. \A e : e \in Kept(S, t) <=> \E q \in In(S, t) : e = <<hkey[q], data[q]>>
    BY <1>1 DEF Kept
  <2>2. \A e : e \in Kept(M, t)' <=> \E q \in In(M, t) : e = <<hkey'[q], data'[q]>>
    BY <1>1 DEF Kept
  <2>3. \A q \in In(S, t) : hkey'[q] = hkey[q] /\ data'[q] = data[q]
    BY <1>2, <1>3, <1>4
  <2> QED BY <1>2, <1>4, <2>1, <2>2, <2>3
<1>9. Abs!With(AbsMap[t], {k}) = {}
  <2>1. \A e \in Kept(S, t) : e[1] # k
    BY <1>2 DEF Kept
  <2> QED BY <1>6, <2>1 DEF Abs!With
<1>10. \A x : Elsewhere(S, t, x) => x # d
  <2>1. \A a \in Addresses : data[a] # d
    BY DEF WithCaller
  <2> QED BY <1>3, <2>1 DEF Elsewhere, Lost
<1>11. AbsDeleted' = AbsDeleted \ {d}
  BY <1>6, <1>7, <1>10
<1>12. AbsMap' = [AbsMap EXCEPT ![t] = @ \cup {<<k, d>>}]
  BY <1>6, <1>8
<1> QED BY <1>9, <1>11, <1>12

(***************************************************************************)
(* The refinement, one action at a time.                                   *)
(***************************************************************************)
AbsStep == Abs!Next \/ UNCHANGED <<AbsLive, AbsMap, ret, AbsDeleted>>

LEMMA AbsActions ==
  ASSUME NEW t \in Tables
  PROVE  /\ t \notin AbsLive /\ AbsLive' = AbsLive \cup {t} /\ ret' = Null
            /\ UNCHANGED <<AbsMap, AbsDeleted>> => AbsStep
         /\ t \in AbsLive /\ AbsLive' = AbsLive \ {t} /\ ret' = Null
            /\ AbsDeleted' = AbsDeleted \cup Abs!ItemsOf(AbsMap[t])
            /\ AbsMap' = [AbsMap EXCEPT ![t] = {}] => AbsStep
         /\ t \in AbsLive /\ ret' = Null
            /\ UNCHANGED <<AbsLive, AbsMap, AbsDeleted>> => AbsStep
         /\ \A k \in Keys : \A d \in Items :
               t \in AbsLive /\ AbsLive' = AbsLive /\ ret' = d
               /\ AbsDeleted' = AbsDeleted \ {d} /\ Abs!With(AbsMap[t], {k}) = {}
               /\ AbsMap' = [AbsMap EXCEPT ![t] = @ \cup {<<k, d>>}] => AbsStep
         /\ \A k \in Keys :
               t \in AbsLive /\ UNCHANGED <<AbsLive, AbsDeleted>>
               /\ (\/ Abs!With(AbsMap[t], {k}) = {} /\ ret' = Null
                   \/ <<k, ret'>> \in AbsMap[t])
               /\ AbsMap' = [AbsMap EXCEPT ![t] = @ \ Abs!With(@, {k})] => AbsStep
         /\ \A K \in SUBSET Keys :
               t \in AbsLive /\ AbsLive' = AbsLive /\ ret' = Null
               /\ AbsDeleted' = AbsDeleted \cup Abs!ItemsOf(Abs!With(AbsMap[t], K))
               /\ AbsMap' = [AbsMap EXCEPT ![t] = @ \ Abs!With(@, K)] => AbsStep
<1>1. t \notin AbsLive /\ AbsLive' = AbsLive \cup {t} /\ ret' = Null
      /\ UNCHANGED <<AbsMap, AbsDeleted>> => Abs!Create(t)
  BY DEF Abs!Create, AbsLive, AbsMap, AbsDeleted
<1>2. t \in AbsLive /\ AbsLive' = AbsLive \ {t} /\ ret' = Null
      /\ AbsDeleted' = AbsDeleted \cup Abs!ItemsOf(AbsMap[t])
      /\ AbsMap' = [AbsMap EXCEPT ![t] = {}] => Abs!Destroy(t)
  BY DEF Abs!Destroy, AbsLive, AbsMap, AbsDeleted
<1>3. t \in AbsLive /\ ret' = Null
      /\ UNCHANGED <<AbsLive, AbsMap, AbsDeleted>> => Abs!InsertFails(t)
  BY DEF Abs!InsertFails, AbsLive, AbsMap, AbsDeleted
<1>4. \A k \in Keys : \A d \in Items :
        t \in AbsLive /\ AbsLive' = AbsLive /\ ret' = d
        /\ AbsDeleted' = AbsDeleted \ {d} /\ Abs!With(AbsMap[t], {k}) = {}
        /\ AbsMap' = [AbsMap EXCEPT ![t] = @ \cup {<<k, d>>}] => Abs!Insert(t, k, d)
  BY DEF Abs!Insert, AbsLive, AbsMap, AbsDeleted
<1>5. \A k \in Keys :
        t \in AbsLive /\ UNCHANGED <<AbsLive, AbsDeleted>>
        /\ (\/ Abs!With(AbsMap[t], {k}) = {} /\ ret' = Null
            \/ <<k, ret'>> \in AbsMap[t])
        /\ AbsMap' = [AbsMap EXCEPT ![t] = @ \ Abs!With(@, {k})] => Abs!Remove(t, k)
  BY DEF Abs!Remove, AbsLive, AbsMap, AbsDeleted
<1>6. \A K \in SUBSET Keys :
        t \in AbsLive /\ AbsLive' = AbsLive /\ ret' = Null
        /\ AbsDeleted' = AbsDeleted \cup Abs!ItemsOf(Abs!With(AbsMap[t], K))
        /\ AbsMap' = [AbsMap EXCEPT ![t] = @ \ Abs!With(@, K)] => Abs!DeleteIf(t, K)
  BY DEF Abs!DeleteIf, AbsLive, AbsMap, AbsDeleted
<1> QED BY <1>1, <1>2, <1>3, <1>4, <1>5, <1>6 DEF AbsStep, Abs!Next

(* The steps of a loop change nothing that a caller sees.                  *)
LEMMA LoopStepRefines ==
  ASSUME HashConstants, Typed, NEW S, Good(S), NEW t \in Tables, LoopStep(t)
  PROVE  AbsStep
<1> SUFFICES AbsLive' = AbsLive /\ AbsMap' = AbsMap /\ ret' = ret /\ AbsDeleted' = AbsDeleted
  BY DEF AbsStep
<1>1. CASE FreeNext(t)
  <2>1. PICK M, p : /\ Good(M)' /\ Took(S, M, t, p)
                    /\ hkey[p] \in arg[t] /\ deleted' = deleted \cup {data[p]}
    BY <1>1, FreeNextStep
  <2>2. live' = live /\ call' = call /\ arg' = arg /\ ret' = ret
    BY <1>1 DEF FreeNext, loop
  <2>3. AbsMap' = AbsMap /\ AbsDeleted' = AbsDeleted
    BY <2>1, <2>2, FreeNextView
  <2> QED BY <2>2, <2>3 DEF AbsLive
<1>2. CASE KeepNext(t) \/ NextSlot(t)
  <2>1. Good(S)'
    BY <1>2, KeepNextStep, NextSlotStep
  <2>2. UNCHANGED <<live, hkey, data, call, arg, ret, deleted>>
    BY <1>2 DEF KeepNext, NextSlot, nodes
  <2>3. AbsMap' = AbsMap /\ AbsDeleted' = AbsDeleted
    BY <2>1, <2>2, SameView
  <2> QED BY <2>2, <2>3 DEF AbsLive
<1>3. CASE Return(t)
  <2>1. Good(S)' /\ \A p \in In(S, t) : hkey[p] \notin arg[t]
    BY <1>3, ReturnStep
  <2>2. /\ UNCHANGED <<hkey, data, ret, deleted>>
        /\ call[t] # "none" /\ call' = [call EXCEPT ![t] = "none"]
        /\ arg' = [arg EXCEPT ![t] = {}]
        /\ live' = IF call[t] = "destroy" THEN live \ {t} ELSE live
    BY <1>3 DEF Return
  <2>3. arg'[t] = {} /\ \A u \in Tables \ {t} : arg'[u] = arg[u]
    BY <2>2 DEF Typed
  <2>4. /\ AbsMap[t] = Kept(S, t)
        /\ AbsMap' = [AbsMap EXCEPT ![t] = Kept(S, t)']
        /\ \A x : x \in AbsDeleted <=>
                 x \in deleted \/ x \in Lost(S, t) \/ Elsewhere(S, t, x)
        /\ \A x : x \in AbsDeleted' <=>
                 x \in deleted' \/ x \in Lost(S, t)' \/ Elsewhere(S, t, x)
    BY <2>1, <2>2, <2>3, ChangeLemma
  <2>5. Lost(S, t) = {} /\ Lost(S, t)' = {} /\ Kept(S, t)' = Kept(S, t)
    BY <2>1, <2>2, <2>3 DEF Kept, Lost
  <2>6. AbsMap' = AbsMap
    BY <2>4, <2>5 DEF AbsMap
  <2>7. AbsDeleted' = AbsDeleted
    BY <2>2, <2>4, <2>5
  <2>8. \A u \in Tables : u # t => call'[u] = call[u]
    BY <2>2 DEF Typed
  <2>9. call'[t] = "none" /\ (call[t] # "destroy" => t \in AbsLive \/ t \notin live)
    BY <2>2 DEF Typed, AbsLive
  <2>10. AbsLive' = AbsLive
    BY <2>2, <2>8, <2>9 DEF Typed, AbsLive
  <2> QED BY <2>2, <2>6, <2>7, <2>10
<1> QED BY <1>1, <1>2, <1>3 DEF LoopStep

LEMMA LoopRefines ==
  ASSUME HashConstants, Typed, NEW S, Good(S), NEW t \in Tables,
         hash_destroy(t) \/ \E K \in SUBSET Keys : hash_delete_if(t, K)
  PROVE  AbsStep
<1>1. CASE hash_destroy(t)
  <2>1. Loop(t, "destroy", Keys) /\ Keys \in SUBSET Keys
    BY <1>1 DEF hash_destroy
  <2>2. Good(S)'
    BY <2>1, LoopStarts
  <2>3. /\ AbsMap' = [AbsMap EXCEPT ![t] = @ \ Abs!With(@, Keys)]
        /\ AbsDeleted' = AbsDeleted \cup Abs!ItemsOf(Abs!With(AbsMap[t], Keys))
        /\ \A e \in AbsMap[t] : e[1] \in Keys
    BY <2>1, <2>2, LoopView
  <2>4. Abs!With(AbsMap[t], Keys) = AbsMap[t]
    BY <2>3 DEF Abs!With
  <2>5. t \in live /\ call[t] = "none" /\ live' = live /\ ret' = Null
        /\ call' = [call EXCEPT ![t] = "destroy"]
    BY <2>1 DEF Loop, Calls
  <2>6. t \in AbsLive /\ AbsLive' = AbsLive \ {t}
    BY <2>5 DEF AbsLive, Typed
  <2>7. AbsMap' = [AbsMap EXCEPT ![t] = {}]
    BY <2>3, <2>4
  <2> QED BY <2>3, <2>4, <2>5, <2>6, <2>7, AbsActions
<1>2. CASE \E K \in SUBSET Keys : hash_delete_if(t, K)
  <2>1. PICK K \in SUBSET Keys : Loop(t, "delete_if", K)
    BY <1>2 DEF hash_delete_if
  <2>2. Good(S)'
    BY <2>1, LoopStarts
  <2>3. /\ AbsMap' = [AbsMap EXCEPT ![t] = @ \ Abs!With(@, K)]
        /\ AbsDeleted' = AbsDeleted \cup Abs!ItemsOf(Abs!With(AbsMap[t], K))
    BY <2>1, <2>2, LoopView
  <2>4. t \in live /\ call[t] = "none" /\ live' = live /\ ret' = Null
        /\ call' = [call EXCEPT ![t] = "delete_if"]
    BY <2>1 DEF Loop, Calls
  <2>5. t \in AbsLive /\ AbsLive' = AbsLive
    BY <2>4 DEF AbsLive, Typed
  <2> QED BY <2>3, <2>4, <2>5, AbsActions
<1> QED BY <1>1, <1>2

LEMMA CallRefines ==
  ASSUME HashConstants, Typed, NEW S, Good(S), NEW t \in Tables, NEW k \in Keys,
         \/ hash_remove(t, k)
         \/ \E d \in Items : WithCaller(d) /\ hash_insert(t, k, d)
  PROVE  AbsStep
<1>1. /\ t \in live /\ call[t] = "none" /\ live' = live /\ call' = call /\ arg' = arg
  BY DEF hash_remove, hash_insert, Calls, loop
<1>2. t \in AbsLive /\ AbsLive' = AbsLive
  BY <1>1 DEF AbsLive
<1>3. CASE hash_remove(t, k)
  <2>1. deleted' = deleted
    BY <1>3 DEF hash_remove
  <2>2. CASE /\ Good(S)' /\ UNCHANGED nodes
             /\ ret' = Null /\ \A q \in In(S, t) : hkey[q] # k
    <3>1. AbsMap' = AbsMap /\ AbsDeleted' = AbsDeleted
      BY <1>1, <2>1, <2>2, SameView DEF nodes
    <3>2. Abs!With(AbsMap[t], {k}) = {}
      <4>1. View(S)
        BY ViewLemma
      <4>2. AbsMap[t] = Kept(S, t)
        BY <4>1 DEF View
      <4>3. \A e \in Kept(S, t) : e[1] # k
        BY <2>2 DEF Kept
      <4> QED BY <4>2, <4>3 DEF Abs!With
    <3>3. AbsMap' = [AbsMap EXCEPT ![t] = @ \ Abs!With(@, {k})]
      BY <3>1, <3>2 DEF AbsMap
    <3> QED BY <1>2, <2>2, <3>1, <3>2, <3>3, AbsActions
  <2>3. CASE \E M, p : /\ Good(M)' /\ Took(S, M, t, p)
                       /\ hkey[p] = k /\ ret' = data[p]
    <3>1. PICK M, p : Good(M)' /\ Took(S, M, t, p) /\ hkey[p] = k /\ ret' = data[p]
      BY <2>3
    <3>2. /\ AbsMap' = [AbsMap EXCEPT ![t] = @ \ Abs!With(@, {hkey[p]})]
          /\ AbsDeleted' = AbsDeleted /\ <<hkey[p], data[p]>> \in AbsMap[t]
      BY <1>1, <2>1, <3>1, RemoveView
    <3>3. /\ AbsMap' = [AbsMap EXCEPT ![t] = @ \ Abs!With(@, {k})]
          /\ <<k, ret'>> \in AbsMap[t]
      BY <3>1, <3>2
    <3> QED BY <1>2, <3>2, <3>3, AbsActions
  <2> QED BY <1>3, <2>2, <2>3, RemoveStep
<1>4. ASSUME NEW d \in Items, WithCaller(d), hash_insert(t, k, d)
      PROVE  AbsStep
  <2>1. CASE Good(S)' /\ UNCHANGED <<nodes, deleted>> /\ ret' = Null
    <3>1. AbsMap' = AbsMap /\ AbsDeleted' = AbsDeleted
      BY <1>1, <2>1, SameView DEF nodes
    <3> QED BY <1>2, <2>1, <3>1, AbsActions
  <2>2. CASE \E M, p : /\ Good(M)' /\ Joined(S, M, t, k, d, p)
                       /\ ret' = d /\ deleted' = deleted \ {d}
    <3>1. PICK M, p : /\ Good(M)' /\ Joined(S, M, t, k, d, p)
                      /\ ret' = d /\ deleted' = deleted \ {d}
      BY <2>2
    <3>2. /\ AbsMap' = [AbsMap EXCEPT ![t] = @ \cup {<<k, d>>}]
          /\ AbsDeleted' = AbsDeleted \ {d} /\ Abs!With(AbsMap[t], {k}) = {}
      BY <1>1, <1>4, <3>1, InsertView
    <3> QED BY <1>2, <3>1, <3>2, AbsActions
  <2> QED BY <1>4, <2>1, <2>2, InsertStep
<1> QED BY <1>3, <1>4

LEMMA StepRefines ==
  ASSUME HashConstants, Inv, [Next]_vars
  PROVE  AbsStep
<1>1. Typed
  BY DEF Inv
<1>2. PICK S : Good(S)
  BY DEF Inv
<1>3. CASE UNCHANGED vars
  <2>1. UNCHANGED <<live, nodes, loop, ret, deleted>>
    BY <1>3 DEF vars
  <2>2. live \subseteq live' /\ live' \subseteq Tables
    BY <1>1, <2>1 DEF Typed
  <2>3. Good(S)'
    BY <1>1, <1>2, <2>1, <2>2, SameStep
  <2>4. AbsMap' = AbsMap /\ AbsDeleted' = AbsDeleted
    BY <1>2, <2>1, <2>3, SameView DEF nodes, loop
  <2> QED BY <2>1, <2>4 DEF AbsStep, AbsLive, loop
<1>4. ASSUME NEW t \in Tables, hash_create(t)
      PROVE  AbsStep
  <2>1. /\ t \notin live /\ live' = live \cup {t} /\ ret' = Null
        /\ UNCHANGED <<nodes, loop, deleted>>
    BY <1>4 DEF hash_create
  <2>2. call[t] = "none"
    BY <1>2, <2>1 DEF Good, Table, Counted
  <2>3. t \notin AbsLive /\ AbsLive' = AbsLive \cup {t}
    BY <2>1, <2>2 DEF AbsLive, loop
  <2>4. Good(S)'
    BY <1>1, <1>2, <1>4, CreateStep
  <2>5. AbsMap' = AbsMap /\ AbsDeleted' = AbsDeleted
    BY <1>2, <2>1, <2>4, SameView DEF nodes, loop
  <2> QED BY <2>1, <2>3, <2>5, AbsActions
<1>5. ASSUME NEW t \in Tables,
             \/ hash_destroy(t) \/ LoopStep(t)
             \/ \E K \in SUBSET Keys : hash_delete_if(t, K)
             \/ \E k \in Keys : \/ hash_remove(t, k)
                                \/ \E d \in Items : WithCaller(d) /\ hash_insert(t, k, d)
      PROVE  AbsStep
  BY <1>1, <1>2, <1>5, LoopRefines, LoopStepRefines, CallRefines
<1> QED BY <1>3, <1>4, <1>5 DEF Next

(* The hashes implement the maps of HashAbs, whatever calls on other       *)
(* hashes come between the steps of a loop.                                *)
THEOREM HashImplementsMaps == ASSUME HashConstants PROVE Spec => Implemented
<1>1. Init => Abs!Init
  <2> SUFFICES ASSUME Init
               PROVE  Abs!Init
    OBVIOUS
  <2>1. live = {} /\ ret = Null /\ deleted = {}
    BY DEF Init
  <2>2. \A t \in Tables : Contents(t) = {} /\ Doomed(t) = {}
    <3>1. PICK S : Good(S)
      BY InitHolds DEF Inv
    <3>2. \A t \in Tables : NodesIn(t) = {}
      BY <2>1, <3>1, NodesInLemma DEF Good, Table, Counted
    <3> QED BY <3>2 DEF Contents, Doomed
  <2>3. [t \in Tables |-> Contents(t)] = [t \in Tables |-> {}]
        /\ UNION {Doomed(t) : t \in Tables} = {}
    BY <2>2
  <2> QED BY <2>1, <2>3 DEF Abs!Init
<1>2. Inv /\ [Next]_vars => [Abs!Next]_(Abs!vars)
  BY StepRefines DEF AbsStep, Abs!vars, AbsLive, AbsMap, AbsDeleted
<1> QED BY <1>1, <1>2, InvHolds, PTL DEF Spec, Implemented, Abs!Spec
=============================================================================
