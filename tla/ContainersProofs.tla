-------------------------- MODULE ContainersProofs --------------------------
(***************************************************************************)
(* The pointers of list.c, for any number of nodes and iterators: what is  *)
(* on them is a sequence, and each iterator stands somewhere in it.  Then, *)
(* that what is proved of a list alone, and in HashProofs of hashes alone, *)
(* holds of them in a program that uses both: they share nothing.          *)
(***************************************************************************)
EXTENDS Containers, FiniteSetTheorems, WellFoundedInduction, TLAPS

(* The cell in front of the k+1st node and the pointer in it.              *)
CellAt(s, k) == IF k = 0 THEN HeadCell ELSE s[k]
Succ(s, k) == IF k < Len(s) THEN s[k + 1] ELSE Null

Linked(nx, s) ==
  /\ nx \in [Cells -> Nodes \cup {Null}]
  /\ s \in Seq(Nodes) /\ IsInjective(s)
  /\ \A k \in 0..Len(s) : nx[CellAt(s, k)] = Succ(s, k)

Ins(s, j, x) == [n \in 1..Len(s) + 1 |-> IF n <= j THEN s[n]
                                         ELSE IF n = j + 1 THEN x ELSE s[n - 1]]
Del(s, m) == [n \in 1..Len(s) - 1 |-> IF n <= m THEN s[n] ELSE s[n + 1]]

LEMMA LeastLemma ==
  ASSUME NEW T, T \subseteq Nat, T # {}
  PROVE  \E x \in T : \A y \in T : x <= y
<1>1. PICK x \in T : \A y \in T : ~(<<y, x>> \in OpToRel(<, Nat))
  BY NatLessThanWellFounded, WFMin
<1>2. \A y \in T : x \in Nat /\ y \in Nat /\ ~(y < x)
  BY <1>1, Zenon DEF OpToRel
<1> QED BY <1>2

(***************************************************************************)
(* Cells.                                                                  *)
(***************************************************************************)
LEMMA CellLemma ==
  ASSUME NEW nx, NEW s, Linked(nx, s)
  PROVE  /\ Len(s) \in Nat /\ DOMAIN s = 1..Len(s)
         /\ \A k \in 1..Len(s) : s[k] \in Nodes
         /\ \A k \in 0..Len(s) : CellAt(s, k) \in Cells
         /\ \A k \in 0..Len(s) : Succ(s, k) \in Nodes \cup {Null}
         /\ \A k, l \in 0..Len(s) : CellAt(s, k) = CellAt(s, l) => k = l
         /\ \A k, l \in 0..Len(s) : Succ(s, k) = Succ(s, l) => k = l
         /\ \A k \in 0..Len(s), l \in 1..Len(s) : CellAt(s, k) = s[l] => k = l
         /\ \A k \in 0..Len(s), l \in 1..Len(s) : Succ(s, k) = s[l] => k = l - 1
<1>1. Len(s) \in Nat /\ DOMAIN s = 1..Len(s)
  BY DEF Linked
<1>2. \A k \in 1..Len(s) : s[k] \in Nodes /\ s[k] # HeadCell /\ s[k] # Null
  BY NodesAssumption DEF Linked, Cells
<1>3. \A k, l \in 1..Len(s) : s[k] = s[l] => k = l
  BY <1>1 DEF Linked, IsInjective
<1>4. \A k \in 0..Len(s) : k # 0 => k \in 1..Len(s)
  OBVIOUS
<1>5. \A k \in 0..Len(s) : k < Len(s) => k + 1 \in 1..Len(s)
  BY <1>1
<1>6. \A k, l \in 0..Len(s) : ~(k < Len(s)) /\ ~(l < Len(s)) => k = l
  BY <1>1
<1>7. \A k, l \in 0..Len(s) : k + 1 = l + 1 => k = l
  BY <1>1
<1>8. \A k \in 0..Len(s) : CellAt(s, k) \in Cells
  BY <1>2, <1>4 DEF CellAt, Cells
<1>9. \A k \in 0..Len(s) : Succ(s, k) \in Nodes \cup {Null}
  BY <1>2, <1>5 DEF Succ
<1>10. \A k, l \in 0..Len(s) : CellAt(s, k) = CellAt(s, l) => k = l
  BY <1>2, <1>3, <1>4 DEF CellAt
<1>11. \A k, l \in 0..Len(s) : Succ(s, k) = Succ(s, l) => k = l
  BY <1>2, <1>3, <1>5, <1>6, <1>7 DEF Succ
<1>12. \A k \in 0..Len(s), l \in 1..Len(s) : CellAt(s, k) = s[l] => k = l
  BY <1>2, <1>3, <1>4 DEF CellAt
<1>13. \A k \in 0..Len(s), l \in 1..Len(s) : Succ(s, k) = s[l] => k = l - 1
  <2>1. \A k \in 0..Len(s), l \in 1..Len(s) : k + 1 = l => k = l - 1
    BY <1>1
  <2> QED BY <1>2, <1>3, <1>5, <2>1 DEF Succ
<1> QED BY <1>1, <1>2, <1>8, <1>9, <1>10, <1>11, <1>12, <1>13

(* A node put behind cell j.                                               *)
LEMMA InsLemma ==
  ASSUME NEW s \in Seq(Nodes), IsInjective(s), NEW j \in 0..Len(s),
         NEW x \in Nodes, x \notin ToSet(s)
  PROVE  LET t == Ins(s, j, x)
         IN  /\ t \in Seq(Nodes) /\ IsInjective(t) /\ Len(t) = Len(s) + 1
             /\ ToSet(t) = ToSet(s) \cup {x}
             /\ \A k \in 0..j : CellAt(t, k) = CellAt(s, k)
             /\ CellAt(t, j + 1) = x
             /\ \A k \in j + 1..Len(s) : CellAt(t, k + 1) = CellAt(s, k)
             /\ \A k \in 0..j - 1 : Succ(t, k) = Succ(s, k)
             /\ Succ(t, j) = x
             /\ \A k \in j..Len(s) : Succ(t, k + 1) = Succ(s, k)
<1> DEFINE t == Ins(s, j, x)
           l == Len(s)
<1>1. l \in Nat /\ j \in Nat /\ DOMAIN s = 1..l /\ \A n \in 1..l : s[n] \in Nodes
  OBVIOUS
<1>2. \A n \in 1..l + 1 : /\ n <= j => n \in 1..l
                          /\ n > j + 1 => n - 1 \in 1..l
  BY <1>1
<1>3. t \in [1..l + 1 -> Nodes]
  BY <1>1, <1>2 DEF Ins
<1>4. t \in Seq(Nodes) /\ Len(t) = l + 1 /\ DOMAIN t = 1..l + 1
  BY <1>1, <1>3
<1>5. /\ \A n \in 1..j : t[n] = s[n]
      /\ t[j + 1] = x
      /\ \A n \in j + 1..l : t[n + 1] = s[n]
  <2>1. \A n \in 1..j : n \in 1..l + 1 /\ n <= j
    BY <1>1
  <2>2. j + 1 \in 1..l + 1 /\ ~(j + 1 <= j)
    BY <1>1
  <2>3. \A n \in j + 1..l : n + 1 \in 1..l + 1 /\ ~(n + 1 <= j) /\ n + 1 # j + 1 /\ (n + 1) - 1 = n
    BY <1>1
  <2> QED BY <2>1, <2>2, <2>3 DEF Ins
<1> HIDE DEF t
<1>6. \A n \in 1..l + 1 : n \in 1..j \/ n = j + 1 \/ n - 1 \in j + 1..l
  BY <1>1
<1>7. IsInjective(t)
  <2>1. \A n \in 1..l : s[n] # x
    BY <1>1 DEF ToSet
  <2>2. \A m, n \in 1..l : s[m] = s[n] => m = n
    BY <1>1 DEF IsInjective
  <2>3. \A n \in 1..l + 1 : n - 1 \in j + 1..l => n - 1 \in 1..l /\ t[n] = s[n - 1]
    <3>1. \A n \in 1..l + 1 : (n - 1) + 1 = n
      BY <1>1
    <3> QED BY <1>1, <1>5, <3>1
  <2>4. \A n \in 1..j : n \in 1..l
    BY <1>1
  <2>5. \A n \in 1..l + 1 : n # j + 1 => t[n] # x
    BY <1>5, <1>6, <2>1, <2>3, <2>4
  <2>6. ASSUME NEW m \in 1..l + 1, NEW n \in 1..l + 1, t[m] = t[n]
        PROVE  m = n
    <3>1. CASE m = j + 1 \/ n = j + 1
      BY <1>5, <2>5, <2>6, <3>1
    <3>2. CASE m \in 1..j /\ n \in 1..j
      BY <1>5, <2>2, <2>4, <2>6, <3>2
    <3>3. CASE m \in 1..j /\ n - 1 \in j + 1..l
      <4>1. m = n - 1
        BY <1>5, <2>2, <2>3, <2>4, <2>6, <3>3
      <4> QED BY <1>1, <3>3, <4>1
    <3>4. CASE m - 1 \in j + 1..l /\ n \in 1..j
      <4>1. n = m - 1
        BY <1>5, <2>2, <2>3, <2>4, <2>6, <3>4
      <4> QED BY <1>1, <3>4, <4>1
    <3>5. CASE m - 1 \in j + 1..l /\ n - 1 \in j + 1..l
      <4>1. m - 1 = n - 1
        BY <2>2, <2>3, <2>6, <3>5
      <4> QED BY <1>1, <4>1
    <3> QED BY <1>6, <3>1, <3>2, <3>3, <3>4, <3>5
  <2> QED BY <1>4, <2>6 DEF IsInjective
<1>8. ToSet(t) = ToSet(s) \cup {x}
  <2>1. \A n \in 1..l + 1 : t[n] \in ToSet(s) \cup {x}
    <3>1. \A n \in 1..l + 1 : n - 1 \in j + 1..l => (n - 1) + 1 = n /\ n - 1 \in 1..l
      BY <1>1
    <3>2. \A n \in 1..j : n \in 1..l
      BY <1>1
    <3>3. \A n \in 1..l : s[n] \in ToSet(s)
      BY <1>1 DEF ToSet
    <3> SUFFICES ASSUME NEW n \in 1..l + 1 PROVE t[n] \in ToSet(s) \cup {x}
      OBVIOUS
    <3>4. CASE n \in 1..j
      BY <1>5, <3>2, <3>3, <3>4
    <3>5. CASE n = j + 1
      BY <1>5, <3>5
    <3>6. CASE n - 1 \in j + 1..l
      <4>1. t[n] = s[n - 1] /\ n - 1 \in 1..l
        BY <1>5, <3>1, <3>6
      <4> QED BY <3>3, <4>1
    <3> QED BY <1>6, <3>4, <3>5, <3>6
  <2>2. \A n \in 1..l : \E m \in 1..l + 1 : t[m] = s[n]
    <3>1. \A n \in 1..l : \/ n \in 1..j /\ n \in 1..l + 1
                          \/ n \in j + 1..l /\ n + 1 \in 1..l + 1
      BY <1>1
    <3> QED BY <1>5, <3>1
  <2>3. j + 1 \in 1..l + 1
    BY <1>1
  <2>4. ToSet(t) = {t[n] : n \in 1..l + 1} /\ ToSet(s) = {s[n] : n \in 1..l}
    BY <1>1, <1>4 DEF ToSet
  <2> HIDE DEF l
  <2> QED BY <1>5, <2>1, <2>2, <2>3, <2>4
<1>9. /\ \A k \in 0..j : CellAt(t, k) = CellAt(s, k)
      /\ CellAt(t, j + 1) = x
      /\ \A k \in j + 1..l : CellAt(t, k + 1) = CellAt(s, k)
  BY <1>1, <1>5 DEF CellAt
<1>10. /\ \A k \in 0..j - 1 : Succ(t, k) = Succ(s, k)
       /\ Succ(t, j) = x
       /\ \A k \in j..l : Succ(t, k + 1) = Succ(s, k)
  BY <1>1, <1>4, <1>5 DEF Succ
<1> QED BY <1>4, <1>7, <1>8, <1>9, <1>10 DEF t

(* The node behind cell m taken out.                                       *)
LEMMA DelLemma ==
  ASSUME NEW s \in Seq(Nodes), IsInjective(s), NEW m \in 0..Len(s) - 1
  PROVE  LET r == Del(s, m)
         IN  /\ r \in Seq(Nodes) /\ IsInjective(r) /\ Len(r) = Len(s) - 1
             /\ ToSet(r) = ToSet(s) \ {s[m + 1]}
             /\ \A k \in 0..m : CellAt(r, k) = CellAt(s, k)
             /\ \A k \in m + 2..Len(s) : CellAt(r, k - 1) = CellAt(s, k)
             /\ \A k \in 0..m - 1 : Succ(r, k) = Succ(s, k)
             /\ \A k \in m + 1..Len(s) : Succ(r, k - 1) = Succ(s, k)
<1> DEFINE r == Del(s, m)
           l == Len(s)
<1>1. l \in Nat /\ m \in Nat /\ l - 1 \in Nat /\ m + 1 \in 1..l /\ DOMAIN s = 1..l
      /\ \A n \in 1..l : s[n] \in Nodes
  OBVIOUS
<1>2. \A n \in 1..l - 1 : n \in 1..l /\ n + 1 \in 1..l
  BY <1>1
<1>3. r \in [1..l - 1 -> Nodes]
  BY <1>1, <1>2 DEF Del
<1>4. r \in Seq(Nodes) /\ Len(r) = l - 1 /\ DOMAIN r = 1..l - 1
  <2>1. \A b \in Nat : r \in [1..b -> Nodes] => r \in Seq(Nodes) /\ Len(r) = b /\ DOMAIN r = 1..b
    <3> HIDE DEF r
    <3> QED OBVIOUS
  <2> HIDE DEF r, l
  <2> QED BY <1>1, <1>3, <2>1
<1>5. /\ \A n \in 1..m : r[n] = s[n]
      /\ \A n \in m + 1..l - 1 : r[n] = s[n + 1]
  <2>1. \A n \in 1..m : n \in 1..l - 1 /\ n <= m
    BY <1>1
  <2>2. \A n \in m + 1..l - 1 : n \in 1..l - 1 /\ ~(n <= m)
    BY <1>1
  <2> QED BY <2>1, <2>2 DEF Del
<1> HIDE DEF r
<1>6. \A n \in 1..l - 1 : n \in 1..m \/ n \in m + 1..l - 1
  BY <1>1
<1>7. \A n \in 1..l - 1 : \/ n \in 1..m /\ n \in 1..l /\ n # m + 1
                          \/ n \in m + 1..l - 1 /\ n + 1 \in 1..l /\ n + 1 # m + 1
  BY <1>1
<1>8. \A k, n \in 1..l : s[k] = s[n] => k = n
  BY <1>1 DEF IsInjective
<1>9. IsInjective(r)
  <2>1. ASSUME NEW k \in 1..l - 1, NEW n \in 1..l - 1, r[k] = r[n]
        PROVE  k = n
    <3>1. CASE k \in 1..m /\ n \in 1..m
      BY <1>5, <1>7, <1>8, <2>1, <3>1
    <3>2. CASE k \in 1..m /\ n \in m + 1..l - 1
      <4>1. k = n + 1
        BY <1>2, <1>5, <1>8, <2>1, <3>2
      <4> QED BY <1>1, <3>2, <4>1
    <3>3. CASE k \in m + 1..l - 1 /\ n \in 1..m
      <4>1. k + 1 = n
        BY <1>2, <1>5, <1>8, <2>1, <3>3
      <4> QED BY <1>1, <3>3, <4>1
    <3>4. CASE k \in m + 1..l - 1 /\ n \in m + 1..l - 1
      <4>1. k + 1 = n + 1
        BY <1>2, <1>5, <1>8, <2>1, <3>4
      <4> QED BY <1>1, <4>1
    <3> QED BY <1>6, <3>1, <3>2, <3>3, <3>4
  <2> QED BY <1>4, <2>1 DEF IsInjective
<1>10. ToSet(r) = ToSet(s) \ {s[m + 1]}
  <2>1. \A n \in 1..l - 1 : \E k \in 1..l : s[k] # s[m + 1] /\ r[n] = s[k]
    BY <1>1, <1>5, <1>7, <1>8
  <2>2. ASSUME NEW n \in 1..l, n # m + 1
        PROVE  \E k \in 1..l - 1 : r[k] = s[n]
    <3>1. CASE n <= m
      <4>1. n \in 1..m /\ n \in 1..l - 1
        BY <1>1, <3>1
      <4> QED BY <1>5, <4>1
    <3>2. CASE ~(n <= m)
      <4>1. n - 1 \in m + 1..l - 1 /\ n - 1 \in 1..l - 1 /\ (n - 1) + 1 = n
        BY <1>1, <2>2, <3>2
      <4> QED BY <1>5, <4>1
    <3> QED BY <3>1, <3>2
  <2>3. ToSet(r) = {r[n] : n \in 1..l - 1} /\ ToSet(s) = {s[n] : n \in 1..l}
    BY <1>1, <1>4 DEF ToSet
  <2>4. \A n \in 1..l : s[n] # s[m + 1] => n # m + 1
    OBVIOUS
  <2> HIDE DEF l
  <2> QED BY <2>1, <2>2, <2>3, <2>4
<1>11. /\ \A k \in 0..m : CellAt(r, k) = CellAt(s, k)
       /\ \A k \in m + 2..l : CellAt(r, k - 1) = CellAt(s, k)
  <2>1. \A k \in 0..m : k # 0 => k \in 1..m
    BY <1>1
  <2>2. \A k \in m + 2..l : k # 0 /\ k - 1 # 0 /\ k - 1 \in m + 1..l - 1 /\ (k - 1) + 1 = k
    BY <1>1
  <2> QED BY <1>5, <2>1, <2>2 DEF CellAt
<1>12. /\ \A k \in 0..m - 1 : Succ(r, k) = Succ(s, k)
       /\ \A k \in m + 1..l : Succ(r, k - 1) = Succ(s, k)
  <2>1. \A k \in 0..m - 1 : k < l /\ k < l - 1 /\ k + 1 \in 1..m
    BY <1>1
  <2>2. \A k \in m + 1..l : /\ (k < l <=> k - 1 < l - 1)
                            /\ (k - 1) + 1 = k
                            /\ k < l => k \in m + 1..l - 1
    BY <1>1
  <2> QED BY <1>4, <1>5, <2>1, <2>2 DEF Succ
<1> QED BY <1>4, <1>9, <1>10, <1>11, <1>12 DEF r

(***************************************************************************)
(* The two assignments of list_node_create and the one of                  *)
(* list_node_destroy.                                                      *)
(***************************************************************************)
LEMMA LinkIns ==
  ASSUME NEW nx, NEW s, Linked(nx, s), NEW j \in 0..Len(s),
         NEW x \in Nodes, x \notin ToSet(s)
  PROVE  Linked([nx EXCEPT ![x] = nx[CellAt(s, j)], ![CellAt(s, j)] = x], Ins(s, j, x))
<1> DEFINE c == CellAt(s, j)
           t == Ins(s, j, x)
           ny == [nx EXCEPT ![x] = nx[c], ![c] = x]
<1>1. /\ Len(s) \in Nat /\ s \in Seq(Nodes) /\ IsInjective(s)
      /\ nx \in [Cells -> Nodes \cup {Null}]
      /\ \A k \in 0..Len(s) : nx[CellAt(s, k)] = Succ(s, k)
  BY CellLemma DEF Linked
<1>2. /\ \A k \in 0..Len(s) : CellAt(s, k) \in Cells /\ CellAt(s, k) # x
      /\ x \in Cells
  <2>1. \A k \in 1..Len(s) : s[k] # x
    BY <1>1 DEF ToSet
  <2>2. \A k \in 0..Len(s) : k # 0 => k \in 1..Len(s)
    OBVIOUS
  <2> QED BY <2>1, <2>2, CellLemma, NodesAssumption DEF CellAt, Cells
<1>3. /\ ny \in [Cells -> Nodes \cup {Null}] /\ ny[x] = Succ(s, j) /\ ny[c] = x
      /\ \A k \in 0..Len(s) : k # j => ny[CellAt(s, k)] = Succ(s, k)
  <2>1. c \in Cells /\ c # x /\ nx[c] = Succ(s, j) /\ Succ(s, j) \in Nodes \cup {Null}
    BY <1>1, <1>2, CellLemma
  <2>2. \A k \in 0..Len(s) : k # j => CellAt(s, k) # c
    BY CellLemma
  <2> HIDE DEF c
  <2> QED BY <1>1, <1>2, <2>1, <2>2
<1> HIDE DEF c, ny
<1>4. /\ t \in Seq(Nodes) /\ IsInjective(t) /\ Len(t) = Len(s) + 1
      /\ \A k \in 0..j : CellAt(t, k) = CellAt(s, k)
      /\ CellAt(t, j + 1) = x
      /\ \A k \in j + 1..Len(s) : CellAt(t, k + 1) = CellAt(s, k)
      /\ \A k \in 0..j - 1 : Succ(t, k) = Succ(s, k)
      /\ Succ(t, j) = x
      /\ \A k \in j..Len(s) : Succ(t, k + 1) = Succ(s, k)
  BY <1>1, InsLemma
<1> HIDE DEF t
<1>5. ASSUME NEW k \in 0..Len(t)
      PROVE  ny[CellAt(t, k)] = Succ(t, k)
  <2>1. CASE k < j
    <3>1. k \in 0..j /\ k \in 0..j - 1 /\ k \in 0..Len(s) /\ k # j
      BY <1>1, <2>1
    <3> QED BY <1>3, <1>4, <3>1
  <2>2. CASE k = j
    <3>1. k \in 0..j
      BY <2>2
    <3> QED BY <1>3, <1>4, <2>2, <3>1 DEF c
  <2>3. CASE k = j + 1
    <3>1. j \in j..Len(s)
      BY <1>1
    <3> QED BY <1>3, <1>4, <2>3, <3>1
  <2>4. CASE k > j + 1
    <3>1. /\ k - 1 \in j + 1..Len(s) /\ k - 1 \in j..Len(s) /\ (k - 1) + 1 = k
          /\ k - 1 \in 0..Len(s) /\ k - 1 # j
      BY <1>1, <1>4, <2>4
    <3>2. CellAt(t, k) = CellAt(s, k - 1) /\ Succ(t, k) = Succ(s, k - 1)
      BY <1>4, <3>1
    <3> QED BY <1>3, <3>1, <3>2
  <2>5. k < j \/ k = j \/ k = j + 1 \/ k > j + 1
    BY <1>1, <1>4
  <2> QED BY <2>1, <2>2, <2>3, <2>4, <2>5
<1> QED BY <1>3, <1>4, <1>5 DEF Linked, ny, t, c

LEMMA LinkDel ==
  ASSUME NEW nx, NEW s, Linked(nx, s), NEW m \in 0..Len(s) - 1
  PROVE  Linked([nx EXCEPT ![CellAt(s, m)] = nx[s[m + 1]]], Del(s, m))
<1> DEFINE c == CellAt(s, m)
           r == Del(s, m)
           ny == [nx EXCEPT ![c] = nx[s[m + 1]]]
<1>1. /\ Len(s) \in Nat /\ s \in Seq(Nodes) /\ IsInjective(s)
      /\ nx \in [Cells -> Nodes \cup {Null}]
      /\ \A k \in 0..Len(s) : nx[CellAt(s, k)] = Succ(s, k)
  BY CellLemma DEF Linked
<1>2. m \in 0..Len(s) /\ m + 1 \in 0..Len(s) /\ CellAt(s, m + 1) = s[m + 1]
  BY <1>1 DEF CellAt
<1>3. /\ ny \in [Cells -> Nodes \cup {Null}] /\ ny[c] = Succ(s, m + 1)
      /\ \A k \in 0..Len(s) : k # m => ny[CellAt(s, k)] = Succ(s, k)
  <2>1. /\ c \in Cells /\ nx[s[m + 1]] = Succ(s, m + 1) /\ Succ(s, m + 1) \in Nodes \cup {Null}
        /\ \A k \in 0..Len(s) : CellAt(s, k) \in Cells
    BY <1>1, <1>2, CellLemma
  <2>2. \A k \in 0..Len(s) : k # m => CellAt(s, k) # c
    BY <1>2, CellLemma
  <2> HIDE DEF c
  <2> QED BY <1>1, <2>1, <2>2
<1>4. /\ r \in Seq(Nodes) /\ IsInjective(r) /\ Len(r) = Len(s) - 1
      /\ \A k \in 0..m : CellAt(r, k) = CellAt(s, k)
      /\ \A k \in m + 2..Len(s) : CellAt(r, k - 1) = CellAt(s, k)
      /\ \A k \in 0..m - 1 : Succ(r, k) = Succ(s, k)
      /\ \A k \in m + 1..Len(s) : Succ(r, k - 1) = Succ(s, k)
  BY <1>1, DelLemma
<1> HIDE DEF r, ny
<1>5. ASSUME NEW k \in 0..Len(r)
      PROVE  ny[CellAt(r, k)] = Succ(r, k)
  <2>1. CASE k < m
    <3>1. k \in 0..m /\ k \in 0..m - 1 /\ k \in 0..Len(s) /\ k # m
      BY <1>1, <2>1
    <3> QED BY <1>3, <1>4, <3>1
  <2>2. CASE k = m
    <3>1. k \in 0..m /\ m + 1 \in m + 1..Len(s) /\ (m + 1) - 1 = m
      BY <1>1, <2>2
    <3>2. CellAt(r, k) = c /\ Succ(r, k) = Succ(s, m + 1)
      BY <1>4, <2>2, <3>1
    <3> QED BY <1>3, <3>2
  <2>3. CASE k > m
    <3>1. /\ k + 1 \in m + 2..Len(s) /\ k + 1 \in m + 1..Len(s) /\ (k + 1) - 1 = k
          /\ k + 1 \in 0..Len(s) /\ k + 1 # m
      BY <1>1, <1>4, <2>3
    <3>2. CellAt(r, k) = CellAt(s, k + 1) /\ Succ(r, k) = Succ(s, k + 1)
      BY <1>4, <3>1
    <3> QED BY <1>3, <3>1, <3>2
  <2>4. k < m \/ k = m \/ k > m
    BY <1>1, <1>4
  <2> QED BY <2>1, <2>2, <2>3, <2>4
<1> QED BY <1>3, <1>4, <1>5 DEF Linked, ny, r

(***************************************************************************)
(* Where an iterator stands: it came through cell k and goes to the node   *)
(* after cell a, which is k, or k + 1 after it returned node k + 1.        *)
(***************************************************************************)
Cursor(s, p, q, k, a) ==
  /\ k \in 0..Len(s) /\ a \in 0..Len(s) /\ (a = k \/ a = k + 1)
  /\ p = CellAt(s, k) /\ q = Succ(s, a)

Prefix(s, a) == {s[n] : n \in 1..a}

(* Iterator repair after list_node_create.                                 *)
LEMMA CreateCursor ==
  ASSUME NEW nx, NEW s, Linked(nx, s), NEW j \in 0..Len(s),
         NEW x \in Nodes, x \notin ToSet(s),
         NEW p, NEW q, NEW k, NEW a, Cursor(s, p, q, k, a)
  PROVE  LET t == Ins(s, j, x)
             here == CellAt(s, j)
             p2 == IF p = here THEN x ELSE p
             q2 == IF p # here /\ q = nx[here] THEN x ELSE q
         IN  \E b, c : /\ Cursor(t, p2, q2, b, c)
                       /\ IF k < j THEN b = k /\ c = a ELSE b = k + 1 /\ c = a + 1
                       /\ c = b + 1 => a = k + 1 /\ t[c] = s[a]
                       /\ Prefix(s, a) \subseteq Prefix(t, c)
                       /\ Prefix(t, c) \subseteq Prefix(s, a) \cup {x}
<1> DEFINE t == Ins(s, j, x)
           here == CellAt(s, j)
           p2 == IF p = here THEN x ELSE p
           q2 == IF p # here /\ q = nx[here] THEN x ELSE q
           Kept(b, c) == /\ Cursor(t, p2, q2, b, c)
                         /\ IF k < j THEN b = k /\ c = a ELSE b = k + 1 /\ c = a + 1
                         /\ c = b + 1 => a = k + 1 /\ t[c] = s[a]
                         /\ Prefix(s, a) \subseteq Prefix(t, c)
                         /\ Prefix(t, c) \subseteq Prefix(s, a) \cup {x}
<1>1. /\ Len(s) \in Nat /\ s \in Seq(Nodes) /\ IsInjective(s)
      /\ nx[here] = Succ(s, j)
      /\ \A m, l \in 0..Len(s) : CellAt(s, m) = CellAt(s, l) => m = l
      /\ \A m, l \in 0..Len(s) : Succ(s, m) = Succ(s, l) => m = l
  BY CellLemma DEF Linked
<1>2. /\ Len(t) = Len(s) + 1
      /\ \A m \in 0..j : CellAt(t, m) = CellAt(s, m)
      /\ CellAt(t, j + 1) = x
      /\ \A m \in j + 1..Len(s) : CellAt(t, m + 1) = CellAt(s, m)
      /\ \A m \in 0..j - 1 : Succ(t, m) = Succ(s, m)
      /\ Succ(t, j) = x
      /\ \A m \in j..Len(s) : Succ(t, m + 1) = Succ(s, m)
  BY <1>1, InsLemma
<1>3. /\ k \in 0..Len(s) /\ a \in 0..Len(s) /\ (a = k \/ a = k + 1)
      /\ p = CellAt(s, k) /\ q = Succ(s, a)
  BY DEF Cursor
<1>4. /\ \A n \in 1..j : t[n] = s[n]
      /\ t[j + 1] = x
      /\ \A n \in j + 1..Len(s) : t[n + 1] = s[n]
  <2>1. /\ \A n \in 1..j : n \in 0..j /\ n # 0
        /\ j + 1 # 0
        /\ \A n \in j + 1..Len(s) : n # 0 /\ n + 1 # 0
    BY <1>1
  <2> QED BY <1>2, <2>1 DEF CellAt
<1> HIDE DEF t, here
<1>5. CASE k < j
  <2>1. a \in 0..j /\ k \in 0..j /\ k # j /\ k \in 0..Len(t) /\ a \in 0..Len(t)
    BY <1>1, <1>2, <1>3, <1>5
  <2>2. p # here
    BY <1>1, <1>3, <2>1 DEF here
  <2>3. q2 = Succ(t, a)
    <3>1. CASE a = j
      BY <1>1, <1>2, <1>3, <2>2, <3>1
    <3>2. CASE a # j
      <4>1. a \in 0..j - 1
        BY <1>1, <2>1, <3>2
      <4> QED BY <1>1, <1>2, <1>3, <2>2, <3>2, <4>1
    <3> QED BY <3>1, <3>2
  <2>4. Cursor(t, p2, q2, k, a)
    BY <1>2, <1>3, <2>1, <2>2, <2>3 DEF Cursor
  <2>5. \A n \in 1..a : n \in 1..j
    BY <2>1
  <2>6. Prefix(t, a) = Prefix(s, a)
    BY <1>4, <2>5 DEF Prefix
  <2>7. a = k + 1 => a \in 1..a
    BY <1>3
  <2>8. Kept(k, a)
    BY <1>4, <1>5, <2>4, <2>5, <2>6, <2>7
  <2> QED BY <2>8 DEF t, here
<1>6. CASE k >= j
  <2>1. /\ a \in j..Len(s) /\ k \in j..Len(s) /\ k + 1 \in 0..Len(t) /\ a + 1 \in 0..Len(t)
        /\ (a + 1 = k + 1 \/ a + 1 = (k + 1) + 1)
    BY <1>1, <1>2, <1>3, <1>6
  <2>2. p2 = CellAt(t, k + 1)
    <3>1. CASE k = j
      BY <1>2, <1>3, <3>1 DEF here
    <3>2. CASE k # j
      <4>1. k \in j + 1..Len(s)
        BY <1>1, <2>1, <3>2
      <4> QED BY <1>1, <1>2, <1>3, <3>2, <4>1 DEF here
    <3> QED BY <3>1, <3>2
  <2>3. q2 = q
    <3>1. CASE k = j
      BY <1>3, <3>1 DEF here
    <3>2. CASE k # j
      <4>1. a # j
        BY <1>1, <1>3, <2>1, <3>2
      <4> QED BY <1>1, <1>3, <4>1
    <3> QED BY <3>1, <3>2
  <2>4. Cursor(t, p2, q2, k + 1, a + 1)
    BY <1>2, <1>3, <2>1, <2>2, <2>3 DEF Cursor
  <2>5. /\ \A n \in 1..a : \/ n \in 1..j /\ n \in 1..a + 1
                           \/ n \in j + 1..Len(s) /\ n + 1 \in 1..a + 1
        /\ \A n \in 1..a + 1 : \/ n \in 1..j /\ n \in 1..a
                               \/ n = j + 1
                               \/ n - 1 \in j + 1..Len(s) /\ (n - 1) + 1 = n /\ n - 1 \in 1..a
    BY <1>1, <2>1
  <2>6. \A n \in 1..a : \E m \in 1..a + 1 : t[m] = s[n]
    BY <1>4, <2>5
  <2>7. ASSUME NEW n \in 1..a + 1
        PROVE  t[n] = x \/ \E m \in 1..a : t[n] = s[m]
    <3>1. CASE n \in 1..j /\ n \in 1..a
      BY <1>4, <3>1
    <3>2. CASE n = j + 1
      BY <1>4, <3>2
    <3>3. CASE n - 1 \in j + 1..Len(s) /\ (n - 1) + 1 = n /\ n - 1 \in 1..a
      <4>1. t[n] = s[n - 1]
        BY <1>4, <3>3
      <4> QED BY <3>3, <4>1
    <3> QED BY <2>5, <3>1, <3>2, <3>3
  <2>8. Prefix(s, a) \subseteq Prefix(t, a + 1) /\ Prefix(t, a + 1) \subseteq Prefix(s, a) \cup {x}
    BY <2>6, <2>7 DEF Prefix
  <2>9. a + 1 = (k + 1) + 1 => a = k + 1 /\ t[a + 1] = s[a]
    <3>1. a + 1 = (k + 1) + 1 => a = k + 1 /\ a \in j + 1..Len(s)
      BY <1>1, <1>3, <2>1
    <3> QED BY <1>4, <3>1
  <2>10. Kept(k + 1, a + 1)
    <3>1. ~(k < j)
      BY <1>1, <1>3, <1>6
    <3> QED BY <2>4, <2>8, <2>9, <3>1
  <2> QED BY <2>10 DEF t, here
<1>7. k < j \/ k >= j
  BY <1>1, <1>3
<1> QED BY <1>5, <1>6, <1>7

(* Iterator repair after list_node_destroy.                                *)
LEMMA DestroyCursor ==
  ASSUME NEW nx, NEW s, Linked(nx, s), NEW m \in 0..Len(s) - 1,
         NEW p, NEW q, NEW k, NEW a, Cursor(s, p, q, k, a)
  PROVE  LET r == Del(s, m)
             x == s[m + 1]
             p2 == IF q = x \/ p = x THEN CellAt(s, m) ELSE p
             q2 == IF q = x THEN nx[x] ELSE q
         IN  \E b, c : /\ Cursor(r, p2, q2, b, c)
                       /\ c = IF a > m THEN a - 1 ELSE a
                       /\ c = b + 1 <=> a = k + 1 /\ a # m /\ a # m + 1
                       /\ c = b + 1 => a = k + 1 /\ r[c] = s[a]
                       /\ Prefix(r, c) = Prefix(s, a) \ {x}
<1> DEFINE r == Del(s, m)
           x == s[m + 1]
           p2 == IF q = x \/ p = x THEN CellAt(s, m) ELSE p
           q2 == IF q = x THEN nx[x] ELSE q
           Kept(b, c) == /\ Cursor(r, p2, q2, b, c)
                         /\ c = IF a > m THEN a - 1 ELSE a
                         /\ c = b + 1 <=> a = k + 1 /\ a # m /\ a # m + 1
                         /\ c = b + 1 => a = k + 1 /\ r[c] = s[a]
                         /\ Prefix(r, c) = Prefix(s, a) \ {x}
<1>1. /\ Len(s) \in Nat /\ s \in Seq(Nodes) /\ IsInjective(s) /\ DOMAIN s = 1..Len(s)
      /\ m \in Nat /\ m + 1 \in 1..Len(s)
      /\ \A i \in 0..Len(s) : nx[CellAt(s, i)] = Succ(s, i)
  BY CellLemma DEF Linked
<1>2. nx[x] = Succ(s, m + 1)
  <2>1. CellAt(s, m + 1) = x /\ m + 1 \in 0..Len(s)
    BY <1>1 DEF CellAt
  <2> QED BY <1>1, <2>1
<1>3. /\ k \in 0..Len(s) /\ a \in 0..Len(s) /\ (a = k \/ a = k + 1)
      /\ p = CellAt(s, k) /\ q = Succ(s, a)
  BY DEF Cursor
<1>4. (q = x <=> a = m) /\ (p = x <=> k = m + 1)
  <2>1. q = x => a = m
    <3>1. q = x => a = (m + 1) - 1
      BY <1>1, <1>3, CellLemma
    <3> QED BY <1>1, <3>1
  <2>2. a = m => q = x
    BY <1>1, <1>3 DEF Succ
  <2>3. p = x => k = m + 1
    BY <1>1, <1>3, CellLemma
  <2>4. k = m + 1 => p = x
    BY <1>1, <1>3 DEF CellAt
  <2> QED BY <2>1, <2>2, <2>3, <2>4
<1>5. /\ Len(r) = Len(s) - 1
      /\ \A i \in 0..m : CellAt(r, i) = CellAt(s, i)
      /\ \A i \in m + 2..Len(s) : CellAt(r, i - 1) = CellAt(s, i)
      /\ \A i \in 0..m - 1 : Succ(r, i) = Succ(s, i)
      /\ \A i \in m + 1..Len(s) : Succ(r, i - 1) = Succ(s, i)
  BY <1>1, DelLemma
<1>6. /\ \A n \in 1..m : r[n] = s[n]
      /\ \A n \in m + 2..Len(s) : r[n - 1] = s[n]
  <2>1. /\ \A n \in 1..m : n \in 0..m /\ n # 0
        /\ \A n \in m + 2..Len(s) : n # 0 /\ n - 1 # 0
    BY <1>1
  <2> QED BY <1>5, <2>1 DEF CellAt
<1>7. \A i \in 1..Len(s) : i # m + 1 => s[i] # x
  BY <1>1 DEF IsInjective
<1> HIDE DEF r, x
<1>8. a <= m => Prefix(r, a) = Prefix(s, a) \ {x}
  <2> SUFFICES ASSUME a <= m PROVE Prefix(r, a) = Prefix(s, a) \ {x}
    OBVIOUS
  <2>1. \A n \in 1..a : n \in 1..m /\ n \in 1..Len(s) /\ n # m + 1
    BY <1>1, <1>3
  <2> QED BY <1>6, <1>7, <2>1 DEF Prefix
<1>9. a > m => Prefix(r, a - 1) = Prefix(s, a) \ {x}
  <2> SUFFICES ASSUME a > m PROVE Prefix(r, a - 1) = Prefix(s, a) \ {x}
    OBVIOUS
  <2>1. \A n \in 1..a - 1 : \E i \in 1..a : s[i] # x /\ r[n] = s[i]
    <3> TAKE n \in 1..a - 1
    <3>1. CASE n <= m
      <4>1. n \in 1..m /\ n \in 1..a /\ n \in 1..Len(s) /\ n # m + 1
        BY <1>1, <1>3, <3>1
      <4> QED BY <1>6, <1>7, <4>1
    <3>2. CASE n > m
      <4>1. /\ n + 1 \in m + 2..Len(s) /\ n + 1 \in 1..a /\ (n + 1) - 1 = n
            /\ n + 1 \in 1..Len(s) /\ n + 1 # m + 1
        BY <1>1, <1>3, <3>2
      <4>2. r[n] = s[n + 1] /\ s[n + 1] # x
        BY <1>6, <1>7, <4>1
      <4> QED BY <4>1, <4>2
    <3> QED BY <1>1, <1>3, <3>1, <3>2
  <2>2. \A i \in 1..a : s[i] # x => \E n \in 1..a - 1 : r[n] = s[i]
    <3> TAKE i \in 1..a
    <3>1. CASE i <= m
      <4>1. i \in 1..m /\ i \in 1..a - 1
        BY <1>1, <1>3, <3>1
      <4> QED BY <1>6, <4>1
    <3>2. CASE i > m + 1
      <4>1. i \in m + 2..Len(s) /\ i - 1 \in 1..a - 1
        BY <1>1, <1>3, <3>2
      <4> QED BY <1>6, <4>1
    <3>3. CASE i = m + 1
      BY <3>3 DEF x
    <3> QED BY <1>1, <1>3, <3>1, <3>2, <3>3
  <2>3. Prefix(r, a - 1) \subseteq Prefix(s, a) \ {x}
    BY <2>1, Zenon DEF Prefix
  <2>4. Prefix(s, a) \ {x} \subseteq Prefix(r, a - 1)
    BY <2>2, Zenon DEF Prefix
  <2> QED BY <2>3, <2>4
<1>10. CASE a < m
  <2>1. /\ k \in 0..m /\ a \in 0..m - 1 /\ a # m /\ k # m + 1 /\ a <= m
        /\ k \in 0..Len(r) /\ a \in 0..Len(r) /\ (a = k + 1 => a \in 1..m)
    BY <1>1, <1>3, <1>5, <1>10
  <2>2. Cursor(r, p2, q2, k, a)
    BY <1>3, <1>4, <1>5, <2>1 DEF Cursor
  <2>3. ~(a > m) /\ a # m + 1
    BY <1>1, <1>3, <1>10
  <2>4. Kept(k, a)
    BY <1>6, <1>8, <2>1, <2>2, <2>3
  <2> QED BY <2>4 DEF r, x
<1>11. CASE a = m
  <2>1. /\ m \in 0..m /\ m + 1 \in m + 1..Len(s) /\ (m + 1) - 1 = m /\ m \in 0..Len(r)
        /\ m # m + 1 /\ a <= m /\ ~(a > m)
    BY <1>1, <1>5, <1>11
  <2>2. q2 = Succ(r, m) /\ p2 = CellAt(r, m)
    <3>1. Succ(r, m) = Succ(s, m + 1)
      BY <1>5, <2>1
    <3> QED BY <1>2, <1>4, <1>5, <1>11, <2>1, <3>1
  <2>3. Cursor(r, p2, q2, m, m)
    BY <2>1, <2>2 DEF Cursor
  <2>4. Kept(m, m)
    BY <1>8, <1>11, <2>1, <2>3
  <2> QED BY <2>4 DEF r, x
<1>12. CASE a > m /\ k <= m
  <2>1. k = m /\ a = m + 1 /\ a # m /\ k # m + 1 /\ a - 1 = m
    BY <1>1, <1>3, <1>12
  <2>2. /\ m \in 0..m /\ m \in 0..Len(r) /\ m + 1 \in m + 1..Len(s) /\ (m + 1) - 1 = m
        /\ m # m + 1
    BY <1>1, <1>5
  <2>3. q2 = Succ(r, m) /\ p2 = CellAt(r, m)
    <3>1. Succ(r, m) = Succ(s, m + 1)
      BY <1>5, <2>2
    <3> QED BY <1>3, <1>4, <1>5, <2>1, <2>2, <3>1
  <2>4. Cursor(r, p2, q2, m, m)
    BY <2>2, <2>3 DEF Cursor
  <2>5. Kept(m, m)
    BY <1>9, <1>12, <2>1, <2>2, <2>4
  <2> QED BY <2>5 DEF r, x
<1>13. CASE k > m
  <2>1. /\ a > m /\ a # m /\ a \in m + 1..Len(s) /\ (a = m + 1 => a # k + 1) /\ k - 1 \in 0..Len(r) /\ a - 1 \in 0..Len(r)
        /\ (a - 1 = k - 1 \/ a - 1 = (k - 1) + 1)
        /\ a - 1 = (k - 1) + 1 <=> a = k + 1
        /\ a = k + 1 => a \in m + 2..Len(s)
    BY <1>1, <1>3, <1>5, <1>13
  <2>2. q2 = Succ(r, a - 1)
    BY <1>3, <1>4, <1>5, <2>1
  <2>3. p2 = CellAt(r, k - 1)
    <3>1. CASE k = m + 1
      <4>1. k - 1 = m /\ m \in 0..m
        BY <1>1, <3>1
      <4>2. CellAt(r, k - 1) = CellAt(s, m)
        BY <1>5, <4>1
      <4> QED BY <1>4, <3>1, <4>2
    <3>2. CASE k # m + 1
      <4>1. k \in m + 2..Len(s)
        BY <1>1, <1>3, <1>13, <3>2
      <4> QED BY <1>3, <1>4, <1>5, <2>1, <3>2, <4>1
    <3> QED BY <3>1, <3>2
  <2>4. Cursor(r, p2, q2, k - 1, a - 1)
    BY <2>1, <2>2, <2>3 DEF Cursor
  <2>5. Kept(k - 1, a - 1)
    BY <1>6, <1>9, <2>1, <2>4
  <2> QED BY <2>5 DEF r, x
<1>14. a < m \/ a = m \/ (a > m /\ k <= m) \/ k > m
  BY <1>1, <1>3
<1> QED BY <1>10, <1>11, <1>12, <1>13, <1>14

(***************************************************************************)
(* What the recursive definitions compute, by induction on a set of        *)
(* indices.                                                                *)
(***************************************************************************)
LEMMA UpTo ==
  ASSUME NEW S, NEW N \in Nat, 0 \in S, \A n \in 1..N : n - 1 \in S => n \in S
  PROVE  0..N \subseteq S
<1> DEFINE Bad == 0..N \ S
<1>1. ASSUME Bad # {}
      PROVE  FALSE
  <2>1. Bad \subseteq Nat
    OBVIOUS
  <2>2. PICK m \in Bad : \A n \in Bad : m <= n
    BY <1>1, <2>1, LeastLemma
  <2>3. m \in 1..N /\ m - 1 \in 0..N /\ ~(m <= m - 1)
    BY <2>2
  <2> QED BY <2>2, <2>3
<1> QED BY <1>1

LEMMA ShortEnough ==
  ASSUME NEW s \in Seq(Nodes), IsInjective(s)
  PROVE  Len(s) <= Cardinality(Nodes) /\ Cardinality(Nodes) \in Nat
<1>1. s \in Injection(1..Len(s), Nodes)
  BY DEF IsInjective, Injection
<1>2. Cardinality(1..Len(s)) <= Cardinality(Nodes)
  BY <1>1, FS_Injection, NodesAssumption
<1>3. Cardinality(1..Len(s)) = Len(s)
  <2>1. \A l \in Nat : Cardinality(1..l) = l
    BY FS_Interval
  <2> QED BY <2>1
<1> QED BY <1>2, <1>3, FS_CardinalityType, NodesAssumption

LEMMA WalkLemma ==
  ASSUME NEW s, Linked(next, s)
  PROVE  /\ DOMAIN Walk = 0..Cardinality(Nodes) + 1
         /\ \A n \in 0..Cardinality(Nodes) + 1 :
              Walk[n] = IF n < Len(s) THEN s[n + 1] ELSE Null
<1> DEFINE c == Cardinality(Nodes)
           F(w) == [n \in 0..c + 1 |->
                      IF n = 0 THEN next[HeadCell]
                      ELSE IF w[n - 1] = Null THEN Null ELSE next[w[n - 1]]]
           Node(n) == IF n < Len(s) THEN s[n + 1] ELSE Null
           g == [n \in 0..c + 1 |-> Node(n)]
           w == CHOOSE h : h = F(h)
<1>1. Walk = w
  BY DEF Walk
<1>2. c \in Nat /\ Len(s) \in Nat
  BY ShortEnough DEF Linked
<1>3. Node(0) = next[HeadCell]
  <2>1. 0 \in 0..Len(s) /\ 0 + 1 = 1
    BY <1>2
  <2> QED BY <2>1 DEF Linked, CellAt, Succ
<1>4. \A n \in 1..c + 1 : Node(n) = IF Node(n - 1) = Null THEN Null ELSE next[Node(n - 1)]
  <2> TAKE n \in 1..c + 1
  <2>1. (n - 1) + 1 = n /\ n \in Nat
    BY <1>2
  <2>2. CASE n - 1 < Len(s)
    <3>1. n \in 1..Len(s) /\ n \in 0..Len(s) /\ n # 0
      BY <1>2, <2>1, <2>2
    <3>2. Node(n - 1) = s[n] /\ s[n] # Null
      BY <2>1, <2>2, <3>1, CellLemma, NodesAssumption DEF Cells
    <3>3. next[s[n]] = Node(n)
      BY <3>1 DEF Linked, CellAt, Succ
    <3> QED BY <3>2, <3>3
  <2>3. CASE ~(n - 1 < Len(s))
    <3>1. ~(n < Len(s))
      BY <1>2, <2>1, <2>3
    <3> QED BY <2>3, <3>1
  <2> QED BY <2>2, <2>3
<1> HIDE DEF Node
<1>5. g = F(g)
  <2>1. \A n \in 0..c + 1 : n # 0 => n \in 1..c + 1 /\ n - 1 \in 0..c + 1
    BY <1>2
  <2>2. \A n \in 0..c + 1 : n # 0 => g[n - 1] = Node(n - 1)
    BY <2>1
  <2>3. \A n \in 0..c + 1 :
          g[n] = IF n = 0 THEN next[HeadCell]
                 ELSE IF g[n - 1] = Null THEN Null ELSE next[g[n - 1]]
    BY <1>3, <1>4, <2>1, <2>2
  <2> QED BY <2>3
<1>6. w = F(w)
  BY <1>5
<1> HIDE DEF w
<1>7. /\ DOMAIN w = 0..c + 1
      /\ \A n \in 0..c + 1 : w[n] = IF n = 0 THEN next[HeadCell]
                                    ELSE IF w[n - 1] = Null THEN Null ELSE next[w[n - 1]]
  BY <1>6
<1> HIDE DEF F
<1>8. \A n \in 0..c + 1 : w[n] = Node(n)
  <2> DEFINE S == {n \in 0..c + 1 : w[n] = Node(n)}
  <2>1. c + 1 \in Nat /\ 0 \in 0..c + 1 /\ \A n \in 1..c + 1 : n \in 0..c + 1 /\ n # 0
    BY <1>2
  <2>2. 0 \in S
    BY <1>3, <1>7, <2>1
  <2>3. \A n \in 1..c + 1 : n - 1 \in S => n \in S
    BY <1>4, <1>7, <2>1
  <2>4. 0..c + 1 \subseteq S
    <3> HIDE DEF S
    <3> QED BY <2>1, <2>2, <2>3, UpTo
  <2> QED BY <2>4
<1> QED BY <1>1, <1>7, <1>8 DEF Node

(* The nodes in order are the sequence on the pointers.                    *)
LEMMA ChainLemma ==
  ASSUME NEW s, Linked(next, s)
  PROVE  Chain = s
<1> DEFINE c == Cardinality(Nodes)
           l == Len(s)
           Set == {n \in DOMAIN Walk : Walk[n] # Null}
<1>1. /\ c \in Nat /\ l \in Nat /\ l <= c /\ DOMAIN s = 1..l
      /\ \A k \in 1..l : s[k] # Null
  BY ShortEnough, NodesAssumption DEF Linked, Cells
<1>2. /\ DOMAIN Walk = 0..c + 1
      /\ \A n \in 0..c + 1 : Walk[n] = IF n < l THEN s[n + 1] ELSE Null
  BY WalkLemma
<1>3. Set = 0..l - 1
  <2>1. \A n \in 0..c + 1 : n < l <=> n \in 0..l - 1
    BY <1>1
  <2>2. \A n \in 0..l - 1 : n \in 0..c + 1 /\ n + 1 \in 1..l
    BY <1>1
  <2> HIDE DEF c, l
  <2> QED BY <1>1, <1>2, <2>1, <2>2
<1>4. Cardinality(Set) = l
  <2>1. Cardinality(0..l - 1) = l
    <3>1. 0 \in Int /\ l - 1 \in Int /\ (0 > l - 1 => l = 0) /\ (l - 1) - 0 + 1 = l
      BY <1>1
    <3> HIDE DEF l
    <3> QED BY <3>1, FS_Interval
  <2> QED BY <1>3, <2>1
<1>5. Chain = [n \in 1..l |-> Walk[n - 1]]
  BY <1>4 DEF Chain
<1>6. \A n \in 1..l : Walk[n - 1] = s[n]
  <2>1. \A n \in 1..l : n - 1 \in 0..c + 1 /\ n - 1 < l /\ (n - 1) + 1 = n
    BY <1>1
  <2> QED BY <1>2, <2>1
<1>7. s = [n \in 1..l |-> s[n]]
  BY DEF Linked
<1> HIDE DEF l
<1> QED BY <1>5, <1>6, <1>7

(* The n-th of the calls of list_next that list_find makes.                *)
After(a, n, l) == IF a + n - 1 <= l THEN a + n - 1 ELSE l

LEMMA StepsLemma ==
  ASSUME NEW s, Linked(next, s), NEW i, NEW k, NEW a, Cursor(s, prev[i], pos[i], k, a)
  PROVE  \A n \in 1..Len(s) + 1 :
           LET b == After(a, n, Len(s))
           IN  Steps(i)[n] = [pos |-> Succ(s, After(b, 2, Len(s))),
                              prev |-> CellAt(s, b), ret |-> Succ(s, b)]
<1> DEFINE l == Len(s)
           F(c) == [n \in 0..Len(Chain) + 1 |->
                      IF n = 0 THEN [pos |-> pos[i], prev |-> prev[i], ret |-> Null]
                      ELSE LET b == c[n - 1]
                           IN  [pos |-> IF b.pos # Null THEN next[b.pos] ELSE Null,
                                prev |-> IF next[b.prev] # b.pos THEN next[b.prev]
                                         ELSE b.prev,
                                ret |-> b.pos]]
           Right(n) == LET b == After(a, n, l)
                       IN  [pos |-> Succ(s, After(b, 2, l)),
                            prev |-> CellAt(s, b), ret |-> Succ(s, b)]
           Node(n) == IF n = 0 THEN [pos |-> pos[i], prev |-> prev[i], ret |-> Null]
                      ELSE Right(n)
           g == [n \in 0..l + 1 |-> Node(n)]
           w == CHOOSE h : h = F(h)
<1>1. Steps(i) = w
  BY DEF Steps
<1>2. /\ l \in Nat /\ Len(Chain) = l
      /\ \A m \in 0..l : next[CellAt(s, m)] = Succ(s, m)
      /\ \A m \in 1..l : s[m] # Null
      /\ k \in 0..l /\ a \in 0..l /\ (a = k \/ a = k + 1)
      /\ prev[i] = CellAt(s, k) /\ pos[i] = Succ(s, a)
  BY ChainLemma, CellLemma, NodesAssumption DEF Linked, Cells, Cursor
<1>3. \A m, n \in 0..l : Succ(s, m) = Succ(s, n) => m = n
  BY CellLemma
<1>4. \A b \in 0..l :
        /\ After(b, 2, l) \in 0..l
        /\ (IF Succ(s, b) # Null THEN next[Succ(s, b)] ELSE Null) = Succ(s, After(b, 2, l))
  <2> TAKE b \in 0..l
  <2>1. CASE b < l
    <3>1. b + 1 \in 1..l /\ b + 1 \in 0..l /\ b + 1 # 0 /\ After(b, 2, l) = b + 1
      BY <1>2, <2>1 DEF After
    <3>2. Succ(s, b) = s[b + 1] /\ CellAt(s, b + 1) = s[b + 1]
      BY <2>1, <3>1 DEF Succ, CellAt
    <3> HIDE DEF l
    <3> QED BY <1>2, <3>1, <3>2
  <2>2. CASE ~(b < l)
    <3>1. After(b, 2, l) = b /\ b \in 0..l
      BY <1>2, <2>2 DEF After
    <3> QED BY <2>2, <3>1 DEF Succ
  <2> QED BY <2>1, <2>2
<1>5. Right(1) = [pos |-> IF pos[i] # Null THEN next[pos[i]] ELSE Null,
                  prev |-> IF next[prev[i]] # pos[i] THEN next[prev[i]] ELSE prev[i],
                  ret |-> pos[i]]
  <2>1. After(a, 1, l) = a
    BY <1>2 DEF After
  <2>2. (IF next[prev[i]] # pos[i] THEN next[prev[i]] ELSE prev[i]) = CellAt(s, a)
    <3>1. CASE a = k
      BY <1>2, <3>1
    <3>2. CASE a # k
      <4>1. a = k + 1 /\ k < l /\ k + 1 # 0
        BY <1>2, <3>2
      <4>2. next[prev[i]] # pos[i]
        BY <1>2, <1>3, <3>2
      <4>3. next[prev[i]] = s[k + 1]
        BY <1>2, <4>1 DEF Succ
      <4> QED BY <4>1, <4>2, <4>3 DEF CellAt
    <3> QED BY <3>1, <3>2
  <2> HIDE DEF l
  <2> QED BY <1>2, <1>4, <2>1, <2>2
<1>6. ASSUME NEW n \in 2..l + 1
      PROVE  LET b == Right(n - 1)
             IN  Right(n) = [pos |-> IF b.pos # Null THEN next[b.pos] ELSE Null,
                             prev |-> IF next[b.prev] # b.pos THEN next[b.prev]
                                      ELSE b.prev,
                             ret |-> b.pos]
  <2> DEFINE b == After(a, n - 1, l)
             d == After(a, n, l)
  <2>1. b \in 0..l /\ d \in 0..l /\ d = After(b, 2, l) /\ (d = b \/ (d = b + 1 /\ b < l))
    <3>1. l \in Nat /\ a \in 0..l /\ n \in 2..l + 1
      BY <1>2
    <3>2. CASE a + n - 1 <= l
      <4>1. b = a + n - 2 /\ d = a + n - 1
        BY <3>1, <3>2 DEF After
      <4> HIDE DEF b, d, l
      <4> QED BY <3>1, <3>2, <4>1 DEF After
    <3>3. CASE ~(a + n - 1 <= l)
      <4>1. b = l /\ d = l
        BY <3>1, <3>3 DEF After
      <4>2. After(l, 2, l) = l /\ l \in 0..l
        BY <3>1 DEF After
      <4> HIDE DEF b, d
      <4> QED BY <4>1, <4>2
    <3> QED BY <3>2, <3>3
  <2> HIDE DEF b, d, l
  <2>2. next[CellAt(s, b)] = Succ(s, b)
    BY <1>2, <2>1
  <2>3. (IF next[CellAt(s, b)] # Succ(s, d) THEN next[CellAt(s, b)] ELSE CellAt(s, b))
        = CellAt(s, d)
    <3>1. CASE d = b
      BY <2>2, <3>1
    <3>2. CASE d # b
      <4>1. Succ(s, b) # Succ(s, d)
        BY <1>3, <2>1, <3>2
      <4>2. d = b + 1 /\ b < l /\ d # 0
        BY <1>2, <2>1, <3>2
      <4> QED BY <2>2, <4>1, <4>2 DEF Succ, CellAt, l
    <3> QED BY <3>1, <3>2
  <2>4. /\ Right(n - 1) = [pos |-> Succ(s, d), prev |-> CellAt(s, b), ret |-> Succ(s, b)]
        /\ Right(n) = [pos |-> Succ(s, After(d, 2, l)), prev |-> CellAt(s, d),
                       ret |-> Succ(s, d)]
    BY <2>1 DEF b, d
  <2> HIDE DEF Right
  <2> QED BY <1>4, <2>1, <2>3, <2>4
<1> HIDE DEF Right
<1>7. \A n \in 1..l + 1 :
        Node(n) = LET b == Node(n - 1)
                  IN  [pos |-> IF b.pos # Null THEN next[b.pos] ELSE Null,
                       prev |-> IF next[b.prev] # b.pos THEN next[b.prev] ELSE b.prev,
                       ret |-> b.pos]
  <2> TAKE n \in 1..l + 1
  <2>1. CASE n = 1
    <3>1. Node(n - 1) = [pos |-> pos[i], prev |-> prev[i], ret |-> Null] /\ Node(n) = Right(1)
      BY <2>1
    <3> HIDE DEF Node
    <3> QED BY <1>5, <3>1
  <2>2. CASE n # 1
    <3>1. n \in 2..l + 1 /\ n # 0 /\ n - 1 # 0
      BY <1>2, <2>2
    <3>2. Node(n - 1) = Right(n - 1) /\ Node(n) = Right(n)
      BY <3>1
    <3> HIDE DEF Node
    <3> QED BY <1>6, <3>1, <3>2
  <2> QED BY <2>1, <2>2
<1> HIDE DEF l
<1>8. g = F(g)
  <2>1. \A n \in 0..l + 1 : n # 0 => n \in 1..l + 1 /\ n - 1 \in 0..l + 1
    BY <1>2
  <2>2. \A n \in 0..l + 1 : n # 0 => g[n - 1] = Node(n - 1)
    BY <2>1
  <2>3. Node(0) = [pos |-> pos[i], prev |-> prev[i], ret |-> Null]
    OBVIOUS
  <2> HIDE DEF Node
  <2>4. \A n \in 0..l + 1 :
          Node(n) = IF n = 0 THEN [pos |-> pos[i], prev |-> prev[i], ret |-> Null]
                    ELSE LET b == g[n - 1]
                         IN  [pos |-> IF b.pos # Null THEN next[b.pos] ELSE Null,
                              prev |-> IF next[b.prev] # b.pos THEN next[b.prev] ELSE b.prev,
                              ret |-> b.pos]
    BY <1>7, <2>1, <2>2, <2>3
  <2> QED BY <1>2, <2>4
<1>9. w = F(w)
  BY <1>8
<1> HIDE DEF w
<1>10. \A n \in 0..l + 1 :
         w[n] = IF n = 0 THEN [pos |-> pos[i], prev |-> prev[i], ret |-> Null]
                ELSE LET b == w[n - 1]
                     IN  [pos |-> IF b.pos # Null THEN next[b.pos] ELSE Null,
                          prev |-> IF next[b.prev] # b.pos THEN next[b.prev] ELSE b.prev,
                          ret |-> b.pos]
  BY <1>2, <1>9
<1>11. Node(0) = [pos |-> pos[i], prev |-> prev[i], ret |-> Null]
  OBVIOUS
<1> HIDE DEF F, Node
<1>12. \A n \in 0..l + 1 : w[n] = Node(n)
  <2> DEFINE S == {n \in 0..l + 1 : w[n] = Node(n)}
  <2>1. l + 1 \in Nat /\ 0 \in 0..l + 1 /\ \A n \in 1..l + 1 : n \in 0..l + 1 /\ n # 0
    BY <1>2
  <2>2. 0 \in S
    BY <1>10, <1>11, <2>1
  <2>3. \A n \in 1..l + 1 : n - 1 \in S => n \in S
    BY <1>7, <1>10, <2>1
  <2>4. 0..l + 1 \subseteq S
    <3> HIDE DEF S
    <3> QED BY <2>1, <2>2, <2>3, UpTo
  <2> QED BY <2>4
<1>13. \A n \in 1..l + 1 : n \in 0..l + 1 /\ n # 0
  BY <1>2
<1>14. \A n \in 1..l + 1 : w[n] = Right(n)
  BY <1>12, <1>13 DEF Node
<1> QED BY <1>1, <1>14 DEF Right, l

(* What At and Has say of an iterator is where it stands.                  *)
LEMMA PlaceLemma ==
  \A s, i, k, a : Linked(next, s) /\ i \in iters /\ Cursor(s, prev[i], pos[i], k, a) =>
    Chain = s /\ At(i) = a + 1 /\ Has(i) = (a = k + 1)
<1> SUFFICES ASSUME NEW s, NEW i, NEW k, NEW a, Linked(next, s), i \in iters,
                    Cursor(s, prev[i], pos[i], k, a)
             PROVE  Chain = s /\ At(i) = a + 1 /\ Has(i) = (a = k + 1)
  OBVIOUS
<1>1. /\ Chain = s /\ Len(s) \in Nat /\ DOMAIN s = 1..Len(s)
      /\ \A n \in 1..Len(s) : s[n] # Null
      /\ \A n, m \in 1..Len(s) : s[n] = s[m] => n = m
      /\ \A n, m \in 0..Len(s) : Succ(s, n) = Succ(s, m) => n = m
      /\ next[prev[i]] = Succ(s, k)
      /\ k \in 0..Len(s) /\ a \in 0..Len(s) /\ (a = k \/ a = k + 1) /\ pos[i] = Succ(s, a)
  <2>1. /\ Chain = s /\ Len(s) \in Nat /\ DOMAIN s = 1..Len(s)
        /\ \A n \in 1..Len(s) : s[n] \in Nodes
        /\ \A n, m \in 0..Len(s) : Succ(s, n) = Succ(s, m) => n = m
    BY ChainLemma, CellLemma
  <2>2. \A n, m \in 1..Len(s) : s[n] = s[m] => n = m
    BY <2>1 DEF Linked, IsInjective
  <2>3. \A n \in 1..Len(s) : s[n] # Null
    BY <2>1, NodesAssumption DEF Cells
  <2>4. k \in 0..Len(s) /\ next[prev[i]] = Succ(s, k)
    BY DEF Linked, Cursor
  <2> QED BY <2>1, <2>2, <2>3, <2>4 DEF Cursor
<1>2. Has(i) = (a = k + 1)
  <2>1. next[prev[i]] # pos[i] <=> a = k + 1
    BY <1>1
  <2> QED BY <2>1 DEF Has
<1>3. CASE a < Len(s)
  <2>1. a + 1 \in 1..Len(s) /\ pos[i] = s[a + 1]
    BY <1>1, <1>3 DEF Succ
  <2>2. At(i) = CHOOSE n \in 1..Len(s) : s[n] = s[a + 1]
    BY <1>1, <2>1 DEF At
  <2>3. (CHOOSE n \in 1..Len(s) : s[n] = s[a + 1]) = a + 1
    BY <1>1, <2>1
  <2> QED BY <1>1, <1>2, <2>2, <2>3
<1>4. CASE ~(a < Len(s))
  <2>1. a = Len(s) /\ pos[i] = Null
    BY <1>1, <1>4 DEF Succ
  <2> QED BY <1>1, <1>2, <2>1 DEF At
<1> QED BY <1>3, <1>4

LEMMA PlacedNext ==
  (\A s, i, k, a : Linked(next, s) /\ i \in iters /\ Cursor(s, prev[i], pos[i], k, a) =>
     Chain = s /\ At(i) = a + 1 /\ Has(i) = (a = k + 1))'
BY PlaceLemma, PTL

LEMMA AbsentLemma == \A i : i \notin iters => At(i) = 0 /\ Has(i) = FALSE
BY DEF At, Has

(* Nothing moves an iterator whose pointers and list stay as they are. *)
LEMMA FrameLemma ==
  ASSUME UNCHANGED next, NEW i, i \in iters' <=> i \in iters,
         i \in iters => prev'[i] = prev[i] /\ pos'[i] = pos[i]
  PROVE  Chain' = Chain /\ At(i)' = At(i) /\ Has(i)' = Has(i)
<1>1. Chain' = Chain
  BY DEF Chain, Walk
<1> DEFINE Place(c, p) == IF p = Null THEN Len(c) + 1 ELSE CHOOSE n \in DOMAIN c : c[n] = p
<1>2. At(i)' = At(i)
  <2>1. At(i) = IF i \notin iters THEN 0 ELSE Place(Chain, pos[i])
    BY DEF At
  <2>2. At(i)' = IF i \notin iters' THEN 0 ELSE Place(Chain', pos'[i])
    BY DEF At
  <2> HIDE DEF Place
  <2> QED BY <1>1, <2>1, <2>2
<1>3. Has(i)' = Has(i)
  <2>1. Has(i) = (i \in iters /\ next[prev[i]] # pos[i])
    BY DEF Has
  <2>2. Has(i)' = (i \in iters' /\ next'[prev'[i]] # pos'[i])
    BY DEF Has
  <2>3. i \in iters => next'[prev'[i]] = next[prev[i]] /\ pos'[i] = pos[i]
    OBVIOUS
  <2> QED BY <2>1, <2>2, <2>3
<1> QED BY <1>1, <1>2, <1>3

(***************************************************************************)
(* The invariant: the pointers hold a sequence s; outside list_sort, which *)
(* sets the tail and the iterators last, the tail is the last cell and     *)
(* each iterator stands somewhere in s; a watched one has returned of the  *)
(* items it owes those before its place, and the item it can remove is the *)
(* one it returned last.                                                   *)
(***************************************************************************)
Typed ==
  /\ TypeOK
  /\ last \in [Watched -> Nodes \cup {Null}]
  /\ seen \in [Watched -> SUBSET Nodes] /\ owed \in [Watched -> SUBSET Nodes]

Told(s, i, k, a) ==
  /\ a = k + 1 => last[i] = s[a]
  /\ seen[i] \subseteq Prefix(s, a)
  /\ Prefix(s, a) \cap owed[i] \subseteq seen[i]
  /\ owed[i] \subseteq ToSet(s)

Stands(s, i) ==
  \E k, a : Cursor(s, prev[i], pos[i], k, a) /\ (i \in Watched => Told(s, i, k, a))

Holds(s) ==
  /\ Linked(next, s) /\ count = Len(s)
  /\ pc # "sort" => tail = CellAt(s, Len(s)) /\ \A i \in iters : Stands(s, i)
  /\ pc = "delete" => \E k \in 0..Len(s) : pp = CellAt(s, k)
  /\ pc = "sort" => \E k \in 0..Len(s) - 1 : ppPrev = CellAt(s, k) /\ pp = CellAt(s, k + 1)

Inv == Typed /\ \E s : Holds(s)

LEMMA CreateStep ==
  ASSUME Typed, NEW s, Holds(s), pc = "idle", NEW j \in 0..Len(s),
         NEW x \in Nodes, list_node_create(CellAt(s, j), x)
  PROVE  /\ Typed' /\ Holds(Ins(s, j, x))'
         /\ \A i \in iters :
              /\ At(i)' = IF At(i) > j + 1 \/ (At(i) = j + 1 /\ ~Has(i)) THEN At(i) + 1 ELSE At(i)
              /\ Has(i)' = Has(i)
<1> DEFINE here == CellAt(s, j)
           t == Ins(s, j, x)
<1>1. /\ Linked(next, s) /\ count = Len(s) /\ Len(s) \in Nat
      /\ tail = CellAt(s, Len(s)) /\ \A i \in iters : Stands(s, i)
      /\ s \in Seq(Nodes) /\ IsInjective(s)
      /\ next[here] = Succ(s, j) /\ here \in Cells
  BY CellLemma DEF Holds, Linked
<1>2. /\ x \notin ToSet(s)
      /\ next' = [next EXCEPT ![x] = next[here], ![here] = x]
      /\ tail' = IF next[here] = Null THEN x ELSE tail
      /\ count' = count + 1
      /\ prev' = [i \in Iters |-> IF i \in iters /\ prev[i] = here THEN x ELSE prev[i]]
      /\ pos' = [i \in Iters |-> IF i \in iters
                                 THEN IF prev[i] # here /\ pos[i] = next[here] THEN x
                                      ELSE pos[i]
                                 ELSE pos[i]]
      /\ ret' = x
      /\ UNCHANGED <<iters, pc, pp, ppPrev, last, seen, owed>>
  BY <1>1, ChainLemma DEF list_node_create, PosAfterCreate, InList, loop, history
<1>3. /\ Len(t) = Len(s) + 1 /\ CellAt(t, j + 1) = x /\ ToSet(t) = ToSet(s) \cup {x}
      /\ \A k \in j + 1..Len(s) : CellAt(t, k + 1) = CellAt(s, k)
  BY <1>1, <1>2, InsLemma
<1>4. Linked(next', t)
  BY <1>1, <1>2, LinkIns
<1>5. Typed'
  <2>1. x \in Cells /\ Watched \subseteq Iters /\ iters \subseteq Iters
    BY NodesAssumption DEF Cells, Typed, TypeOK
  <2>2. prev' \in [Iters -> Cells] /\ pos' \in [Iters -> Nodes \cup {Null}]
    BY <1>2, <2>1 DEF Typed, TypeOK
  <2>3. next' \in [Cells -> Nodes \cup {Null}] /\ tail' \in Cells /\ count' \in Nat
    BY <1>1, <1>2, <1>4, <2>1 DEF Linked, Typed, TypeOK
  <2> QED BY <1>2, <2>2, <2>3 DEF Typed, TypeOK
<1>6. tail' = CellAt(t, Len(t))
  <2>1. CASE j = Len(s)
    <3>1. next[here] = Null
      BY <1>1, <2>1 DEF Succ
    <3> QED BY <1>2, <1>3, <2>1, <3>1
  <2>2. CASE j # Len(s)
    <3>1. j + 1 \in 1..Len(s) /\ Len(s) \in j + 1..Len(s) /\ j < Len(s)
      BY <1>1, <2>2
    <3>2. next[here] # Null
      BY <1>1, <3>1, CellLemma, NodesAssumption DEF Succ, Cells
    <3> QED BY <1>1, <1>2, <1>3, <3>1, <3>2
  <2> QED BY <2>1, <2>2
<1>7. ASSUME NEW i \in iters
      PROVE  /\ Stands(t, i)'
             /\ At(i)' = IF At(i) > j + 1 \/ (At(i) = j + 1 /\ ~Has(i)) THEN At(i) + 1 ELSE At(i)
             /\ Has(i)' = Has(i)
  <2>1. PICK k, a : /\ Cursor(s, prev[i], pos[i], k, a)
                    /\ i \in Watched => Told(s, i, k, a)
    BY <1>1 DEF Stands
  <2>2. /\ prev'[i] = IF prev[i] = here THEN x ELSE prev[i]
        /\ pos'[i] = IF prev[i] # here /\ pos[i] = next[here] THEN x ELSE pos[i]
    BY <1>2 DEF Typed, TypeOK
  <2> DEFINE p2 == IF prev[i] = here THEN x ELSE prev[i]
             q2 == IF prev[i] # here /\ pos[i] = next[here] THEN x ELSE pos[i]
  <2>3. PICK b, c : /\ Cursor(t, p2, q2, b, c)
                    /\ IF k < j THEN b = k /\ c = a ELSE b = k + 1 /\ c = a + 1
                    /\ c = b + 1 => a = k + 1 /\ t[c] = s[a]
                    /\ Prefix(s, a) \subseteq Prefix(t, c)
                    /\ Prefix(t, c) \subseteq Prefix(s, a) \cup {x}
    <3>1. Linked(next, s) /\ Cursor(s, prev[i], pos[i], k, a) /\ x \notin ToSet(s)
      BY <1>1, <1>2, <2>1
    <3> QED BY <3>1, CreateCursor
  <2> HIDE DEF t, p2, q2
  <2>4. prev'[i] = p2 /\ pos'[i] = q2
    BY <2>2 DEF p2, q2
  <2>5. ASSUME i \in Watched
        PROVE  Told(t, i, b, c)'
    <3>1. /\ a = k + 1 => last[i] = s[a]
          /\ seen[i] \subseteq Prefix(s, a)
          /\ Prefix(s, a) \cap owed[i] \subseteq seen[i]
          /\ owed[i] \subseteq ToSet(s)
      BY <2>1, <2>5 DEF Told
    <3>2. last' = last /\ seen' = seen /\ owed' = owed
      BY <1>2
    <3> QED BY <1>2, <1>3, <2>3, <3>1, <3>2 DEF Told
  <2>6. Stands(t, i)'
    BY <2>3, <2>4, <2>5 DEF Stands
  <2>7. At(i) = a + 1 /\ Has(i) = (a = k + 1) /\ a \in Nat /\ k \in Nat /\ (a = k \/ a = k + 1)
    <3>1. At(i) = a + 1 /\ Has(i) = (a = k + 1)
      BY <1>1, <2>1, PlaceLemma
    <3> QED BY <1>1, <2>1, <3>1 DEF Cursor
  <2>8. At(i)' = c + 1 /\ Has(i)' = (c = b + 1)
    BY <1>2, <1>4, <2>3, <2>4, PlacedNext
  <2>9. c = (IF k < j THEN a ELSE a + 1) /\ (c = b + 1 <=> a = k + 1)
    BY <2>3, <2>7
  <2>10. k < j <=> ~(a + 1 > j + 1 \/ (a + 1 = j + 1 /\ a # k + 1))
    BY <1>1, <2>7
  <2> QED BY <2>6, <2>7, <2>8, <2>9, <2>10
<1>8. pc' = "idle" /\ iters' = iters
  BY <1>2
<1>9. count' = Len(t)
  BY <1>1, <1>2, <1>3
<1> QED BY <1>4, <1>5, <1>6, <1>7, <1>8, <1>9 DEF Holds

LEMMA UnlinkStep ==
  ASSUME Typed, NEW s, Holds(s), pc # "sort", NEW m \in 0..Len(s) - 1,
         Unlink(CellAt(s, m)), UNCHANGED <<iters, loop>>, ret' \in Nodes \cup {Null},
         pc = "delete" => pp = CellAt(s, m)
  PROVE  /\ Typed' /\ Holds(Del(s, m))'
         /\ \A i \in iters :
              /\ At(i)' = IF At(i) > m + 1 THEN At(i) - 1 ELSE At(i)
              /\ Has(i)' = (Has(i) /\ At(i) # m + 1 /\ At(i) # m + 2)
<1> DEFINE here == CellAt(s, m)
           r == Del(s, m)
           x == s[m + 1]
<1>1. /\ Linked(next, s) /\ count = Len(s) /\ Len(s) \in Nat
      /\ tail = CellAt(s, Len(s)) /\ \A i \in iters : Stands(s, i)
      /\ s \in Seq(Nodes) /\ IsInjective(s)
      /\ \A k \in 0..Len(s) : CellAt(s, k) \in Cells /\ next[CellAt(s, k)] = Succ(s, k)
  BY CellLemma DEF Holds, Linked
<1>2. /\ m \in Nat /\ m + 1 \in 1..Len(s) /\ m + 1 \in 0..Len(s) /\ m \in 0..Len(s)
      /\ m < Len(s) /\ m + 1 # 0
  BY <1>1
<1>3. /\ next[here] = x /\ next[x] = Succ(s, m + 1) /\ here \in Cells
      /\ x \in Nodes /\ x # Null
  BY <1>1, <1>2, CellLemma, NodesAssumption DEF Succ, CellAt, Cells
<1> HIDE DEF here, x
<1>4. /\ next' = [next EXCEPT ![here] = next[x]]
      /\ tail' = IF next[x] = Null THEN here ELSE tail
      /\ count' = count - 1
      /\ pos' = [i \in Iters |-> IF i \in iters
                                 THEN IF pos[i] = x THEN next[x] ELSE pos[i]
                                 ELSE pos[i]]
      /\ prev' = [i \in Iters |-> IF i \in iters
                                  THEN IF pos[i] = x \/ prev[i] = x THEN here ELSE prev[i]
                                  ELSE prev[i]]
      /\ last' = [i \in Watched |-> IF last[i] = x THEN Null ELSE last[i]]
      /\ seen' = [i \in Watched |-> seen[i] \ {x}]
      /\ owed' = [i \in Watched |-> owed[i] \ {x}]
      /\ UNCHANGED <<iters, pc, pp, ppPrev>>
  BY <1>3 DEF Unlink, TailAfterDestroy, PosAfterDestroy, PrevAfterDestroy, Forget, loop,
              here
<1>5. /\ Len(r) = Len(s) - 1 /\ ToSet(r) = ToSet(s) \ {x}
      /\ CellAt(r, m) = here
      /\ \A k \in m + 2..Len(s) : CellAt(r, k - 1) = CellAt(s, k)
  <2>1. m \in 0..m
    BY <1>2
  <2> QED BY <1>1, <2>1, DelLemma DEF here, x
<1>6. Linked(next', r)
  BY <1>1, <1>4, LinkDel DEF here, x
<1>7. Typed'
  <2>1. /\ iters \subseteq Iters /\ next[x] \in Nodes \cup {Null}
        /\ prev \in [Iters -> Cells] /\ pos \in [Iters -> Nodes \cup {Null}]
        /\ last \in [Watched -> Nodes \cup {Null}]
        /\ seen \in [Watched -> SUBSET Nodes] /\ owed \in [Watched -> SUBSET Nodes]
    BY <1>1, <1>2, <1>3, CellLemma DEF Typed, TypeOK
  <2>2. prev' \in [Iters -> Cells] /\ pos' \in [Iters -> Nodes \cup {Null}]
    BY <1>3, <1>4, <2>1
  <2>3. /\ last' \in [Watched -> Nodes \cup {Null}]
        /\ seen' \in [Watched -> SUBSET Nodes] /\ owed' \in [Watched -> SUBSET Nodes]
    BY <1>4, <2>1
  <2>4. next' \in [Cells -> Nodes \cup {Null}] /\ tail' \in Cells /\ count' \in Nat
    BY <1>1, <1>2, <1>3, <1>4, <1>6 DEF Linked, Typed, TypeOK
  <2> QED BY <1>4, <2>2, <2>3, <2>4 DEF Typed, TypeOK
<1>8. tail' = CellAt(r, Len(r))
  <2>1. CASE m + 1 = Len(s)
    <3>1. next[x] = Null /\ Len(r) = m
      BY <1>1, <1>2, <1>3, <1>5, <2>1 DEF Succ
    <3> QED BY <1>4, <1>5, <3>1
  <2>2. CASE m + 1 # Len(s)
    <3>1. m + 2 \in 1..Len(s) /\ Len(s) \in m + 2..Len(s) /\ m + 1 < Len(s)
          /\ (m + 1) + 1 = m + 2
      BY <1>1, <1>2, <2>2
    <3>2. next[x] # Null
      BY <1>1, <1>3, <3>1, CellLemma, NodesAssumption DEF Succ, Cells
    <3> QED BY <1>1, <1>4, <1>5, <3>1, <3>2
  <2> QED BY <2>1, <2>2
<1>9. ASSUME NEW i \in iters
      PROVE  /\ Stands(r, i)'
             /\ At(i)' = IF At(i) > m + 1 THEN At(i) - 1 ELSE At(i)
             /\ Has(i)' = (Has(i) /\ At(i) # m + 1 /\ At(i) # m + 2)
  <2>1. PICK k, a : /\ Cursor(s, prev[i], pos[i], k, a)
                    /\ i \in Watched => Told(s, i, k, a)
    BY <1>1 DEF Stands
  <2> DEFINE p2 == IF pos[i] = x \/ prev[i] = x THEN here ELSE prev[i]
             q2 == IF pos[i] = x THEN next[x] ELSE pos[i]
  <2>2. PICK b, c : /\ Cursor(r, p2, q2, b, c)
                    /\ c = IF a > m THEN a - 1 ELSE a
                    /\ c = b + 1 <=> a = k + 1 /\ a # m /\ a # m + 1
                    /\ c = b + 1 => a = k + 1 /\ r[c] = s[a]
                    /\ Prefix(r, c) = Prefix(s, a) \ {x}
    BY <1>1, <2>1, DestroyCursor DEF here, x
  <2>3. prev'[i] = p2 /\ pos'[i] = q2
    BY <1>4 DEF Typed, TypeOK
  <2> HIDE DEF p2, q2, r
  <2>4. ASSUME i \in Watched
        PROVE  Told(r, i, b, c)'
    <3>1. /\ a = k + 1 => last[i] = s[a]
          /\ seen[i] \subseteq Prefix(s, a)
          /\ Prefix(s, a) \cap owed[i] \subseteq seen[i]
          /\ owed[i] \subseteq ToSet(s)
      BY <2>1, <2>4 DEF Told
    <3>2. /\ last'[i] = IF last[i] = x THEN Null ELSE last[i]
          /\ seen'[i] = seen[i] \ {x} /\ owed'[i] = owed[i] \ {x}
      BY <1>4, <2>4
    <3>3. c = b + 1 => last'[i] = r[c]
      <4>1. c = b + 1 => c \in 1..c
        BY <2>2 DEF Cursor
      <4>2. c = b + 1 => r[c] # x
        BY <2>2, <4>1 DEF Prefix
      <4> QED BY <2>2, <3>1, <3>2, <4>2
    <3> QED BY <1>5, <2>2, <3>1, <3>2, <3>3 DEF Told
  <2>5. Stands(r, i)'
    BY <2>2, <2>3, <2>4 DEF Stands
  <2>6. At(i) = a + 1 /\ Has(i) = (a = k + 1) /\ a \in Nat /\ k \in Nat
    <3>1. At(i) = a + 1 /\ Has(i) = (a = k + 1)
      BY <1>1, <2>1, PlaceLemma
    <3> QED BY <1>1, <2>1, <3>1 DEF Cursor
  <2>7. At(i)' = c + 1 /\ Has(i)' = (c = b + 1)
    <3>1. Linked(next', r) /\ i \in iters' /\ Cursor(r, prev'[i], pos'[i], b, c)
      BY <1>4, <1>6, <2>2, <2>3
    <3> QED BY <3>1, PlacedNext
  <2>8. c + 1 = IF a + 1 > m + 1 THEN (a + 1) - 1 ELSE a + 1
    BY <1>2, <2>2, <2>6
  <2>9. (c = b + 1) = (a = k + 1 /\ a + 1 # m + 1 /\ a + 1 # m + 2)
    BY <1>2, <2>2, <2>6
  <2> QED BY <2>5, <2>6, <2>7, <2>8, <2>9
<1>10. pc' = "delete" => \E k \in 0..Len(r) : pp' = CellAt(r, k)
  <2>1. m \in 0..Len(r)
    BY <1>2, <1>5
  <2> QED BY <1>4, <1>5, <2>1 DEF here
<1>11. pc' # "sort" /\ iters' = iters /\ count' = Len(r)
  BY <1>1, <1>4, <1>5
<1> QED BY <1>6, <1>7, <1>8, <1>9, <1>10, <1>11 DEF Holds

LEMMA SameStep ==
  ASSUME Typed, NEW s, Holds(s), UNCHANGED <<next, tail, count, cursors, loop, history>>,
         ret' \in Nodes \cup {Null}
  PROVE  Typed' /\ Holds(s)'
<1>1. UNCHANGED <<next, tail, count, iters, pos, prev, pc, pp, ppPrev, last, seen, owed>>
  BY DEF cursors, loop, history
<1>2. Typed'
  BY <1>1 DEF Typed, TypeOK
<1>3. \A i : Stands(s, i) <=> Stands(s, i)'
  BY <1>1 DEF Stands, Told
<1> QED BY <1>1, <1>2, <1>3 DEF Holds

LEMMA DestroyStep ==
  ASSUME Typed, NEW s, Holds(s), pc = "idle", NEW m \in 0..Len(s),
         list_node_destroy(CellAt(s, m))
  PROVE  Typed' /\ \E t : Holds(t)'
<1>1. Len(s) \in Nat /\ next[CellAt(s, m)] = Succ(s, m) /\ Succ(s, m) \in Nodes \cup {Null}
  BY CellLemma DEF Holds, Linked
<1>2. CASE next[CellAt(s, m)] = Null
  BY <1>2, SameStep DEF list_node_destroy
<1>3. CASE next[CellAt(s, m)] # Null
  <2>1. m \in 0..Len(s) - 1
    BY <1>1, <1>3 DEF Succ
  <2>2. Unlink(CellAt(s, m)) /\ ret' \in Nodes \cup {Null} /\ UNCHANGED <<iters, loop>>
    BY <1>1, <1>3 DEF list_node_destroy
  <2> QED BY <2>1, <2>2, UnlinkStep
<1> QED BY <1>2, <1>3

(* The iterators of I at the head of the list, the others where they were. *)
LEMMA StartOverStep ==
  ASSUME Typed, NEW s, Linked(next, s), NEW I, StartOver(I), UNCHANGED next
  PROVE  /\ pos' \in [Iters -> Nodes \cup {Null}] /\ prev' \in [Iters -> Cells]
         /\ last' \in [Watched -> Nodes \cup {Null}]
         /\ seen' \in [Watched -> SUBSET Nodes] /\ owed' \in [Watched -> SUBSET Nodes]
         /\ \A i \in Iters : i \in I \/ Stands(s, i) => Stands(s, i)'
         /\ \A i \in Iters : i \in I => Cursor(s, prev'[i], pos'[i], 0, 0)
         /\ \A i \in Iters \ I : prev'[i] = prev[i] /\ pos'[i] = pos[i]
<1>1. /\ Len(s) \in Nat /\ s \in Seq(Nodes) /\ next[HeadCell] = Succ(s, 0)
      /\ Succ(s, 0) \in Nodes \cup {Null} /\ HeadCell \in Cells
  <2>1. 0 \in 0..Len(s) /\ CellAt(s, 0) = HeadCell
    BY CellLemma DEF CellAt
  <2> QED BY <2>1, CellLemma DEF Linked
<1>2. InList = ToSet(s) /\ ToSet(s) \subseteq Nodes
  BY <1>1, ChainLemma DEF InList, ToSet
<1>3. /\ pos' = [i \in Iters |-> IF i \in I THEN Succ(s, 0) ELSE pos[i]]
      /\ prev' = [i \in Iters |-> IF i \in I THEN HeadCell ELSE prev[i]]
      /\ last' = [i \in Watched |-> IF i \in I THEN Null ELSE last[i]]
      /\ seen' = [i \in Watched |-> IF i \in I THEN {} ELSE seen[i]]
      /\ owed' = [i \in Watched |-> IF i \in I THEN ToSet(s) ELSE owed[i]]
  BY <1>1, <1>2 DEF StartOver
<1>4. pos' \in [Iters -> Nodes \cup {Null}] /\ prev' \in [Iters -> Cells]
  BY <1>1, <1>3 DEF Typed, TypeOK
<1>5. /\ last' \in [Watched -> Nodes \cup {Null}]
      /\ seen' \in [Watched -> SUBSET Nodes] /\ owed' \in [Watched -> SUBSET Nodes]
  BY <1>2, <1>3 DEF Typed
<1>6. ASSUME NEW i \in Iters, i \in I
      PROVE  Stands(s, i)' /\ Cursor(s, prev'[i], pos'[i], 0, 0)
  <2>1. prev'[i] = CellAt(s, 0) /\ pos'[i] = Succ(s, 0) /\ 0 \in 0..Len(s) /\ 0 # 0 + 1
    BY <1>1, <1>3, <1>6 DEF CellAt
  <2>2. Cursor(s, prev'[i], pos'[i], 0, 0)
    BY <2>1 DEF Cursor
  <2>3. ASSUME i \in Watched
        PROVE  Told(s, i, 0, 0)'
    <3>1. seen'[i] = {} /\ owed'[i] = ToSet(s)
      BY <1>3, <1>6, <2>3
    <3>2. Prefix(s, 0) = {}
      BY DEF Prefix
    <3> QED BY <2>1, <3>1, <3>2 DEF Told
  <2> QED BY <2>2, <2>3 DEF Stands
<1>7. ASSUME NEW i \in Iters, i \notin I, Stands(s, i)
      PROVE  Stands(s, i)'
  <2>1. prev'[i] = prev[i] /\ pos'[i] = pos[i]
    BY <1>3, <1>7
  <2>2. i \in Watched => last'[i] = last[i] /\ seen'[i] = seen[i] /\ owed'[i] = owed[i]
    BY <1>3, <1>7
  <2> QED BY <1>7, <2>1, <2>2 DEF Stands, Told
<1>8. \A i \in Iters \ I : prev'[i] = prev[i] /\ pos'[i] = pos[i]
  BY <1>3
<1> QED BY <1>4, <1>5, <1>6, <1>7, <1>8

(* What n calls of list_next return to an iterator that goes to the node   *)
(* after cell a.                                                           *)
Got(s, a, n) == {Succ(s, After(a, m, Len(s))) : m \in 1..n}

LEMMA GotLemma ==
  ASSUME NEW nx, NEW s, Linked(nx, s), NEW a \in 0..Len(s), NEW n \in 1..Len(s) + 1
  PROVE  LET b == After(a, n, Len(s))
             d == After(b, 2, Len(s))
         IN  /\ b \in 0..Len(s) /\ d \in 0..Len(s) /\ (d = b \/ d = b + 1)
             /\ d = b + 1 => Succ(s, b) = s[d]
             /\ Succ(s, b) \notin Prefix(s, a)
             /\ Succ(s, b) = Null => d = Len(s)
             /\ Prefix(s, a) \subseteq Prefix(s, d)
             /\ Got(s, a, n) \ {Null} \subseteq Prefix(s, d)
             /\ Prefix(s, d) \subseteq Prefix(s, a) \cup Got(s, a, n)
<1> DEFINE l == Len(s)
           b == After(a, n, l)
           d == After(b, 2, l)
<1>1. /\ l \in Nat /\ a \in 0..l /\ n \in 1..l + 1
      /\ \A k \in 1..l : s[k] \in Nodes /\ s[k] # Null
      /\ \A k, m \in 1..l : s[k] = s[m] => k = m
  BY CellLemma, NodesAssumption DEF Linked, Cells, IsInjective
<1>2. b \in 0..l /\ a <= b /\ (b = a + n - 1 \/ b = l) /\ b <= a + n - 1
  BY <1>1 DEF After
<1> HIDE DEF b, l
<1>3. d \in 0..l /\ a <= d /\ d <= a + n /\ (b < l => d = b + 1) /\ (b = l => d = l)
  BY <1>1, <1>2 DEF After
<1> HIDE DEF d
<1>4. d = b \/ d = b + 1
  <2>1. b < l \/ b = l
    BY <1>1, <1>2
  <2> QED BY <1>3, <2>1
<1>5. d = b + 1 => Succ(s, b) = s[d]
  <2>1. d = b + 1 => b < l
    BY <1>1, <1>2, <1>3
  <2> QED BY <2>1 DEF Succ, l
<1>6. Succ(s, b) \notin Prefix(s, a)
  <2>1. \A k \in 1..a : k \in 1..l /\ k # b + 1
    BY <1>1, <1>2
  <2>2. b < l => b + 1 \in 1..l
    BY <1>1, <1>2
  <2>3. \A k \in 1..a : Succ(s, b) # s[k]
    BY <1>1, <2>1, <2>2 DEF Succ, l
  <2> QED BY <2>3 DEF Prefix
<1>7. Succ(s, b) = Null => d = l
  <2>1. b < l => b + 1 \in 1..l
    BY <1>1, <1>2
  <2>2. ~(b < l) => b = l
    BY <1>1, <1>2
  <2> QED BY <1>1, <1>3, <2>1, <2>2 DEF Succ, l
<1>8. Prefix(s, a) \subseteq Prefix(s, d)
  <2>1. \A k \in 1..a : k \in 1..d
    BY <1>1, <1>3
  <2> QED BY <2>1 DEF Prefix
<1>9. Got(s, a, n) \ {Null} \subseteq Prefix(s, d)
  <2>1. ASSUME NEW m \in 1..n, Succ(s, After(a, m, l)) # Null
        PROVE  Succ(s, After(a, m, l)) \in Prefix(s, d)
    <3> DEFINE e == After(a, m, l)
    <3>1. e \in 0..l /\ e <= b
      <4>1. CASE a + m - 1 <= l
        <5>1. e = a + m - 1
          BY <4>1 DEF After
        <5>2. a + m - 1 <= a + n - 1 /\ a + m - 1 \in 0..l
          BY <1>1, <4>1
        <5> HIDE DEF e
        <5> QED BY <1>1, <1>2, <5>1, <5>2
      <4>2. CASE ~(a + m - 1 <= l)
        <5>1. e = l
          BY <4>2 DEF After
        <5>2. a + n - 1 > l /\ l \in 0..l
          BY <1>1, <4>2
        <5> HIDE DEF e
        <5> QED BY <1>1, <1>2, <5>1, <5>2
      <4> QED BY <4>1, <4>2
    <3> HIDE DEF e
    <3>2. e < l /\ Succ(s, e) = s[e + 1]
      BY <2>1 DEF Succ, e, l
    <3>3. e + 1 \in 1..d
      BY <1>1, <1>2, <1>3, <3>1, <3>2
    <3> QED BY <3>2, <3>3 DEF Prefix, e
  <2> QED BY <2>1 DEF Got, l
<1>10. Prefix(s, d) \subseteq Prefix(s, a) \cup Got(s, a, n)
  <2>1. ASSUME NEW k \in 1..d
        PROVE  s[k] \in Prefix(s, a) \cup Got(s, a, n)
    <3>1. CASE k <= a
      <4>1. k \in 1..a
        BY <1>1, <3>1
      <4> QED BY <4>1 DEF Prefix
    <3>2. CASE ~(k <= a)
      <4>1. k - a \in 1..n /\ After(a, k - a, l) = k - 1 /\ k - 1 < l /\ (k - 1) + 1 = k
        BY <1>1, <1>3, <3>2 DEF After
      <4>2. Succ(s, After(a, k - a, l)) = s[k]
        BY <4>1 DEF Succ, l
      <4> QED BY <4>1, <4>2 DEF Got, l
    <3> QED BY <3>1, <3>2
  <2> QED BY <2>1 DEF Prefix
<1> QED BY <1>2, <1>3, <1>4, <1>5, <1>6, <1>7, <1>8, <1>9, <1>10 DEF b, d, l

LEMMA AdvanceStep ==
  ASSUME Typed, NEW s, Holds(s), pc = "idle", NEW i \in iters,
         NEW n \in 1..Len(s) + 1, Advance(i, n)
  PROVE  /\ Typed' /\ Holds(s)'
         /\ i \in Watched => /\ ret' \notin seen[i]
                             /\ ret' = Null => owed[i] \subseteq seen'[i]
         /\ \E a \in 0..Len(s) :
              LET b == After(a, n, Len(s))
                  d == After(b, 2, Len(s))
              IN  /\ At(i) = a + 1 /\ ret' = Succ(s, b)
                  /\ At(i)' = d + 1 /\ Has(i)' = (d = b + 1)
         /\ \A j \in Iters \ {i} : At(j)' = At(j) /\ Has(j)' = Has(j)
<1>1. /\ Linked(next, s) /\ count = Len(s) /\ Len(s) \in Nat
      /\ tail = CellAt(s, Len(s)) /\ \A j \in iters : Stands(s, j)
      /\ s \in Seq(Nodes) /\ ToSet(s) = Prefix(s, Len(s)) /\ ToSet(s) \subseteq Nodes
      /\ i \in Iters /\ iters \subseteq Iters
  BY CellLemma DEF Holds, Linked, ToSet, Prefix, Typed, TypeOK
<1>2. PICK k, a : Cursor(s, prev[i], pos[i], k, a) /\ (i \in Watched => Told(s, i, k, a))
  BY <1>1 DEF Stands
<1> DEFINE b == After(a, n, Len(s))
           d == After(b, 2, Len(s))
<1>3. a \in 0..Len(s)
  BY <1>2 DEF Cursor
<1>4. /\ b \in 0..Len(s) /\ d \in 0..Len(s) /\ (d = b \/ d = b + 1)
      /\ d = b + 1 => Succ(s, b) = s[d]
      /\ Succ(s, b) \notin Prefix(s, a)
      /\ Succ(s, b) = Null => d = Len(s)
      /\ Prefix(s, a) \subseteq Prefix(s, d)
      /\ Got(s, a, n) \ {Null} \subseteq Prefix(s, d)
      /\ Prefix(s, d) \subseteq Prefix(s, a) \cup Got(s, a, n)
  BY <1>1, <1>3, GotLemma
<1>5. \A m \in 1..n : m \in 1..Len(s) + 1
  BY <1>1
<1>6. /\ Steps(i)[n] = [pos |-> Succ(s, d), prev |-> CellAt(s, b), ret |-> Succ(s, b)]
      /\ \A m \in 1..n : Steps(i)[m].ret = Succ(s, After(a, m, Len(s)))
  <2> DEFINE R(m) == [pos |-> Succ(s, After(After(a, m, Len(s)), 2, Len(s))),
                      prev |-> CellAt(s, After(a, m, Len(s))),
                      ret |-> Succ(s, After(a, m, Len(s)))]
  <2>1. \A m \in 1..Len(s) + 1 : Steps(i)[m] = R(m)
    <3>1. Linked(next, s) /\ Cursor(s, prev[i], pos[i], k, a)
      BY <1>1, <1>2
    <3> QED BY <3>1, StepsLemma
  <2>2. \A m \in 1..Len(s) + 1 : Steps(i)[m].ret = Succ(s, After(a, m, Len(s)))
    <3> TAKE m \in 1..Len(s) + 1
    <3>1. R(m).ret = Succ(s, After(a, m, Len(s)))
      OBVIOUS
    <3> HIDE DEF R
    <3>2. Steps(i)[m] = R(m)
      BY <2>1
    <3> QED BY <3>1, <3>2
  <2> QED BY <1>5, <2>1, <2>2
<1> HIDE DEF b, d
<1>7. /\ Steps(i)[n].pos = Succ(s, d) /\ Steps(i)[n].prev = CellAt(s, b)
      /\ Steps(i)[n].ret = Succ(s, b)
      /\ {Steps(i)[m].ret : m \in 1..n} = Got(s, a, n)
  BY <1>6 DEF Got
<1>8. /\ pos' = [pos EXCEPT ![i] = Succ(s, d)]
      /\ prev' = [prev EXCEPT ![i] = CellAt(s, b)]
      /\ ret' = Succ(s, b)
      /\ last' = [j \in Watched |-> IF j = i THEN Succ(s, b) ELSE last[j]]
      /\ seen' = [j \in Watched |->
                    seen[j] \cup (IF j = i THEN Got(s, a, n) \ {Null} ELSE {})]
      /\ UNCHANGED <<next, tail, count, iters, pc, pp, ppPrev, owed>>
  BY <1>7 DEF Advance, loop
<1>9. /\ Succ(s, b) \in Nodes \cup {Null} /\ Succ(s, d) \in Nodes \cup {Null}
      /\ CellAt(s, b) \in Cells /\ Prefix(s, d) \subseteq Nodes
  <2>1. \A e \in 1..d : e \in 1..Len(s)
    BY <1>1, <1>4
  <2>2. Prefix(s, d) \subseteq ToSet(s)
    BY <1>1, <2>1 DEF Prefix
  <2> QED BY <1>1, <1>4, <2>2, CellLemma
<1>10. Typed'
  <2>1. pos' \in [Iters -> Nodes \cup {Null}] /\ prev' \in [Iters -> Cells]
    BY <1>8, <1>9 DEF Typed, TypeOK
  <2>2. /\ last' \in [Watched -> Nodes \cup {Null}]
        /\ seen' \in [Watched -> SUBSET Nodes]
    BY <1>4, <1>8, <1>9 DEF Typed
  <2> QED BY <1>8, <1>9, <2>1, <2>2 DEF Typed, TypeOK
<1>11. Stands(s, i)'
  <2>1. prev'[i] = CellAt(s, b) /\ pos'[i] = Succ(s, d)
    BY <1>1, <1>8 DEF Typed, TypeOK
  <2>2. Cursor(s, prev'[i], pos'[i], b, d)
    BY <1>4, <2>1 DEF Cursor
  <2>3. ASSUME i \in Watched
        PROVE  Told(s, i, b, d)'
    <3>1. /\ seen[i] \subseteq Prefix(s, a)
          /\ Prefix(s, a) \cap owed[i] \subseteq seen[i]
          /\ owed[i] \subseteq ToSet(s)
      BY <1>2, <2>3 DEF Told
    <3>2. /\ last'[i] = Succ(s, b) /\ seen'[i] = seen[i] \cup (Got(s, a, n) \ {Null})
          /\ owed' = owed
      BY <1>8, <2>3
    <3>3. Null \notin Prefix(s, d)
      BY <1>9, NodesAssumption DEF Cells
    <3> QED BY <1>4, <3>1, <3>2, <3>3 DEF Told
  <2> QED BY <2>2, <2>3 DEF Stands
<1>12. ASSUME NEW j \in iters, j # i
       PROVE  Stands(s, j)'
  <2>1. Stands(s, j) /\ prev'[j] = prev[j] /\ pos'[j] = pos[j]
    BY <1>1, <1>8, <1>12 DEF Typed, TypeOK
  <2>2. j \in Watched => last'[j] = last[j] /\ seen'[j] = seen[j] /\ owed'[j] = owed[j]
    BY <1>8, <1>12
  <2> QED BY <2>1, <2>2 DEF Stands, Told
<1>13. Holds(s)'
  BY <1>1, <1>8, <1>11, <1>12 DEF Holds
<1>14. ASSUME i \in Watched
       PROVE  /\ ret' \notin seen[i]
              /\ ret' = Null => owed[i] \subseteq seen'[i]
  <2>1. seen[i] \subseteq Prefix(s, a)
    BY <1>2, <1>14 DEF Told
  <2>2. ASSUME ret' = Null
        PROVE  owed[i] \subseteq seen'[i]
    <3>1. /\ Prefix(s, a) \cap owed[i] \subseteq seen[i]
          /\ owed[i] \subseteq ToSet(s)
      BY <1>2, <1>14 DEF Told
    <3>2. seen'[i] = seen[i] \cup (Got(s, a, n) \ {Null})
      BY <1>8, <1>14
    <3>3. ToSet(s) = Prefix(s, d) /\ Null \notin ToSet(s)
      BY <1>1, <1>4, <1>8, <2>2, NodesAssumption DEF Cells
    <3> QED BY <1>4, <3>1, <3>2, <3>3
  <2> QED BY <1>4, <1>8, <2>1, <2>2
<1>15. /\ At(i) = a + 1 /\ ret' = Succ(s, b)
       /\ At(i)' = d + 1 /\ Has(i)' = (d = b + 1)
  <2>1. At(i) = a + 1
    BY <1>1, <1>2, PlaceLemma
  <2>2. prev'[i] = CellAt(s, b) /\ pos'[i] = Succ(s, d) /\ iters' = iters /\ next' = next
    BY <1>1, <1>8 DEF Typed, TypeOK
  <2>3. Linked(next', s) /\ i \in iters' /\ Cursor(s, prev'[i], pos'[i], b, d)
    BY <1>1, <1>4, <2>2 DEF Cursor
  <2> QED BY <1>8, <2>1, <2>3, PlacedNext
<1>16. ASSUME NEW j \in Iters \ {i}
       PROVE  At(j)' = At(j) /\ Has(j)' = Has(j)
  <2>1. /\ next' = next /\ (j \in iters' <=> j \in iters)
        /\ j \in iters => prev'[j] = prev[j] /\ pos'[j] = pos[j]
    BY <1>1, <1>8 DEF Typed, TypeOK
  <2> QED BY <2>1, FrameLemma
<1> QED BY <1>3, <1>10, <1>13, <1>14, <1>15, <1>16 DEF b, d

(***************************************************************************)
(* list_sort moves the node behind cell k + 1 to cell j, at or before the  *)
(* cell k in front of a node with a greater key: the three assignments are *)
(* a removal and an insertion.                                             *)
(***************************************************************************)
LEMMA MoveStep ==
  ASSUME Typed, NEW s, Linked(next, s), NEW k \in 0..Len(s) - 2,
         ppPrev = CellAt(s, k), pp = CellAt(s, k + 1),
         Key[next[pp]] < Key[next[ppPrev]],
         next' = [next EXCEPT ![next[pp]] = next[ppPos], ![ppPos] = next[pp], ![pp] = pTmp],
         ppPrev' = PrevAfterMove
  PROVE  \E j \in 0..k :
           LET t == Ins(Del(s, k + 1), j, s[k + 2])
           IN  /\ Linked(next', t) /\ Len(t) = Len(s)
               /\ ppPrev' = CellAt(t, k + 1) /\ pp = CellAt(t, k + 2)
               /\ StopsAt(s[k + 2], s[j + 1])
               /\ \A m \in 1..j : ~StopsAt(s[k + 2], s[m])
<1> DEFINE x == s[k + 2]
           r == Del(s, k + 1)
<1>1. /\ Len(s) \in Nat /\ s \in Seq(Nodes) /\ IsInjective(s) /\ DOMAIN s = 1..Len(s)
      /\ next \in [Cells -> Nodes \cup {Null}] /\ Chain = s
      /\ \A i \in 0..Len(s) : CellAt(s, i) \in Cells /\ next[CellAt(s, i)] = Succ(s, i)
      /\ \A i, n \in 0..Len(s) : CellAt(s, i) = CellAt(s, n) => i = n
      /\ \A i \in 1..Len(s) : s[i] \in Nodes
  BY ChainLemma, CellLemma DEF Linked
<1>2. /\ k \in Nat /\ k + 2 \in 1..Len(s) /\ k + 1 \in 1..Len(s) /\ k + 1 \in 0..Len(s) - 1
      /\ k \in 0..Len(s) /\ k + 1 \in 0..Len(s) /\ k < Len(s) /\ k + 1 < Len(s)
      /\ (k + 1) + 1 = k + 2
  BY <1>1
<1>3. next[pp] = x /\ next[ppPrev] = s[k + 1] /\ x \in Nodes /\ CellAt(s, k + 2) = x
  BY <1>1, <1>2 DEF Succ, CellAt
<1>4. PICK n \in 1..k + 1 : /\ ppPos = (<<HeadCell>> \o s)[n]
                           /\ StopsAt(x, s[n]) /\ \A m \in 1..n - 1 : ~StopsAt(x, s[m])
  <2> DEFINE Stop == {i \in 1..Len(s) : Key[x] < Key[s[i]]}
             P(i) == Key[x] < Key[s[i]] /\ \A m \in 1..i - 1 : ~(Key[x] < Key[s[m]])
  <2>1. k + 1 \in Stop
    BY <1>2, <1>3
  <2>2. PICK i \in Stop : \A m \in Stop : i <= m
    <3>1. Stop \subseteq Nat /\ Stop # {}
      BY <2>1
    <3> HIDE DEF Stop
    <3> QED BY <3>1, LeastLemma
  <2>3. i \in 1..Len(s) /\ P(i)
    <3>1. \A m \in 1..i - 1 : m \in 1..Len(s) /\ ~(i <= m)
      BY <1>1
    <3>2. \A m \in 1..i - 1 : m \notin Stop
      BY <2>2, <3>1
    <3> QED BY <3>1, <3>2
  <2> DEFINE n == CHOOSE n \in DOMAIN s : P(n)
  <2>4. n \in 1..Len(s) /\ P(n)
    BY <1>1, <2>3
  <2>5. ppPos = (<<HeadCell>> \o s)[n]
    BY <1>1, <1>3 DEF ppPos, StopsAt
  <2> HIDE DEF n
  <2>6. n <= k + 1
    <3> SUFFICES ASSUME n > k + 1 PROVE FALSE
      BY <1>2, <2>4
    <3>1. k + 1 \in 1..n - 1
      BY <1>2, <2>4
    <3> QED BY <2>1, <2>4, <3>1
  <2>7. n \in 1..k + 1
    BY <1>2, <2>4, <2>6
  <2>8. StopsAt(x, s[n]) /\ \A m \in 1..n - 1 : ~StopsAt(x, s[m])
    BY <2>4 DEF StopsAt
  <2> QED BY <2>5, <2>7, <2>8
<1> DEFINE j == n - 1
           t == Ins(r, j, x)
<1>5. /\ j \in Nat /\ j <= k /\ j + 1 = n /\ j \in 0..Len(s) /\ j \in 0..k + 1
      /\ j # k + 1
  BY <1>2
<1>6. ppPos = CellAt(s, j)
  <2>1. CASE n = 1
    BY <1>1, <1>4, <2>1 DEF CellAt
  <2>2. CASE n # 1
    <3>1. n - 1 \in 1..Len(s) /\ n \in 1..Len(s) + 1 /\ n - 1 # 0 /\ Len(<<HeadCell>>) = 1
          /\ n > 1 /\ n <= 1 + Len(s)
      BY <1>2, <2>2
    <3>2. (<<HeadCell>> \o s)[n] = s[n - 1]
      BY <1>1, <3>1
    <3> QED BY <1>4, <3>1, <3>2 DEF CellAt
  <2> QED BY <2>1, <2>2
<1> HIDE DEF x, j
<1>7. /\ r \in Seq(Nodes) /\ Len(r) = Len(s) - 1 /\ ToSet(r) = ToSet(s) \ {x}
      /\ \A i \in 0..k + 1 : CellAt(r, i) = CellAt(s, i)
  <2>1. s \in Seq(Nodes) /\ IsInjective(s) /\ k + 1 \in 0..Len(s) - 1
    BY <1>1, <1>2
  <2>2. s[(k + 1) + 1] = x
    BY <1>2 DEF x
  <2>3. /\ r \in Seq(Nodes) /\ Len(r) = Len(s) - 1 /\ ToSet(r) = ToSet(s) \ {s[(k + 1) + 1]}
        /\ \A i \in 0..k + 1 : CellAt(r, i) = CellAt(s, i)
    BY <2>1, DelLemma
  <2> QED BY <2>2, <2>3
<1> DEFINE ny == [next EXCEPT ![pp] = next[x]]
<1>8. Linked(ny, r)
  BY <1>2, LinkDel DEF x
<1>9. j \in 0..Len(r) /\ CellAt(r, j) = ppPos /\ x \notin ToSet(r)
  BY <1>1, <1>2, <1>5, <1>6, <1>7
<1> HIDE DEF ny, r
<1>10. Linked([ny EXCEPT ![x] = ny[ppPos], ![ppPos] = x], t)
  BY <1>3, <1>8, <1>9, LinkIns
<1>11. pp # ppPos /\ pp # x /\ ppPos # x /\ {pp, ppPos, x} \subseteq Cells
  <2>1. k + 2 \in 0..Len(s) /\ k + 1 # k + 2 /\ j # k + 2
    BY <1>2, <1>5
  <2> QED BY <1>1, <1>2, <1>3, <1>5, <1>6, <2>1
<1>12. next' = [ny EXCEPT ![x] = ny[ppPos], ![ppPos] = x]
  <2>1. next' = [next EXCEPT ![x] = next[ppPos], ![ppPos] = x, ![pp] = next[x]]
    BY <1>3 DEF pTmp
  <2> QED BY <1>1, <1>11, <2>1 DEF ny
<1>13. /\ IsInjective(r) /\ Len(t) = Len(r) + 1 /\ CellAt(t, j + 1) = x
       /\ \A i \in j + 1..Len(r) : CellAt(t, i + 1) = CellAt(r, i)
  <2>1. IsInjective(r)
    BY <1>8 DEF Linked
  <2> QED BY <1>3, <1>7, <1>9, <2>1, InsLemma
<1> HIDE DEF t
<1>14. pp = CellAt(t, k + 2)
  <2>1. k + 1 \in j + 1..Len(r) /\ k + 1 \in 0..k + 1
    BY <1>1, <1>2, <1>5, <1>7
  <2> QED BY <1>2, <1>7, <1>13, <2>1
<1>15. ppPrev' = CellAt(t, k + 1)
  <2>1. CASE j = k
    <3>1. ppPrev' = x
      BY <1>3, <1>6, <2>1 DEF PrevAfterMove
    <3> QED BY <1>13, <2>1, <3>1
  <2>2. CASE j # k
    <3>1. k \in j + 1..Len(r) /\ k \in 0..k + 1
      BY <1>1, <1>2, <1>5, <1>7, <2>2
    <3>2. ppPrev # ppPos
      BY <1>1, <1>2, <1>5, <1>6, <2>2
    <3> QED BY <1>7, <1>13, <3>1, <3>2 DEF PrevAfterMove
  <2> QED BY <2>1, <2>2
<1>16. Len(t) = Len(s)
  BY <1>1, <1>7, <1>13
<1>17. j \in 0..k /\ StopsAt(x, s[j + 1]) /\ \A m \in 1..j : ~StopsAt(x, s[m])
  <2>1. j \in 0..k /\ \A m \in 1..j : m \in 1..n - 1
    BY <1>2, <1>5 DEF j
  <2> QED BY <1>4, <1>5, <2>1
<1> QED BY <1>10, <1>12, <1>14, <1>15, <1>16, <1>17 DEF t, r, x

LEMMA SortSteps ==
  ASSUME Typed, NEW s, Holds(s), SortStep
  PROVE  Typed' /\ \E t : Holds(t)'
<1>1. /\ Linked(next, s) /\ count = Len(s) /\ Len(s) \in Nat /\ pc = "sort"
      /\ \A i \in 0..Len(s) : CellAt(s, i) \in Cells /\ next[CellAt(s, i)] = Succ(s, i)
      /\ UNCHANGED <<tail, count, iters, pos, prev, pc, ret, last, seen, owed>>
  BY CellLemma DEF SortStep, Holds, Linked, cursors, history
<1>2. PICK k \in 0..Len(s) - 1 : ppPrev = CellAt(s, k) /\ pp = CellAt(s, k + 1)
  BY <1>1 DEF Holds
<1>3. k \in 0..Len(s) - 2 /\ k + 1 \in 0..Len(s) - 1 /\ (k + 1) + 1 = k + 2
      /\ k + 1 \in 0..Len(s) /\ k + 2 \in 0..Len(s) /\ k + 2 # 0
  <2>1. k + 1 \in 0..Len(s) /\ next[pp] # Null
    BY <1>1, <1>2 DEF SortStep
  <2>2. k + 1 < Len(s)
    BY <1>1, <1>2, <2>1 DEF Succ
  <2> QED BY <1>1, <2>2
<1>4. next[pp] = CellAt(s, k + 2)
  BY <1>1, <1>2, <1>3 DEF Succ, CellAt
<1>5. CASE Key[next[pp]] < Key[next[ppPrev]]
  <2>1. /\ next' = [next EXCEPT ![next[pp]] = next[ppPos], ![ppPos] = next[pp], ![pp] = pTmp]
        /\ ppPrev' = PrevAfterMove /\ pp' = pp
    BY <1>5 DEF SortStep
  <2>2. PICK t : /\ Linked(next', t) /\ Len(t) = Len(s)
                 /\ ppPrev' = CellAt(t, k + 1) /\ pp = CellAt(t, k + 2)
    BY <1>1, <1>2, <1>3, <1>5, <2>1, MoveStep
  <2>3. pp' \in Cells /\ ppPrev' \in Cells
    BY <1>3, <2>1, <2>2, CellLemma DEF Typed, TypeOK
  <2>4. next' \in [Cells -> Nodes \cup {Null}]
    BY <2>2 DEF Linked
  <2>5. Typed'
    BY <1>1, <2>3, <2>4 DEF Typed, TypeOK
  <2>6. Holds(t)'
    BY <1>1, <1>3, <2>1, <2>2 DEF Holds
  <2> QED BY <2>5, <2>6
<1>6. CASE ~(Key[next[pp]] < Key[next[ppPrev]])
  <2>1. next' = next /\ ppPrev' = pp /\ pp' = CellAt(s, k + 2)
    BY <1>4, <1>6 DEF SortStep
  <2>2. Typed'
    BY <1>1, <1>2, <1>3, <2>1 DEF Typed, TypeOK
  <2>3. Holds(s)'
    BY <1>1, <1>2, <1>3, <2>1 DEF Holds
  <2> QED BY <2>2, <2>3
<1> QED BY <1>5, <1>6

LEMMA SortDoneStep ==
  ASSUME Typed, NEW s, Holds(s), SortDone
  PROVE  Typed' /\ Holds(s)'
<1>1. /\ Linked(next, s) /\ count = Len(s) /\ Len(s) \in Nat /\ pc = "sort"
      /\ next[pp] = Null /\ tail' = pp /\ pc' = "idle" /\ pp' = HeadCell
      /\ ppPrev' = HeadCell /\ ret' = Null /\ UNCHANGED <<next, count, iters>>
      /\ StartOver(iters)
  BY DEF SortDone, Leave, Holds
<1>2. PICK k \in 0..Len(s) - 1 : ppPrev = CellAt(s, k) /\ pp = CellAt(s, k + 1)
  BY <1>1 DEF Holds
<1>3. pp = CellAt(s, Len(s))
  <2>1. k + 1 \in 0..Len(s) /\ k + 1 # 0
    BY <1>1
  <2>2. Succ(s, k + 1) = Null
    BY <1>1, <1>2, <2>1 DEF Linked
  <2>3. CASE k + 1 < Len(s)
    <3>1. (k + 1) + 1 \in 1..Len(s)
      BY <1>1, <2>3
    <3> QED BY <1>1, <2>2, <2>3, <3>1, CellLemma, NodesAssumption DEF Succ, Cells
  <2>4. CASE ~(k + 1 < Len(s))
    <3>1. k + 1 = Len(s)
      BY <1>1, <2>1, <2>4
    <3> QED BY <1>2, <3>1
  <2> QED BY <2>3, <2>4
<1>4. /\ pos' \in [Iters -> Nodes \cup {Null}] /\ prev' \in [Iters -> Cells]
      /\ last' \in [Watched -> Nodes \cup {Null}]
      /\ seen' \in [Watched -> SUBSET Nodes] /\ owed' \in [Watched -> SUBSET Nodes]
      /\ \A i \in Iters : i \in iters => Stands(s, i)'
  BY <1>1, StartOverStep
<1>5. iters \subseteq Iters /\ HeadCell \in Cells
  BY DEF Typed, TypeOK, Cells
<1>6. Typed'
  BY <1>1, <1>4, <1>5 DEF Typed, TypeOK
<1>7. Holds(s)'
  BY <1>1, <1>3, <1>4, <1>5 DEF Holds
<1> QED BY <1>6, <1>7

LEMMA DeleteSteps ==
  ASSUME Typed, NEW s, Holds(s), DeleteStep \/ DeleteDone
  PROVE  Typed' /\ \E t : Holds(t)'
<1>1. /\ Linked(next, s) /\ count = Len(s) /\ Len(s) \in Nat /\ pc = "delete"
      /\ tail = CellAt(s, Len(s)) /\ \A i \in iters : Stands(s, i)
      /\ \A i \in 0..Len(s) : CellAt(s, i) \in Cells /\ next[CellAt(s, i)] = Succ(s, i)
  BY CellLemma DEF DeleteStep, DeleteDone, Holds, Linked
<1>2. PICK k \in 0..Len(s) : pp = CellAt(s, k)
  BY <1>1 DEF Holds
<1>3. CASE DeleteStep /\ Key[next[pp]] = key
  <2>1. k \in 0..Len(s) - 1
    BY <1>1, <1>2, <1>3 DEF DeleteStep, Succ
  <2>2. Unlink(CellAt(s, k)) /\ UNCHANGED <<iters, loop>> /\ ret' \in Nodes \cup {Null}
    BY <1>2, <1>3 DEF DeleteStep, Typed, TypeOK
  <2> QED BY <1>1, <1>2, <2>1, <2>2, UnlinkStep
<1>4. CASE DeleteStep /\ Key[next[pp]] # key
  <2>1. /\ pp' = next[pp]
        /\ UNCHANGED <<next, tail, count, iters, pos, prev, pc, ppPrev, ret, last, seen, owed>>
    BY <1>4 DEF DeleteStep, cursors, history
  <2>2. k + 1 \in 0..Len(s) /\ pp' = CellAt(s, k + 1)
    BY <1>1, <1>2, <1>4, <2>1 DEF DeleteStep, Succ, CellAt
  <2>3. Typed'
    BY <1>1, <2>1, <2>2 DEF Typed, TypeOK
  <2>4. \A i : Stands(s, i) <=> Stands(s, i)'
    BY <2>1 DEF Stands, Told
  <2>5. Holds(s)'
    BY <1>1, <2>1, <2>2, <2>4 DEF Holds
  <2> QED BY <2>3, <2>5
<1>5. CASE DeleteDone
  <2>1. /\ pc' = "idle" /\ pp' = HeadCell /\ ppPrev' = HeadCell /\ ret' = Null
        /\ UNCHANGED <<next, tail, count, iters, pos, prev, last, seen, owed>>
    BY <1>5 DEF DeleteDone, Leave, cursors, history
  <2>2. Typed'
    BY <2>1 DEF Typed, TypeOK, Cells
  <2>3. \A i : Stands(s, i) <=> Stands(s, i)'
    BY <2>1 DEF Stands, Told
  <2>4. Holds(s)'
    BY <1>1, <2>1, <2>3 DEF Holds
  <2> QED BY <2>2, <2>4
<1> QED BY <1>3, <1>4, <1>5 DEF DeleteStep

LEMMA EmptyList ==
  ASSUME NEW nx, nx = [c \in Cells |-> Null]
  PROVE  Linked(nx, <<>>) /\ Len(<<>>) = 0 /\ CellAt(<<>>, 0) = HeadCell
<1>1. <<>> \in Seq(Nodes) /\ Len(<<>>) = 0 /\ IsInjective(<<>>)
  BY DEF IsInjective
<1>2. CellAt(<<>>, 0) = HeadCell /\ Succ(<<>>, 0) = Null /\ HeadCell \in Cells
  BY DEF CellAt, Succ, Cells
<1>3. \A k \in 0..0 : k = 0
  OBVIOUS
<1> QED BY <1>1, <1>2, <1>3 DEF Linked

LEMMA InitHolds ==
  ASSUME Init
  PROVE  Inv
<1>1. Typed
  BY DEF Init, Typed, TypeOK, Cells
<1>2. Holds(<<>>)
  BY EmptyList DEF Init, Holds
<1> QED BY <1>1, <1>2 DEF Inv

LEMMA ClearStep ==
  ASSUME Typed, list_destroy
  PROVE  Typed' /\ Holds(<<>>)'
<1>1. /\ pc = "idle" /\ next' = [c \in Cells |-> Null] /\ tail' = HeadCell /\ count' = 0
      /\ iters' = {} /\ pos' = [i \in Iters |-> Null] /\ prev' = [i \in Iters |-> HeadCell]
      /\ ret' = Null /\ last' = [i \in Watched |-> Null]
      /\ seen' = [i \in Watched |-> {}] /\ owed' = [i \in Watched |-> {}]
      /\ UNCHANGED <<pc, pp, ppPrev>>
  BY DEF list_destroy, loop
<1>2. Typed'
  BY <1>1 DEF Typed, TypeOK, Cells
<1>3. Linked(next', <<>>) /\ Len(<<>>) = 0 /\ CellAt(<<>>, 0) = HeadCell
  BY <1>1, EmptyList
<1>4. Holds(<<>>)'
  BY <1>1, <1>3 DEF Holds
<1> QED BY <1>2, <1>4

LEMMA EnterSteps ==
  ASSUME Typed, NEW s, Holds(s), (\E k : list_delete_all(k)) \/ list_sort
  PROVE  Typed' /\ Holds(s)'
<1>1. /\ Linked(next, s) /\ count = Len(s) /\ Len(s) \in Nat
      /\ UNCHANGED <<next, tail, count, iters, pos, prev, ret, last, seen, owed>>
      /\ pc = "idle"
  BY CellLemma DEF Holds, list_delete_all, list_sort, Enter, cursors, history
<1>2. tail = CellAt(s, Len(s)) /\ \A i \in iters : Stands(s, i)
  BY <1>1 DEF Holds
<1>3. \A i : Stands(s, i) <=> Stands(s, i)'
  BY <1>1 DEF Stands, Told
<1>4. 0 \in 0..Len(s) /\ CellAt(s, 0) = HeadCell
  BY <1>1 DEF CellAt
<1>5. CASE \E k : list_delete_all(k)
  <2>1. pc' = "delete" /\ pp' = HeadCell /\ ppPrev' = ppPrev
    BY <1>5 DEF list_delete_all, Enter
  <2>2. Typed'
    BY <1>1, <2>1 DEF Typed, TypeOK, Cells
  <2>3. Holds(s)'
    BY <1>1, <1>2, <1>3, <1>4, <2>1 DEF Holds
  <2> QED BY <2>2, <2>3
<1>6. CASE list_sort
  <2>1. pc' = "sort" /\ ppPrev' = HeadCell /\ pp' = next[HeadCell] /\ count > 1
    BY <1>6 DEF list_sort, Enter
  <2>2. /\ 0 \in 0..Len(s) - 1 /\ 0 + 1 \in 0..Len(s) /\ 0 < Len(s) /\ 0 + 1 # 0
    BY <1>1, <2>1
  <2>3. pp' = CellAt(s, 0 + 1)
    BY <1>1, <1>4, <2>1, <2>2 DEF Linked, Succ, CellAt
  <2>4. pp' \in Cells /\ ppPrev' \in Cells
    BY <1>1, <2>1, <2>2, <2>3, CellLemma DEF Cells
  <2>5. Typed'
    BY <1>1, <2>1, <2>4 DEF Typed, TypeOK
  <2>6. Holds(s)'
    BY <1>1, <1>4, <2>1, <2>2, <2>3 DEF Holds
  <2> QED BY <2>5, <2>6
<1> QED BY <1>5, <1>6

LEMMA IteratorSteps ==
  ASSUME Typed, NEW s, Holds(s), NEW i \in Iters,
         \/ list_iterator_create(i) \/ list_iterator_reset(i) \/ list_iterator_destroy(i)
  PROVE  Typed' /\ Holds(s)'
<1>1. /\ Linked(next, s) /\ count = Len(s) /\ Len(s) \in Nat
      /\ UNCHANGED <<next, tail, count, pc, pp, ppPrev>> /\ ret' = Null
      /\ pc = "idle"
  BY CellLemma DEF Holds, list_iterator_create, list_iterator_reset, list_iterator_destroy,
                   loop
<1>2. /\ tail = CellAt(s, Len(s)) /\ \A j \in iters : Stands(s, j)
      /\ iters \subseteq Iters
  BY <1>1 DEF Holds, Typed, TypeOK
<1>3. CASE list_iterator_create(i) \/ list_iterator_reset(i)
  <2>1. StartOver({i}) /\ iters' = iters \cup {i}
    BY <1>3 DEF list_iterator_create, list_iterator_reset
  <2>2. /\ pos' \in [Iters -> Nodes \cup {Null}] /\ prev' \in [Iters -> Cells]
        /\ last' \in [Watched -> Nodes \cup {Null}]
        /\ seen' \in [Watched -> SUBSET Nodes] /\ owed' \in [Watched -> SUBSET Nodes]
        /\ \A j \in Iters : j \in {i} \/ Stands(s, j) => Stands(s, j)'
    BY <1>1, <2>1, StartOverStep
  <2>3. Typed'
    BY <1>1, <1>2, <2>1, <2>2 DEF Typed, TypeOK
  <2>4. Holds(s)'
    BY <1>1, <1>2, <2>1, <2>2 DEF Holds
  <2> QED BY <2>3, <2>4
<1>4. CASE list_iterator_destroy(i)
  <2>1. /\ iters' = iters \ {i}
        /\ pos' = [pos EXCEPT ![i] = Null] /\ prev' = [prev EXCEPT ![i] = HeadCell]
        /\ last' = [j \in Watched |-> IF j = i THEN Null ELSE last[j]]
        /\ seen' = [j \in Watched |-> IF j = i THEN {} ELSE seen[j]]
        /\ owed' = [j \in Watched |-> IF j = i THEN {} ELSE owed[j]]
    BY <1>4 DEF list_iterator_destroy
  <2>2. pos' \in [Iters -> Nodes \cup {Null}] /\ prev' \in [Iters -> Cells]
    BY <2>1 DEF Typed, TypeOK, Cells
  <2>3. /\ last' \in [Watched -> Nodes \cup {Null}]
        /\ seen' \in [Watched -> SUBSET Nodes] /\ owed' \in [Watched -> SUBSET Nodes]
    BY <2>1 DEF Typed
  <2>4. Typed'
    BY <1>1, <1>2, <2>1, <2>2, <2>3 DEF Typed, TypeOK
  <2>5. ASSUME NEW j \in iters, j # i
        PROVE  Stands(s, j)'
    <3>1. Stands(s, j) /\ prev'[j] = prev[j] /\ pos'[j] = pos[j]
      BY <1>2, <2>1, <2>5 DEF Typed, TypeOK
    <3>2. j \in Watched => last'[j] = last[j] /\ seen'[j] = seen[j] /\ owed'[j] = owed[j]
      BY <2>1, <2>5
    <3> QED BY <3>1, <3>2 DEF Stands, Told
  <2>6. Holds(s)'
    BY <1>1, <1>2, <2>1, <2>5 DEF Holds
  <2> QED BY <2>4, <2>6
<1> QED BY <1>3, <1>4

LEMMA NextHolds ==
  ASSUME Inv, [Next]_vars
  PROVE  Inv'
<1>1. PICK s : Holds(s)
  BY DEF Inv
<1>2. /\ Typed /\ Linked(next, s) /\ Len(s) \in Nat /\ Chain = s
      /\ \A i \in iters : pc = "idle" => Stands(s, i)
      /\ pc = "idle" => tail = CellAt(s, Len(s))
  BY <1>1, ChainLemma, CellLemma DEF Inv, Holds
<1>3. 0 \in 0..Len(s) /\ Len(s) \in 0..Len(s) /\ CellAt(s, 0) = HeadCell
  BY <1>2 DEF CellAt
<1>4. ASSUME NEW i \in iters, pc = "idle"
      PROVE  \E k \in 0..Len(s) : prev[i] = CellAt(s, k)
  BY <1>2, <1>4 DEF Stands, Cursor
<1>5. CASE UNCHANGED vars
  <2>1. ret' \in Nodes \cup {Null} /\ UNCHANGED <<next, tail, count, cursors, loop, history>>
    BY <1>2, <1>5 DEF vars, Typed, TypeOK
  <2> QED BY <1>1, <1>2, <2>1, SameStep DEF Inv
<1>6. ASSUME NEW x \in Nodes, list_append(x) \/ list_prepend(x)
      PROVE  Inv'
  <2>1. pc = "idle" /\ \E j \in 0..Len(s) : list_node_create(CellAt(s, j), x)
    BY <1>2, <1>3, <1>6 DEF list_append, list_prepend
  <2> QED BY <1>1, <1>2, <2>1, CreateStep DEF Inv
<1>7. ASSUME NEW i \in Iters, NEW x \in Nodes, list_insert(i, x)
      PROVE  Inv'
  <2>1. pc = "idle" /\ \E j \in 0..Len(s) : list_node_create(CellAt(s, j), x)
    BY <1>4, <1>7 DEF list_insert
  <2> QED BY <1>1, <1>2, <2>1, CreateStep DEF Inv
<1>8. CASE list_pop
  <2>1. pc = "idle" /\ list_node_destroy(CellAt(s, 0))
    BY <1>3, <1>8 DEF list_pop
  <2> QED BY <1>1, <1>2, <1>3, <2>1, DestroyStep DEF Inv
<1>9. ASSUME NEW i \in Iters, list_remove(i)
      PROVE  Inv'
  <2>1. i \in iters /\ pc = "idle"
    BY <1>9 DEF list_remove
  <2>2. PICK k \in 0..Len(s) : prev[i] = CellAt(s, k)
    BY <1>4, <2>1
  <2>3. CASE next[prev[i]] # pos[i]
    <3>1. list_node_destroy(CellAt(s, k))
      BY <1>9, <2>2, <2>3 DEF list_remove
    <3> QED BY <1>1, <1>2, <2>1, <3>1, DestroyStep DEF Inv
  <2>4. CASE next[prev[i]] = pos[i]
    <3>1. ret' = Null /\ UNCHANGED <<next, tail, count, cursors, loop, history>>
      BY <1>9, <2>4 DEF list_remove
    <3> QED BY <1>1, <1>2, <3>1, SameStep DEF Inv
  <2> QED BY <2>3, <2>4
<1>10. CASE list_destroy
  BY <1>2, <1>10, ClearStep DEF Inv
<1>11. ASSUME NEW i \in Iters,
              list_iterator_create(i) \/ list_iterator_reset(i) \/ list_iterator_destroy(i)
       PROVE  Inv'
  BY <1>1, <1>2, <1>11, IteratorSteps DEF Inv
<1>12. ASSUME NEW i \in Iters, list_next(i) \/ \E k : list_find(i, k)
       PROVE  Inv'
  <2>1. /\ pc = "idle" /\ i \in iters
        /\ \E n \in 1..Len(s) + 1 : Advance(i, n)
    <3>1. 1 \in 1..Len(s) + 1
      BY <1>2
    <3> QED BY <1>2, <1>12, <3>1 DEF list_next, list_find
  <2> QED BY <1>1, <1>2, <2>1, AdvanceStep DEF Inv
<1>13. CASE (\E k : list_delete_all(k)) \/ list_sort
  BY <1>1, <1>2, <1>13, EnterSteps DEF Inv
<1>14. CASE LoopStep
  BY <1>1, <1>2, <1>14, DeleteSteps, SortSteps, SortDoneStep DEF LoopStep, Inv
<1>15. CASE list_sort_short
  <2>1. ret' = Null /\ UNCHANGED <<next, tail, count, cursors, loop, history>>
    BY <1>15 DEF list_sort_short
  <2> QED BY <1>1, <1>2, <2>1, SameStep DEF Inv
<1> QED BY <1>5, <1>6, <1>7, <1>8, <1>9, <1>10, <1>11, <1>12, <1>13, <1>14, <1>15 DEF Next

LEMMA InvHolds == Spec => []Inv
<1>1. Init => Inv
  BY InitHolds
<1>2. Inv /\ [Next]_vars => Inv'
  BY NextHolds
<1> QED BY <1>1, <1>2, PTL DEF Spec

(***************************************************************************)
(* Whatever is inserted, removed, popped, deleted or sorted, the tail is   *)
(* the last cell, the count the number of nodes, no node is on the list    *)
(* twice, and every iterator is as list_node_create and list_node_destroy  *)
(* assert.                                                                 *)
(***************************************************************************)
THEOREM ListIsWellFormed == Spec => []WellFormed
<1>1. Inv => WellFormed
  <2> SUFFICES ASSUME Inv, pc # "sort"
               PROVE  /\ next[tail] = Null /\ tail \in InList \cup {HeadCell}
                      /\ count = Len(Chain) /\ IsInjective(Chain)
                      /\ IteratorsValid
    BY DEF WellFormed
  <2>1. PICK s : Holds(s)
    BY DEF Inv
  <2>2. /\ Linked(next, s) /\ Len(s) \in Nat /\ Chain = s /\ IsInjective(s)
        /\ tail = CellAt(s, Len(s)) /\ count = Len(s)
        /\ \A i \in iters : Stands(s, i)
        /\ \A k \in 0..Len(s) : next[CellAt(s, k)] = Succ(s, k)
        /\ InList = {s[n] : n \in 1..Len(s)}
        /\ \A k \in 1..Len(s) : s[k] \in Nodes /\ s[k] # Null
    BY <2>1, ChainLemma, CellLemma, NodesAssumption
       DEF Holds, Linked, InList, ToSet, Cells
  <2>3. \A k \in 0..Len(s) : /\ CellAt(s, k) \in InList \cup {HeadCell}
                             /\ Succ(s, k) \in InList \cup {Null}
    <3>1. \A k \in 0..Len(s) : /\ k # 0 => k \in 1..Len(s)
                               /\ k < Len(s) => k + 1 \in 1..Len(s)
      BY <2>2
    <3> QED BY <2>2, <3>1 DEF CellAt, Succ
  <2>4. next[tail] = Null
    <3>1. Len(s) \in 0..Len(s) /\ Succ(s, Len(s)) = Null
      BY <2>2 DEF Succ
    <3> QED BY <2>2, <3>1
  <2>5. ASSUME NEW i \in iters
        PROVE  /\ prev[i] \in InList \cup {HeadCell}
               /\ pos[i] \in InList \cup {Null}
               /\ \/ pos[i] = next[prev[i]]
                  \/ next[prev[i]] # Null /\ pos[i] = next[next[prev[i]]]
    <3>1. PICK k, a : Cursor(s, prev[i], pos[i], k, a)
      BY <2>2 DEF Stands
    <3>2. /\ k \in 0..Len(s) /\ a \in 0..Len(s) /\ (a = k \/ a = k + 1)
          /\ prev[i] = CellAt(s, k) /\ pos[i] = Succ(s, a)
      BY <3>1 DEF Cursor
    <3>3. a = k => pos[i] = next[prev[i]]
      BY <2>2, <3>2
    <3>4. a = k + 1 => next[prev[i]] # Null /\ pos[i] = next[next[prev[i]]]
      <4> SUFFICES ASSUME a = k + 1
                   PROVE  next[prev[i]] # Null /\ pos[i] = next[next[prev[i]]]
        OBVIOUS
      <4>1. k < Len(s) /\ k + 1 \in 1..Len(s) /\ k + 1 # 0
        BY <2>2, <3>2
      <4>2. next[prev[i]] = s[k + 1] /\ CellAt(s, a) = s[k + 1]
        BY <2>2, <3>2, <4>1 DEF Succ, CellAt
      <4> QED BY <2>2, <3>2, <4>1, <4>2
    <3> QED BY <2>3, <3>2, <3>3, <3>4
  <2>6. tail \in InList \cup {HeadCell}
    <3>1. Len(s) \in 0..Len(s)
      BY <2>2
    <3> QED BY <2>2, <2>3, <3>1
  <2> QED BY <2>2, <2>4, <2>5, <2>6 DEF IteratorsValid
<1> QED BY <1>1, InvHolds, PTL

(***************************************************************************)
(* list_remove takes out the item the iterator returned last, or nothing,  *)
(* for any number of iterators and whatever the others did in between.     *)
(***************************************************************************)
THEOREM RemovesLastReturned == Spec => RemovesNoOther
<1>1. ASSUME Inv, NEW i \in Watched, list_remove(i)
      PROVE  ret' \in {last[i], Null}
  <2>1. i \in iters /\ pc = "idle"
    BY <1>1 DEF list_remove
  <2>2. PICK s : Linked(next, s) /\ Stands(s, i)
    BY <1>1, <2>1 DEF Inv, Holds
  <2>3. PICK k, a : Cursor(s, prev[i], pos[i], k, a) /\ Told(s, i, k, a)
    BY <2>2 DEF Stands
  <2>4. /\ Len(s) \in Nat /\ k \in 0..Len(s) /\ a \in 0..Len(s) /\ (a = k \/ a = k + 1)
        /\ next[prev[i]] = Succ(s, k) /\ pos[i] = Succ(s, a)
        /\ a = k + 1 => last[i] = s[a]
    BY <2>2, <2>3, CellLemma DEF Cursor, Told, Linked
  <2>5. CASE next[prev[i]] # pos[i]
    <3>1. a = k + 1 /\ k < Len(s)
      BY <2>4, <2>5
    <3>2. next[prev[i]] = last[i]
      BY <2>4, <3>1 DEF Succ
    <3>3. ret' \in {next[prev[i]], Null}
      BY <1>1, <2>5 DEF list_remove, list_node_destroy
    <3> QED BY <3>2, <3>3
  <2>6. CASE next[prev[i]] = pos[i]
    BY <1>1, <2>6 DEF list_remove
  <2> QED BY <2>5, <2>6
<1>2. Inv /\ [Next]_vars =>
        [\A i \in Watched : list_remove(i) => ret' \in {last[i], Null}]_vars
  BY <1>1
<1> QED BY <1>2, InvHolds, PTL DEF Spec, RemovesNoOther

(***************************************************************************)
(* list_next and list_find return no item a second time in a traversal,    *)
(* and when they come to the end have returned every item that was on the  *)
(* list all the time.                                                      *)
(***************************************************************************)
THEOREM TraversalsAreComplete == Spec => Traverses
<1>1. ASSUME Inv, NEW i \in Watched,
             list_next(i) \/ (\E k \in {Key[x] : x \in Nodes} : list_find(i, k))
      PROVE  /\ ret' \notin seen[i]
             /\ ret' = Null => owed[i] \subseteq seen'[i]
  <2>1. PICK s : Typed /\ Holds(s)
    BY <1>1 DEF Inv
  <2>2. Chain = s /\ 1 \in 1..Len(s) + 1
    BY <2>1, ChainLemma, CellLemma DEF Holds
  <2>3. pc = "idle" /\ i \in iters /\ \E n \in 1..Len(s) + 1 : Advance(i, n)
    BY <1>1, <2>2 DEF list_next, list_find
  <2> QED BY <2>1, <2>3, AdvanceStep
<1>2. Inv /\ [Next]_vars =>
        [\A i \in Watched :
           list_next(i) \/ (\E k \in {Key[x] : x \in Nodes} : list_find(i, k)) =>
           /\ ret' \notin seen[i]
           /\ ret' = Null => owed[i] \subseteq seen'[i]]_vars
  BY <1>1
<1> QED BY <1>2, InvHolds, PTL DEF Spec, Traverses
-----------------------------------------------------------------------------

(***************************************************************************)
(* list.c implements ListAbs.  Outside the two loops the sequence and the  *)
(* cursors are those the pointers hold, and each call is the step of its   *)
(* name; while list_delete_all or list_sort is under way they are those of *)
(* its start, its steps change nothing seen, and the last one takes        *)
(* ListAbs's step at once.  That needs an invariant of each loop.          *)
(***************************************************************************)

(* The sequences of ListAbs are those of the lemmas. *)
LEMMA AbsInsert ==
  ASSUME NEW s \in Seq(Nodes), NEW j \in 0..Len(s), NEW x \in Nodes
  PROVE  Abs!InsertAt(s, j + 1, x) = Ins(s, j, x)
<1> DEFINE l == Len(s)
           u == SubSeq(s, 1, j)
           v == SubSeq(s, j + 1, l)
           t == (u \o <<x>>) \o v
<1>1. l \in Nat /\ j \in Nat /\ j <= l /\ (j + 1) - 1 = j /\ l - j \in Nat
  OBVIOUS
<1>2. u \in Seq(Nodes) /\ Len(u) = j /\ \A n \in 1..j : u[n] = s[n]
  BY <1>1
<1>3. v \in Seq(Nodes) /\ Len(v) = l - j /\ \A n \in 1..l - j : v[n] = s[n + j]
  BY <1>1
<1> HIDE DEF u, v
<1>4. /\ u \o <<x>> \in Seq(Nodes) /\ Len(u \o <<x>>) = j + 1
      /\ \A n \in 1..j : (u \o <<x>>)[n] = s[n]
      /\ (u \o <<x>>)[j + 1] = x
  BY <1>1, <1>2
<1>5. /\ t \in Seq(Nodes) /\ Len(t) = l + 1
      /\ \A n \in 1..j + 1 : t[n] = (u \o <<x>>)[n]
      /\ \A n \in j + 2..l + 1 : t[n] = v[n - (j + 1)]
  BY <1>1, <1>3, <1>4
<1> HIDE DEF t
<1>6. \A n \in 1..l + 1 : t[n] = IF n <= j THEN s[n] ELSE IF n = j + 1 THEN x ELSE s[n - 1]
  <2> TAKE n \in 1..l + 1
  <2>1. CASE n <= j
    <3>1. n \in 1..j /\ n \in 1..j + 1
      BY <1>1, <2>1
    <3> QED BY <1>4, <1>5, <2>1, <3>1
  <2>2. CASE n = j + 1
    <3>1. n \in 1..j + 1 /\ ~(n <= j)
      BY <1>1, <2>2
    <3> QED BY <1>4, <1>5, <2>2, <3>1
  <2>3. CASE n > j + 1
    <3>1. n \in j + 2..l + 1 /\ n - (j + 1) \in 1..l - j /\ (n - (j + 1)) + j = n - 1
          /\ ~(n <= j) /\ n # j + 1
      BY <1>1, <2>3
    <3>2. t[n] = s[n - 1]
      BY <1>3, <1>5, <3>1
    <3> QED BY <3>1, <3>2
  <2> QED BY <1>1, <2>1, <2>2, <2>3
<1>7. t = [n \in 1..l + 1 |-> t[n]]
  BY <1>5
<1>8. t = Ins(s, j, x)
  BY <1>6, <1>7 DEF Ins
<1>9. Abs!InsertAt(s, j + 1, x) = t
  BY <1>1 DEF Abs!InsertAt, t, u, v
<1> QED BY <1>8, <1>9

LEMMA AbsRemove ==
  ASSUME NEW s \in Seq(Nodes), NEW m \in 0..Len(s) - 1
  PROVE  Abs!RemoveAt(s, m + 1) = Del(s, m)
<1> DEFINE l == Len(s)
           u == SubSeq(s, 1, m)
           v == SubSeq(s, m + 2, l)
           t == u \o v
<1>1. /\ l \in Nat /\ m \in Nat /\ m + 1 <= l /\ (m + 1) - 1 = m /\ (m + 1) + 1 = m + 2
      /\ l - 1 - m \in Nat
  OBVIOUS
<1>2. u \in Seq(Nodes) /\ Len(u) = m /\ \A n \in 1..m : u[n] = s[n]
  BY <1>1
<1>3. v \in Seq(Nodes) /\ Len(v) = l - 1 - m /\ \A n \in 1..l - 1 - m : v[n] = s[n + m + 1]
  BY <1>1
<1> HIDE DEF u, v
<1>4. /\ t \in Seq(Nodes) /\ Len(t) = l - 1
      /\ \A n \in 1..m : t[n] = u[n]
      /\ \A n \in m + 1..l - 1 : t[n] = v[n - m]
  <2>1. m + (l - 1 - m) = l - 1
    BY <1>1
  <2> HIDE DEF l
  <2> QED BY <1>1, <1>2, <1>3, <2>1
<1> HIDE DEF t
<1>5. \A n \in 1..l - 1 : t[n] = IF n <= m THEN s[n] ELSE s[n + 1]
  <2> TAKE n \in 1..l - 1
  <2>1. CASE n <= m
    <3>1. n \in 1..m
      BY <1>1, <2>1
    <3> QED BY <1>2, <1>4, <2>1, <3>1
  <2>2. CASE n > m
    <3>1. n \in m + 1..l - 1 /\ n - m \in 1..l - 1 - m /\ (n - m) + m + 1 = n + 1 /\ ~(n <= m)
      BY <1>1, <2>2
    <3>2. t[n] = s[n + 1]
      BY <1>3, <1>4, <3>1
    <3> QED BY <3>1, <3>2
  <2> QED BY <1>1, <2>1, <2>2
<1>6. t = [n \in 1..l - 1 |-> t[n]]
  BY <1>4
<1>7. t = Del(s, m)
  BY <1>5, <1>6 DEF Del
<1>8. Abs!RemoveAt(s, m + 1) = t
  BY <1>1 DEF Abs!RemoveAt, t, u, v
<1> QED BY <1>7, <1>8

(* While a loop is under way the list is the one it was entered with. *)
LEMMA ViewLemma ==
  /\ pc = "idle" => /\ AbsItems = Chain
                    /\ AbsAt = [i \in Iters |-> At(i)]
                    /\ AbsHas = [i \in Iters |-> Has(i)]
  /\ pc # "idle" => AbsItems = before.items /\ AbsAt = before.at /\ AbsHas = before.has
BY DEF AbsItems, AbsAt, AbsHas

LEMMA ViewNext ==
  (/\ pc = "idle" => /\ AbsItems = Chain
                     /\ AbsAt = [i \in Iters |-> At(i)]
                     /\ AbsHas = [i \in Iters |-> Has(i)]
   /\ pc # "idle" => AbsItems = before.items /\ AbsAt = before.at /\ AbsHas = before.has)'
BY ViewLemma, PTL

LEMMA ChainNext == (\A s : Linked(next, s) => Chain = s)'
<1>1. \A s : Linked(next, s) => Chain = s
  BY ChainLemma
<1> QED BY <1>1, PTL

LEMMA AbsentNext == (\A i : i \notin iters => At(i) = 0 /\ Has(i) = FALSE)'
BY AbsentLemma, PTL

(* Where an iterator stands is a number, and what it has a truth value. *)
LEMMA PlacesTyped ==
  ASSUME Typed, NEW s, Holds(s), pc # "sort"
  PROVE  /\ Chain = s /\ Len(s) \in Nat /\ s \in Seq(Nodes)
         /\ \A i \in Iters : Has(i) \in BOOLEAN /\ At(i) \in 0..Len(s) + 1
         /\ \A i \in Iters : At(i) > 0 <=> i \in iters
         /\ \A i \in Iters : Has(i) => At(i) > 1
<1>1. /\ Linked(next, s) /\ Chain = s /\ Len(s) \in Nat /\ s \in Seq(Nodes)
      /\ \A i \in iters : Stands(s, i)
  BY ChainLemma, CellLemma DEF Holds, Linked
<1>2. ASSUME NEW i \in iters
      PROVE  At(i) \in 1..Len(s) + 1 /\ (Has(i) => At(i) > 1)
  <2>1. PICK k, a : Cursor(s, prev[i], pos[i], k, a)
    BY <1>1 DEF Stands
  <2>2. Linked(next, s)
    BY <1>1
  <2>3. At(i) = a + 1 /\ Has(i) = (a = k + 1)
    BY <2>1, <2>2, PlaceLemma
  <2>4. a \in 0..Len(s) /\ k \in 0..Len(s)
    BY <2>1 DEF Cursor
  <2>5. a + 1 \in 1..Len(s) + 1 /\ (a = k + 1 => a + 1 > 1)
    BY <1>1, <2>4
  <2> QED BY <2>3, <2>5
<1>3. \A i : i \notin iters => At(i) = 0 /\ ~Has(i)
  BY AbsentLemma
<1>4. \A i : Has(i) \in BOOLEAN
  BY DEF Has
<1>5. ASSUME NEW i \in Iters
      PROVE  /\ At(i) \in 0..Len(s) + 1
             /\ At(i) > 0 <=> i \in iters
             /\ Has(i) => At(i) > 1
  <2>1. CASE i \in iters
    <3>1. At(i) \in 1..Len(s) + 1
      BY <1>2, <2>1
    <3>2. At(i) \in 0..Len(s) + 1 /\ At(i) > 0
      BY <1>1, <3>1
    <3> QED BY <1>2, <2>1, <3>2
  <2>2. CASE i \notin iters
    <3>1. At(i) = 0 /\ ~Has(i)
      BY <1>3, <2>2
    <3> QED BY <1>1, <2>2, <3>1
  <2> QED BY <2>1, <2>2
<1> QED BY <1>1, <1>4, <1>5

(***************************************************************************)
(* list_node_create inserts and list_node_destroy deletes.                 *)
(***************************************************************************)
LEMMA CreateAbs ==
  ASSUME Typed, NEW s, Holds(s), pc = "idle", NEW j \in 0..Len(s),
         NEW x \in Nodes, list_node_create(CellAt(s, j), x)
  PROVE  Abs!Insert(j + 1, x)
<1>1. /\ Chain = s /\ Len(s) \in Nat /\ s \in Seq(Nodes)
      /\ \A i \in Iters : Has(i) \in BOOLEAN /\ At(i) \in 0..Len(s) + 1
      /\ \A i \in Iters : At(i) > 0 <=> i \in iters
  BY PlacesTyped
<1>2. /\ x \notin InList /\ iters' = iters /\ pc' = "idle" /\ ret' = x
  BY DEF list_node_create, loop
<1>3. /\ Holds(Ins(s, j, x))'
      /\ \A i \in iters :
           /\ At(i)' = IF At(i) > j + 1 \/ (At(i) = j + 1 /\ ~Has(i)) THEN At(i) + 1 ELSE At(i)
           /\ Has(i)' = Has(i)
  BY CreateStep
<1>4. Chain' = Ins(s, j, x)
  <2>1. Linked(next', Ins(s, j, x))
    BY <1>3 DEF Holds
  <2> QED BY <2>1, ChainNext
<1>5. AbsItems = s /\ AbsAt = [i \in Iters |-> At(i)] /\ AbsHas = [i \in Iters |-> Has(i)]
  BY <1>1, ViewLemma
<1>6. /\ AbsItems' = Ins(s, j, x) /\ AbsAt' = [i \in Iters |-> At(i)']
      /\ AbsHas' = [i \in Iters |-> Has(i)']
  BY <1>2, <1>4, ViewNext
<1>7. \A i \in Iters :
        /\ At(i)' = IF At(i) > j + 1 \/ (At(i) = j + 1 /\ ~Has(i)) THEN At(i) + 1 ELSE At(i)
        /\ Has(i)' = Has(i)
  <2> TAKE i \in Iters
  <2>1. CASE i \in iters
    BY <1>3, <2>1
  <2>2. CASE i \notin iters
    <3>1. At(i) = 0 /\ Has(i) = FALSE /\ At(i)' = 0 /\ Has(i)' = FALSE
      BY <1>2, <2>2, AbsentLemma, AbsentNext
    <3>2. ~(At(i) > j + 1 \/ (At(i) = j + 1 /\ ~Has(i)))
      BY <1>1, <3>1
    <3> QED BY <3>1, <3>2
  <2> QED BY <2>1, <2>2
<1>8. x \notin Abs!ToSet(s)
  BY <1>1, <1>2 DEF InList, ToSet, Abs!ToSet
<1>9. AbsItems' = Abs!InsertAt(AbsItems, j + 1, x)
  BY <1>1, <1>5, <1>6, AbsInsert
<1>10. AbsAt' = [i \in Iters |-> IF AbsAt[i] > j + 1 \/ (AbsAt[i] = j + 1 /\ ~AbsHas[i])
                                 THEN AbsAt[i] + 1 ELSE AbsAt[i]]
  BY <1>5, <1>6, <1>7
<1>11. AbsHas' = AbsHas
  BY <1>5, <1>6, <1>7
<1> QED BY <1>2, <1>5, <1>8, <1>9, <1>10, <1>11 DEF Abs!Insert

LEMMA DestroyAbs ==
  ASSUME Typed, NEW s, Holds(s), pc = "idle", NEW m \in 0..Len(s),
         list_node_destroy(CellAt(s, m))
  PROVE  IF m < Len(s) THEN Abs!Delete(m + 1) ELSE Abs!Nothing
<1>1. /\ Chain = s /\ Len(s) \in Nat /\ s \in Seq(Nodes)
      /\ \A i \in Iters : Has(i) \in BOOLEAN /\ At(i) \in 0..Len(s) + 1
      /\ next[CellAt(s, m)] = Succ(s, m) /\ Succ(s, m) \in Nodes \cup {Null}
  BY PlacesTyped, CellLemma DEF Holds, Linked
<1>2. AbsItems = s /\ AbsAt = [i \in Iters |-> At(i)] /\ AbsHas = [i \in Iters |-> Has(i)]
  BY <1>1, ViewLemma
<1>3. CASE m < Len(s)
  <2>1. m \in 0..Len(s) - 1 /\ m + 1 \in 1..Len(s) /\ Succ(s, m) = s[m + 1]
    BY <1>1, <1>3 DEF Succ
  <2>2. Succ(s, m) # Null
    BY <2>1, CellLemma, NodesAssumption DEF Holds, Cells
  <2>3. /\ Unlink(CellAt(s, m)) /\ UNCHANGED <<iters, loop>> /\ ret' = s[m + 1]
        /\ pc' = "idle" /\ iters' = iters
    BY <1>1, <2>1, <2>2 DEF list_node_destroy, loop
  <2>4. /\ Holds(Del(s, m))'
        /\ \A i \in iters :
             /\ At(i)' = IF At(i) > m + 1 THEN At(i) - 1 ELSE At(i)
             /\ Has(i)' = (Has(i) /\ At(i) # m + 1 /\ At(i) # m + 2)
    BY <1>1, <2>1, <2>2, <2>3, UnlinkStep
  <2>5. Chain' = Del(s, m)
    <3>1. Linked(next', Del(s, m))
      BY <2>4 DEF Holds
    <3> QED BY <3>1, ChainNext
  <2>6. /\ AbsItems' = Del(s, m) /\ AbsAt' = [i \in Iters |-> At(i)']
        /\ AbsHas' = [i \in Iters |-> Has(i)']
    BY <2>3, <2>5, ViewNext
  <2>7. \A i \in Iters :
          /\ At(i)' = IF At(i) > m + 1 THEN At(i) - 1 ELSE At(i)
          /\ Has(i)' = (Has(i) /\ At(i) \notin {m + 1, (m + 1) + 1})
    <3> TAKE i \in Iters
    <3>1. CASE i \in iters
      <4>1. (m + 1) + 1 = m + 2
        BY <2>1
      <4> QED BY <2>4, <3>1, <4>1
    <3>2. CASE i \notin iters
      <4>1. At(i) = 0 /\ Has(i) = FALSE /\ At(i)' = 0 /\ Has(i)' = FALSE
        BY <2>3, <3>2, AbsentLemma, AbsentNext
      <4>2. ~(At(i) > m + 1)
        BY <2>1, <4>1
      <4> QED BY <4>1, <4>2
    <3> QED BY <3>1, <3>2
  <2>8. AbsItems' = Abs!RemoveAt(AbsItems, m + 1)
    BY <1>1, <1>2, <2>1, <2>6, AbsRemove
  <2>9. /\ AbsAt' = [i \in Iters |-> IF AbsAt[i] > m + 1 THEN AbsAt[i] - 1 ELSE AbsAt[i]]
        /\ AbsHas' = [i \in Iters |-> AbsHas[i] /\ AbsAt[i] \notin {m + 1, (m + 1) + 1}]
    BY <1>2, <2>6, <2>7
  <2> QED BY <1>2, <1>3, <2>3, <2>8, <2>9 DEF Abs!Delete
<1>4. CASE ~(m < Len(s))
  <2>1. /\ ret' = Null /\ UNCHANGED <<next, iters, pos, prev, pc>>
    BY <1>1, <1>4 DEF list_node_destroy, Succ, cursors, loop
  <2>2. Chain' = Chain /\ \A i \in Iters : At(i)' = At(i) /\ Has(i)' = Has(i)
    <3>1. Chain' = Chain
      BY <2>1 DEF Chain, Walk
    <3> QED BY <2>1, <3>1, FrameLemma
  <2>3. AbsItems' = AbsItems /\ AbsAt' = AbsAt /\ AbsHas' = AbsHas
    BY <1>1, <1>2, <2>1, <2>2, ViewNext
  <2> QED BY <1>4, <2>1, <2>3 DEF Abs!Nothing
<1> QED BY <1>3, <1>4

(***************************************************************************)
(* The calls that move one iterator.                                       *)
(***************************************************************************)
LEMMA IteratorAbs ==
  ASSUME Typed, NEW s, Holds(s), NEW i \in Iters
  PROVE  /\ list_iterator_create(i) => Abs!list_iterator_create(i)
         /\ list_iterator_reset(i) => Abs!list_iterator_reset(i)
         /\ list_iterator_destroy(i) => Abs!list_iterator_destroy(i)
<1> SUFFICES ASSUME \/ list_iterator_create(i) \/ list_iterator_reset(i)
                    \/ list_iterator_destroy(i)
             PROVE  /\ list_iterator_create(i) => Abs!list_iterator_create(i)
                    /\ list_iterator_reset(i) => Abs!list_iterator_reset(i)
                    /\ list_iterator_destroy(i) => Abs!list_iterator_destroy(i)
  OBVIOUS
<1>1. /\ pc = "idle" /\ pc' = "idle" /\ next' = next /\ ret' = Null
      /\ list_iterator_create(i) => i \notin iters /\ iters' = iters \cup {i}
      /\ list_iterator_reset(i) => i \in iters /\ iters' = iters
      /\ list_iterator_destroy(i) => i \in iters /\ iters' = iters \ {i}
  BY DEF list_iterator_create, list_iterator_reset, list_iterator_destroy, loop
<1>2. /\ Chain = s /\ Linked(next, s)
      /\ \A j \in Iters : At(j) > 0 <=> j \in iters
  BY <1>1, PlacesTyped DEF Holds
<1>3. Chain' = Chain
  BY <1>1, <1>2, ChainNext
<1>4. /\ AbsItems = s /\ AbsAt = [j \in Iters |-> At(j)] /\ AbsHas = [j \in Iters |-> Has(j)]
      /\ AbsItems' = s /\ AbsAt' = [j \in Iters |-> At(j)']
      /\ AbsHas' = [j \in Iters |-> Has(j)']
  BY <1>1, <1>2, <1>3, ViewLemma, ViewNext
<1>5. ASSUME \A j \in Iters \ {i} : prev'[j] = prev[j] /\ pos'[j] = pos[j]
      PROVE  \A j \in Iters \ {i} : At(j)' = At(j) /\ Has(j)' = Has(j)
  <2> TAKE j \in Iters \ {i}
  <2>1. (j \in iters' <=> j \in iters) /\ prev'[j] = prev[j] /\ pos'[j] = pos[j]
    BY <1>1, <1>5
  <2> QED BY <1>1, <2>1, FrameLemma
<1>6. CASE list_iterator_create(i) \/ list_iterator_reset(i)
  <2>1. StartOver({i}) /\ i \in iters'
    BY <1>1, <1>6 DEF list_iterator_create, list_iterator_reset
  <2>2. /\ Cursor(s, prev'[i], pos'[i], 0, 0)
        /\ \A j \in Iters \ {i} : prev'[j] = prev[j] /\ pos'[j] = pos[j]
    BY <1>1, <1>2, <2>1, StartOverStep
  <2>3. At(i)' = 1 /\ Has(i)' = FALSE
    <3>1. Linked(next', s)
      BY <1>1, <1>2
    <3>2. At(i)' = 0 + 1 /\ Has(i)' = (0 = 0 + 1)
      BY <2>1, <2>2, <3>1, PlacedNext
    <3>3. 0 + 1 = 1 /\ (0 = 0 + 1) = FALSE
      OBVIOUS
    <3> QED BY <3>2, <3>3, Zenon
  <2>4. AbsAt' = [AbsAt EXCEPT ![i] = 1] /\ AbsHas' = [AbsHas EXCEPT ![i] = FALSE]
    BY <1>4, <1>5, <2>2, <2>3
  <2>5. AbsAt[i] > 0 <=> i \in iters
    BY <1>2, <1>4
  <2>6. AbsItems' = AbsItems
    BY <1>4
  <2>7. list_iterator_create(i) => Abs!list_iterator_create(i)
    BY <1>1, <2>4, <2>5, <2>6 DEF Abs!list_iterator_create, Abs!Exists
  <2>8. list_iterator_reset(i) => Abs!list_iterator_reset(i)
    BY <1>1, <2>4, <2>5, <2>6 DEF Abs!list_iterator_reset, Abs!Exists
  <2>9. ~list_iterator_destroy(i)
    BY <1>6 DEF list_iterator_create, list_iterator_reset, list_iterator_destroy
  <2> QED BY <2>7, <2>8, <2>9
<1>7. CASE list_iterator_destroy(i)
  <2>1. At(i)' = 0 /\ Has(i)' = FALSE
    BY <1>1, <1>7, AbsentNext
  <2>2. \A j \in Iters \ {i} : prev'[j] = prev[j] /\ pos'[j] = pos[j]
    BY <1>7 DEF list_iterator_destroy, Typed, TypeOK
  <2>3. AbsAt' = [AbsAt EXCEPT ![i] = 0] /\ AbsHas' = [AbsHas EXCEPT ![i] = FALSE]
    BY <1>4, <1>5, <2>1, <2>2
  <2>4. AbsAt[i] > 0
    BY <1>1, <1>2, <1>4, <1>7
  <2> QED BY <1>1, <1>4, <1>7, <2>3, <2>4 DEF Abs!list_iterator_destroy, Abs!Exists
<1> QED BY <1>6, <1>7

(* Iterator i has been before item a + 1, and has gone on n times. *)
Moved(s, i, n, a) ==
  LET b == After(a, n, Len(s))
      d == After(b, 2, Len(s))
  IN  /\ AbsAt[i] = a + 1 /\ ret' = Succ(s, b)
      /\ AbsAt' = [AbsAt EXCEPT ![i] = d + 1]
      /\ AbsHas' = [AbsHas EXCEPT ![i] = (d = b + 1)]
      /\ \A m \in 1..Len(s) + 1 : Steps(i)[m].ret = Succ(s, After(a, m, Len(s)))

LEMMA AdvanceAbs ==
  ASSUME Typed, NEW s, Holds(s), NEW i \in Iters, pc = "idle", i \in iters,
         NEW n \in 1..Len(s) + 1, Advance(i, n)
  PROVE  /\ AbsItems = s /\ AbsItems' = AbsItems /\ AbsAt[i] > 0
         /\ \E a \in 0..Len(s) : Moved(s, i, n, a)
<1>1. /\ pc' = "idle" /\ next' = next
  BY DEF Advance, loop
<1>2. /\ Chain = s /\ Linked(next, s) /\ Stands(s, i)
      /\ At(i) > 0 /\ Len(s) \in Nat
  BY PlacesTyped DEF Holds
<1>3. Chain' = Chain
  BY <1>1, <1>2, ChainNext
<1>4. /\ AbsItems = s /\ AbsAt = [j \in Iters |-> At(j)] /\ AbsHas = [j \in Iters |-> Has(j)]
      /\ AbsItems' = s /\ AbsAt' = [j \in Iters |-> At(j)']
      /\ AbsHas' = [j \in Iters |-> Has(j)']
  BY <1>1, <1>2, <1>3, ViewLemma, ViewNext
<1>5. PICK a \in 0..Len(s) :
        LET b == After(a, n, Len(s))
            d == After(b, 2, Len(s))
        IN  /\ At(i) = a + 1 /\ ret' = Succ(s, b)
            /\ At(i)' = d + 1 /\ Has(i)' = (d = b + 1)
  BY AdvanceStep
<1>6. \A j \in Iters \ {i} : At(j)' = At(j) /\ Has(j)' = Has(j)
  BY AdvanceStep
<1> DEFINE b == After(a, n, Len(s))
           d == After(b, 2, Len(s))
<1>7. At(i) = a + 1 /\ ret' = Succ(s, b) /\ At(i)' = d + 1 /\ Has(i)' = (d = b + 1)
  BY <1>5
<1>8. \A m \in 1..Len(s) + 1 : Steps(i)[m].ret = Succ(s, After(a, m, Len(s)))
  <2>1. PICK k, c : Cursor(s, prev[i], pos[i], k, c)
    BY <1>2 DEF Stands
  <2>2. c = a
    <3>1. At(i) = c + 1
      BY <1>2, <2>1, PlaceLemma
    <3>2. c \in 0..Len(s)
      BY <2>1 DEF Cursor
    <3> QED BY <1>2, <1>7, <3>1, <3>2
  <2> DEFINE R(m) == [pos |-> Succ(s, After(After(c, m, Len(s)), 2, Len(s))),
                      prev |-> CellAt(s, After(c, m, Len(s))),
                      ret |-> Succ(s, After(c, m, Len(s)))]
  <2>3. \A m \in 1..Len(s) + 1 : Steps(i)[m] = R(m)
    BY <1>2, <2>1, StepsLemma
  <2>4. \A m : R(m).ret = Succ(s, After(c, m, Len(s)))
    OBVIOUS
  <2> HIDE DEF R
  <2> QED BY <2>2, <2>3, <2>4
<1> HIDE DEF b, d
<1>9. AbsAt' = [AbsAt EXCEPT ![i] = d + 1] /\ AbsHas' = [AbsHas EXCEPT ![i] = (d = b + 1)]
  BY <1>4, <1>6, <1>7
<1>10. AbsAt[i] = a + 1 /\ AbsAt[i] > 0
  BY <1>2, <1>4, <1>7
<1>11. Moved(s, i, n, a)
  BY <1>7, <1>8, <1>9, <1>10 DEF Moved, b, d
<1> QED BY <1>4, <1>10, <1>11

LEMMA NextAbs ==
  ASSUME Typed, NEW s, Holds(s), NEW i \in Iters, list_next(i)
  PROVE  Abs!list_next(i)
<1>1. pc = "idle" /\ i \in iters /\ Advance(i, 1)
  BY DEF list_next
<1>2. Len(s) \in Nat /\ 1 \in 1..Len(s) + 1
  BY CellLemma DEF Holds
<1> PICK a \in 0..Len(s) : Moved(s, i, 1, a)
  BY <1>1, <1>2, AdvanceAbs
<1>3. LET b == After(a, 1, Len(s))
          d == After(b, 2, Len(s))
      IN  /\ AbsAt[i] = a + 1 /\ ret' = Succ(s, b)
          /\ AbsAt' = [AbsAt EXCEPT ![i] = d + 1]
          /\ AbsHas' = [AbsHas EXCEPT ![i] = (d = b + 1)]
  BY DEF Moved
<1>4. AbsItems = s /\ AbsItems' = AbsItems /\ AbsAt[i] > 0
  BY <1>1, <1>2, AdvanceAbs
<1>5. After(a, 1, Len(s)) = a /\ After(a, 2, Len(s)) = IF a + 1 <= Len(s) THEN a + 1 ELSE a
  BY <1>2 DEF After
<1>6. /\ ret' = IF AbsAt[i] <= Len(s) THEN s[AbsAt[i]] ELSE Null
      /\ AbsAt' = [AbsAt EXCEPT ![i] = IF AbsAt[i] <= Len(s) THEN AbsAt[i] + 1 ELSE AbsAt[i]]
      /\ AbsHas' = [AbsHas EXCEPT ![i] = (AbsAt[i] <= Len(s))]
  <2>1. ret' = IF a + 1 <= Len(s) THEN s[a + 1] ELSE Null
    <3>1. a < Len(s) <=> a + 1 <= Len(s)
      BY <1>2
    <3> QED BY <1>3, <1>5, <3>1 DEF Succ
  <2>2. CASE a + 1 <= Len(s)
    <3>1. (IF a + 1 <= Len(s) THEN a + 1 ELSE a) = a + 1
      BY <2>2
    <3> QED BY <1>3, <1>5, <2>1, <2>2, <3>1
  <2>3. CASE ~(a + 1 <= Len(s))
    <3>1. (IF a + 1 <= Len(s) THEN a + 1 ELSE a) = a /\ (a = a + 1) = FALSE
      BY <1>2, <2>3
    <3>2. /\ ~(AbsAt[i] <= Len(s)) /\ ret' = Null
          /\ AbsAt' = [AbsAt EXCEPT ![i] = AbsAt[i]]
          /\ AbsHas' = [AbsHas EXCEPT ![i] = FALSE]
      BY <1>3, <1>5, <2>1, <2>3, <3>1
    <3>3. (AbsAt[i] <= Len(s)) = FALSE
      BY <3>2
    <3> QED BY <3>2, <3>3
  <2> QED BY <2>2, <2>3
<1> QED BY <1>4, <1>6 DEF Abs!list_next, Abs!Exists

LEMMA FindAbs ==
  ASSUME Typed, NEW s, Holds(s), NEW i \in Iters, NEW k, list_find(i, k)
  PROVE  Abs!list_find(i, k)
<1> DEFINE l == Len(s)
           Ends(x) == x # Null => Key[x] = k
<1>1. /\ pc = "idle" /\ i \in iters /\ Chain = s /\ l \in Nat
      /\ \A m \in 1..l : s[m] # Null
  BY PlacesTyped, CellLemma, NodesAssumption DEF list_find, Holds, Cells
<1>2. PICK n \in 1..l + 1 :
        /\ Ends(Steps(i)[n].ret)
        /\ \A m \in 1..n - 1 : ~Ends(Steps(i)[m].ret)
        /\ Advance(i, n)
  BY <1>1 DEF list_find
<1> PICK a \in 0..l : Moved(s, i, n, a)
  BY <1>1, <1>2, AdvanceAbs
<1>3. LET b == After(a, n, l)
          d == After(b, 2, l)
      IN  /\ AbsAt[i] = a + 1 /\ ret' = Succ(s, b)
          /\ AbsAt' = [AbsAt EXCEPT ![i] = d + 1]
          /\ AbsHas' = [AbsHas EXCEPT ![i] = (d = b + 1)]
          /\ \A m \in 1..l + 1 : Steps(i)[m].ret = Succ(s, After(a, m, l))
  BY DEF Moved
<1>4. AbsItems = s /\ AbsItems' = AbsItems /\ AbsAt[i] > 0
  BY <1>1, <1>2, AdvanceAbs
<1> DEFINE b == After(a, n, l)
           d == After(b, 2, l)
           matches == {m \in a + 1..l : Key[s[m]] = k}
<1>5. /\ Ends(Succ(s, b))
      /\ \A m \in 1..n - 1 : ~Ends(Succ(s, After(a, m, l)))
  <2>1. \A m \in 1..n - 1 : m \in 1..l + 1
    BY <1>1
  <2> QED BY <1>2, <1>3, <2>1
<1>6. /\ AbsAt[i] = a + 1 /\ ret' = Succ(s, b)
      /\ AbsAt' = [AbsAt EXCEPT ![i] = d + 1]
      /\ AbsHas' = [AbsHas EXCEPT ![i] = (d = b + 1)]
  BY <1>3
<1>7. /\ b \in 0..l /\ (b < l => b = a + n - 1 /\ d = b + 1) /\ (b = l => d = l)
      /\ (b = l => a + n - 1 >= l)
  <2>1. b \in 0..l /\ (b < l => b = a + n - 1) /\ (b = l => a + n - 1 >= l)
    BY <1>1 DEF After
  <2> HIDE DEF b
  <2>2. (b < l => d = b + 1) /\ (b = l => d = l)
    BY <1>1, <2>1 DEF After
  <2> QED BY <2>1, <2>2
<1> HIDE DEF b, d, l
<1>8. \A m \in matches : m - a \notin 1..n - 1
  <2> SUFFICES ASSUME NEW m \in matches, m - a \in 1..n - 1
               PROVE  FALSE
    OBVIOUS
  <2>1. After(a, m - a, l) = m - 1 /\ m - 1 < l /\ (m - 1) + 1 = m
    BY <1>1 DEF After
  <2>2. Succ(s, After(a, m - a, l)) = s[m]
    BY <2>1 DEF Succ, l
  <2> QED BY <1>5, <2>2
<1>9. CASE b = l
  <2>1. matches = {}
    <3>1. \A m \in a + 1..l : m - a \in 1..n - 1
      BY <1>1, <1>7, <1>9
    <3> QED BY <1>8, <3>1
  <2>2. Succ(s, b) = Null /\ d + 1 = l + 1 /\ (d = b + 1) = FALSE
    BY <1>1, <1>7, <1>9 DEF Succ, l
  <2> QED BY <1>4, <1>6, <2>1, <2>2 DEF Abs!list_find, Abs!Exists, l
<1>10. CASE b < l
  <2>1. b + 1 \in 1..l /\ Succ(s, b) = s[b + 1]
    BY <1>1, <1>7, <1>10 DEF Succ, l
  <2>2. b + 1 \in matches
    <3>1. b + 1 \in a + 1..l
      BY <1>1, <1>7, <1>10
    <3> QED BY <1>1, <1>5, <2>1, <3>1
  <2>3. \A m \in matches : b + 1 <= m
    <3>1. \A m \in a + 1..l : b + 1 <= m \/ m - a \in 1..n - 1
      BY <1>1, <1>7, <1>10
    <3> QED BY <1>8, <3>1
  <2>4. Abs!Min(matches) = b + 1
    <3>1. \A m \in matches : m \in Int
      BY <1>1
    <3> HIDE DEF matches
    <3> QED BY <1>7, <2>2, <2>3, <3>1 DEF Abs!Min
  <2>5. d + 1 = (b + 1) + 1 /\ (d = b + 1) = TRUE
    BY <1>7, <1>10
  <2> QED BY <1>4, <1>6, <2>1, <2>2, <2>4, <2>5 DEF Abs!list_find, Abs!Exists, l
<1>11. b = l \/ b < l
  BY <1>1, <1>7
<1> QED BY <1>9, <1>10, <1>11

(***************************************************************************)
(* The loop of list_delete_all: q says where the items still on the list   *)
(* were when it was entered, and an iterator is before the items it was    *)
(* before.                                                                 *)
(***************************************************************************)
Rising(q) == \A m, n \in DOMAIN q : m < n => q[m] < q[n]
Image(q) == {q[n] : n \in DOMAIN q}

Follows(q, L, a0, h0, a, h) ==
  /\ \A n \in DOMAIN q : n < a <=> q[n] < a0
  /\ h <=> h0 /\ a0 - 1 \in Image(q) /\ (a0 <= L => a0 \in Image(q))

(* Item m + 1 taken out of it. *)
Without(q, l, L, m) ==
  /\ Del(q, m) \in [1..l - 1 -> 1..L] /\ Rising(Del(q, m))
  /\ \A n \in 1..l - 1 : Del(q, m)[n] = IF n <= m THEN q[n] ELSE q[n + 1]
  /\ Image(Del(q, m)) = Image(q) \ {q[m + 1]}

LEMMA RisingLemma ==
  ASSUME NEW l \in Nat, NEW L \in Nat, NEW q \in [1..l -> 1..L], Rising(q),
         NEW m \in 0..l - 1
  PROVE  Without(q, l, L, m)
<1> DEFINE r == Del(q, m)
<1>1. Len(q) = l
  <2>1. \A b \in Nat : q \in [1..b -> 1..L] => Len(q) = b
    OBVIOUS
  <2> QED BY <2>1
<1>2. r = [n \in 1..l - 1 |-> IF n <= m THEN q[n] ELSE q[n + 1]]
  BY <1>1 DEF Del
<1>3. \A n \in 1..l - 1 : n \in 1..l /\ n + 1 \in 1..l
  OBVIOUS
<1>4. r \in [1..l - 1 -> 1..L] /\ \A n \in 1..l - 1 : r[n] = IF n <= m THEN q[n] ELSE q[n + 1]
  BY <1>2, <1>3
<1> HIDE DEF r
<1>5. \A i, n \in 1..l : i < n => q[i] < q[n]
  BY DEF Rising
<1>6. Rising(r)
  <2> SUFFICES ASSUME NEW i \in 1..l - 1, NEW n \in 1..l - 1, i < n
               PROVE  r[i] < r[n]
    BY <1>4 DEF Rising
  <2>1. CASE n <= m
    <3>1. i <= m
      BY <2>1
    <3> QED BY <1>3, <1>4, <1>5, <2>1, <3>1
  <2>2. CASE i <= m /\ ~(n <= m)
    <3>1. i < n + 1
      OBVIOUS
    <3> QED BY <1>3, <1>4, <1>5, <2>2, <3>1
  <2>3. CASE ~(i <= m)
    <3>1. ~(n <= m) /\ i + 1 < n + 1
      BY <2>3
    <3> QED BY <1>3, <1>4, <1>5, <2>3, <3>1
  <2> QED BY <2>1, <2>2, <2>3
<1>7. Image(r) = Image(q) \ {q[m + 1]}
  <2>1. Image(r) = {r[n] : n \in 1..l - 1} /\ Image(q) = {q[n] : n \in 1..l}
    BY <1>4 DEF Image
  <2>2. \A i, n \in 1..l : q[i] = q[n] => i = n
    <3> SUFFICES ASSUME NEW i \in 1..l, NEW n \in 1..l, q[i] = q[n] PROVE i = n
      OBVIOUS
    <3>1. q[i] \in Int /\ ~(i < n) /\ ~(n < i)
      BY <1>5
    <3> QED BY <3>1
  <2>3. \A n \in 1..l - 1 : \E i \in 1..l : i # m + 1 /\ r[n] = q[i]
    <3> TAKE n \in 1..l - 1
    <3>1. CASE n <= m
      <4>1. n # m + 1
        BY <3>1
      <4> QED BY <1>3, <1>4, <3>1, <4>1
    <3>2. CASE ~(n <= m)
      <4>1. n + 1 # m + 1
        BY <3>2
      <4> QED BY <1>3, <1>4, <3>2, <4>1
    <3> QED BY <3>1, <3>2
  <2>4. \A i \in 1..l : i # m + 1 => \E n \in 1..l - 1 : r[n] = q[i]
    <3> SUFFICES ASSUME NEW i \in 1..l, i # m + 1 PROVE \E n \in 1..l - 1 : r[n] = q[i]
      OBVIOUS
    <3>1. CASE i <= m
      <4>1. i \in 1..l - 1
        BY <3>1
      <4> QED BY <1>4, <3>1, <4>1
    <3>2. CASE ~(i <= m)
      <4>1. i - 1 \in 1..l - 1 /\ ~(i - 1 <= m) /\ (i - 1) + 1 = i
        BY <3>2
      <4>2. r[i - 1] = q[i]
        BY <1>4, <4>1
      <4> QED BY <4>1, <4>2
    <3> QED BY <3>1, <3>2
  <2>5. m + 1 \in 1..l
    OBVIOUS
  <2>6. ASSUME NEW v
        PROVE  v \in Image(r) <=> v \in Image(q) /\ v # q[m + 1]
    <3>1. v \in Image(r) => \E i \in 1..l : i # m + 1 /\ v = q[i]
      BY <2>1, <2>3
    <3>2. (\E i \in 1..l : i # m + 1 /\ v = q[i]) => v \in Image(q) /\ v # q[m + 1]
      BY <2>1, <2>2, <2>5
    <3>3. v \in Image(q) /\ v # q[m + 1] => \E i \in 1..l : i # m + 1 /\ v = q[i]
      BY <2>1
    <3>4. (\E i \in 1..l : i # m + 1 /\ v = q[i]) => v \in Image(r)
      BY <2>1, <2>4
    <3> QED BY <3>1, <3>2, <3>3, <3>4
  <2> QED BY <2>6
<1> QED BY <1>4, <1>6, <1>7 DEF r, Without

LEMMA FollowsLemma ==
  ASSUME NEW l \in Nat, NEW L \in Nat, NEW q \in [1..l -> 1..L], Rising(q),
         NEW m \in 0..l - 1, NEW a0 \in 1..L + 1, NEW a \in 1..l + 1,
         NEW h0 \in BOOLEAN, NEW h \in BOOLEAN, Follows(q, L, a0, h0, a, h),
         NEW a1, NEW h1, a1 = (IF a > m + 1 THEN a - 1 ELSE a),
         h1 = (h /\ a # m + 1 /\ a # m + 2)
  PROVE  Follows(Del(q, m), L, a0, h0, a1, h1)
<1> DEFINE r == Del(q, m)
           c == IF a > m + 1 THEN a - 1 ELSE a
<1>1. /\ r \in [1..l - 1 -> 1..L]
      /\ \A n \in 1..l - 1 : r[n] = IF n <= m THEN q[n] ELSE q[n + 1]
      /\ Image(r) = Image(q) \ {q[m + 1]}
  <2>1. Without(q, l, L, m)
    BY RisingLemma
  <2> QED BY <2>1 DEF Without
<1> HIDE DEF r
<1>2. /\ \A n \in 1..l : n < a <=> q[n] < a0
      /\ h <=> h0 /\ a0 - 1 \in Image(q) /\ (a0 <= L => a0 \in Image(q))
      /\ \A i, n \in 1..l : i < n => q[i] < q[n]
      /\ Image(q) = {q[n] : n \in 1..l}
      /\ \A n \in 1..l : q[n] \in 1..L
  BY DEF Follows, Rising, Image
<1>3. ASSUME NEW n \in 1..l - 1
      PROVE  n < c <=> r[n] < a0
  <2>1. n \in 1..l /\ n + 1 \in 1..l
    OBVIOUS
  <2>2. CASE n <= m
    <3>1. r[n] = q[n] /\ (n < c <=> n < a)
      BY <1>1, <2>2
    <3> QED BY <1>2, <2>1, <3>1
  <2>3. CASE ~(n <= m)
    <3>1. r[n] = q[n + 1] /\ (n < c <=> n + 1 < a)
      BY <1>1, <2>3
    <3> QED BY <1>2, <2>1, <3>1
  <2> QED BY <2>2, <2>3
<1>4. a0 - 1 \in Image(q) => (a0 - 1 = q[m + 1] <=> a = m + 2)
  <2> SUFFICES ASSUME a0 - 1 \in Image(q) PROVE a0 - 1 = q[m + 1] <=> a = m + 2
    OBVIOUS
  <2>1. PICK n \in 1..l : q[n] = a0 - 1
    BY <1>2
  <2>2. q[n] < a0 /\ n < a
    BY <1>2, <2>1
  <2>3. n + 1 = a
    <3>1. CASE n + 1 = l + 1
      BY <2>2, <3>1
    <3>2. CASE n + 1 # l + 1
      <4>1. n + 1 \in 1..l /\ n < n + 1
        BY <3>2
      <4>2. ~(q[n + 1] < a0)
        BY <1>2, <2>1, <4>1
      <4>3. ~(n + 1 < a)
        BY <1>2, <4>1, <4>2
      <4> QED BY <2>2, <4>3
    <3> QED BY <3>1, <3>2
  <2>4. m + 1 \in 1..l /\ (m + 1 = n <=> a = m + 2)
    BY <2>3
  <2>5. q[m + 1] = q[n] => ~(m + 1 < n) /\ ~(n < m + 1)
    BY <1>2, <2>4
  <2> QED BY <2>1, <2>4, <2>5
<1>5. a0 \in Image(q) => (a0 = q[m + 1] <=> a = m + 1)
  <2> SUFFICES ASSUME a0 \in Image(q) PROVE a0 = q[m + 1] <=> a = m + 1
    OBVIOUS
  <2>1. PICK n \in 1..l : q[n] = a0
    BY <1>2
  <2>2. ~(n < a)
    BY <1>2, <2>1
  <2>3. n = a
    <3> SUFFICES ASSUME n # a PROVE FALSE
      OBVIOUS
    <3>1. n - 1 \in 1..l /\ n - 1 < n /\ ~(n - 1 < a)
      BY <2>2
    <3>2. q[n - 1] < a0
      BY <1>2, <2>1, <3>1
    <3> QED BY <1>2, <3>1, <3>2
  <2>4. m + 1 \in 1..l
    OBVIOUS
  <2>5. q[m + 1] = q[n] => ~(m + 1 < n) /\ ~(n < m + 1)
    BY <1>2, <2>4
  <2> QED BY <2>1, <2>3, <2>4, <2>5
<1>6. ~(a0 <= L) => a # m + 1
  <2> SUFFICES ASSUME ~(a0 <= L) PROVE a # m + 1
    OBVIOUS
  <2>1. m + 1 \in 1..l
    OBVIOUS
  <2>2. q[m + 1] < a0
    BY <1>2, <2>1
  <2> QED BY <1>2, <2>1, <2>2
<1>7. (h /\ a # m + 1 /\ a # m + 2)
        <=> h0 /\ a0 - 1 \in Image(r) /\ (a0 <= L => a0 \in Image(r))
  BY <1>1, <1>2, <1>4, <1>5, <1>6
<1>8. \A n \in DOMAIN r : n < c <=> r[n] < a0
  BY <1>1, <1>3
<1>9. Follows(r, L, a0, h0, c, h /\ a # m + 1 /\ a # m + 2)
  BY <1>7, <1>8 DEF Follows
<1> QED BY <1>9 DEF r, c

(***************************************************************************)
(* The loop of list_sort: p says where the items were when it was entered. *)
(* The first c are in order, equal ones as they were; the others have not  *)
(* been moved.                                                             *)
(***************************************************************************)
Before(b, m, n) == \/ Key[b[m]] < Key[b[n]]
                   \/ Key[b[m]] = Key[b[n]] /\ m < n

Sorted(b, p, c) ==
  /\ p \in [1..Len(b) -> 1..Len(b)]
  /\ \A n \in 1..c : p[n] <= c
  /\ \A n \in c + 1..Len(b) : p[n] = n
  /\ \A m, n \in 1..c : m < n => Before(b, p[m], p[n])

(* Item c + 1 put where the insertion sort puts it. *)
Inserted(p, c, j) == [n \in DOMAIN p |-> IF n <= j THEN p[n]
                                         ELSE IF n = j + 1 THEN c + 1
                                         ELSE IF n <= c + 1 THEN p[n - 1] ELSE n]

(* Keys are numbers. *)
LEMMA KeyLemma ==
  ASSUME NEW b \in Seq(Nodes)
  PROVE  \A n \in 1..Len(b) : Key[b[n]] \in Int
BY NodesAssumption

LEMMA StaysLemma ==
  ASSUME NEW b \in Seq(Nodes), NEW c \in 1..Len(b) - 1, NEW p, Sorted(b, p, c),
         ~(Key[b[p[c + 1]]] < Key[b[p[c]]])
  PROVE  Sorted(b, p, c + 1)
<1> DEFINE L == Len(b)
           K == [n \in 1..L |-> Key[b[n]]]
<1>1. /\ L \in Nat /\ c \in Nat /\ c + 1 \in 1..L /\ c \in 1..L /\ p \in [1..L -> 1..L]
      /\ \A n \in 1..L : K[n] \in Int
      /\ \A m, n \in 1..L : Before(b, m, n) <=> K[m] < K[n] \/ (K[m] = K[n] /\ m < n)
  BY KeyLemma DEF Sorted, Before
<1>2. /\ \A n \in 1..c : p[n] <= c /\ n \in 1..L /\ p[n] \in 1..L
      /\ \A n \in c + 1..L : p[n] = n
      /\ \A m, n \in 1..c : m < n => Before(b, p[m], p[n])
  <2>1. /\ \A n \in 1..c : p[n] <= c
        /\ \A n \in c + 1..L : p[n] = n
        /\ \A m, n \in 1..c : m < n => Before(b, p[m], p[n])
    BY DEF Sorted
  <2>2. \A n \in 1..c : n \in 1..L
    BY <1>1
  <2> QED BY <1>1, <2>1, <2>2
<1>3. ~(K[p[c + 1]] < K[p[c]]) /\ p[c + 1] = c + 1
  <2>1. p[c + 1] = c + 1 /\ p[c] \in 1..L
    BY <1>1, <1>2
  <2> QED BY <1>1, <2>1
<1> HIDE DEF K, L
<1>4. \A m, n \in 1..c : m < n => K[p[m]] < K[p[n]] \/ (K[p[m]] = K[p[n]] /\ p[m] < p[n])
  BY <1>1, <1>2
<1>5. ASSUME NEW m \in 1..c
      PROVE  K[p[m]] < K[c + 1] \/ (K[p[m]] = K[c + 1] /\ p[m] < c + 1)
  <2>1. p[m] \in 1..L /\ p[c] \in 1..L /\ p[m] < c + 1 /\ p[c] < c + 1 /\ c \in 1..c
    BY <1>1, <1>2
  <2>2. K[p[m]] \in Int /\ K[p[c]] \in Int /\ K[c + 1] \in Int /\ ~(K[c + 1] < K[p[c]])
    BY <1>1, <1>3, <2>1
  <2>3. CASE m = c
    BY <2>1, <2>2, <2>3
  <2>4. CASE m # c
    <3>1. m < c
      BY <1>1, <2>4
    <3>2. K[p[m]] < K[p[c]] \/ K[p[m]] = K[p[c]]
      BY <1>4, <2>1, <3>1
    <3> QED BY <2>1, <2>2, <3>2
  <2> QED BY <2>3, <2>4
<1>6. ASSUME NEW m \in 1..c + 1, NEW n \in 1..c + 1, m < n
      PROVE  Before(b, p[m], p[n])
  <2>1. m \in 1..c
    BY <1>1, <1>6
  <2>2. CASE n = c + 1
    <3>1. p[n] = c + 1 /\ p[m] \in 1..L
      BY <1>2, <1>3, <2>1, <2>2
    <3>2. Before(b, p[m], c + 1) <=>
            K[p[m]] < K[c + 1] \/ (K[p[m]] = K[c + 1] /\ p[m] < c + 1)
      BY <1>1, <3>1
    <3> QED BY <1>5, <2>1, <3>1, <3>2
  <2>3. CASE n # c + 1
    <3>1. n \in 1..c
      BY <1>1, <2>3
    <3> QED BY <1>2, <1>6, <2>1, <3>1
  <2> QED BY <2>2, <2>3
<1>7. \A n \in 1..c + 1 : p[n] <= c + 1
  <2> TAKE n \in 1..c + 1
  <2>1. n \in 1..c \/ n = c + 1
    BY <1>1
  <2>2. CASE n \in 1..c
    <3>1. p[n] \in 1..L /\ p[n] <= c
      BY <1>2, <2>2
    <3>2. \A v \in 1..L : v \in Int
      BY <1>1
    <3>3. c \in Int
      BY <1>1
    <3> QED BY <3>1, <3>2, <3>3
  <2>3. CASE n = c + 1
    BY <1>1, <1>3, <2>3
  <2> QED BY <2>1, <2>2, <2>3
<1>8. \A n \in (c + 1) + 1..L : p[n] = n
  <2>1. \A n \in (c + 1) + 1..L : n \in c + 1..L
    BY <1>1
  <2> QED BY <1>2, <2>1
<1> QED BY <1>1, <1>6, <1>7, <1>8 DEF Sorted, L

LEMMA MovesLemma ==
  ASSUME NEW b \in Seq(Nodes), NEW c \in 1..Len(b) - 1, NEW p, Sorted(b, p, c),
         NEW j \in 0..c - 1,
         Key[b[p[c + 1]]] < Key[b[p[j + 1]]],
         \A m \in 1..j : ~(Key[b[p[c + 1]]] < Key[b[p[m]]])
  PROVE  Sorted(b, Inserted(p, c, j), c + 1)
<1> DEFINE L == Len(b)
           K == [n \in 1..L |-> Key[b[n]]]
           q == Inserted(p, c, j)
<1>1. /\ L \in Nat /\ c \in Nat /\ j \in Nat /\ j < c /\ c < L /\ j + 1 \in 1..c
      /\ c + 1 \in 1..L /\ c \in 1..L /\ p \in [1..L -> 1..L]
      /\ \A n \in 1..L : K[n] \in Int
      /\ \A m, n \in 1..L : Before(b, m, n) <=> K[m] < K[n] \/ (K[m] = K[n] /\ m < n)
  BY KeyLemma DEF Sorted, Before
<1>2. /\ \A n \in 1..c : p[n] <= c /\ n \in 1..L /\ p[n] \in 1..L
      /\ \A n \in c + 1..L : p[n] = n
      /\ \A m, n \in 1..c : m < n => Before(b, p[m], p[n])
  <2>1. /\ \A n \in 1..c : p[n] <= c
        /\ \A n \in c + 1..L : p[n] = n
        /\ \A m, n \in 1..c : m < n => Before(b, p[m], p[n])
    BY DEF Sorted
  <2>2. \A n \in 1..c : n \in 1..L
    BY <1>1
  <2> QED BY <1>1, <2>1, <2>2
<1>3. /\ p[c + 1] = c + 1
      /\ K[c + 1] < K[p[j + 1]]
      /\ \A m \in 1..j : ~(K[c + 1] < K[p[m]])
  <2>1. p[c + 1] = c + 1 /\ p[j + 1] \in 1..L /\ \A m \in 1..j : p[m] \in 1..L
    BY <1>1, <1>2
  <2> QED BY <1>1, <2>1
<1> HIDE DEF K, L
<1>4. /\ \A n \in 1..j : n \in 1..c /\ q[n] = p[n]
      /\ q[j + 1] = c + 1
      /\ \A n \in j + 2..c + 1 : n - 1 \in j + 1..c /\ n - 1 \in 1..c /\ q[n] = p[n - 1]
      /\ \A n \in c + 2..L : q[n] = n
      /\ q \in [1..L -> Int]
  <2>1. q = [n \in 1..L |-> IF n <= j THEN p[n] ELSE IF n = j + 1 THEN c + 1
                            ELSE IF n <= c + 1 THEN p[n - 1] ELSE n]
    BY <1>1 DEF Inserted
  <2> HIDE DEF q
  <2>2. \A n \in 1..j : n \in 1..c /\ n \in 1..L /\ n <= j
    BY <1>1
  <2>3. j + 1 \in 1..L /\ ~(j + 1 <= j)
    BY <1>1
  <2>4. \A n \in j + 2..c + 1 : /\ n \in 1..L /\ ~(n <= j) /\ n # j + 1 /\ n <= c + 1
                                /\ n - 1 \in j + 1..c /\ n - 1 \in 1..c
    BY <1>1
  <2>5. \A n \in c + 2..L : n \in 1..L /\ ~(n <= j) /\ n # j + 1 /\ ~(n <= c + 1)
    BY <1>1
  <2>6. \A n \in 1..L : n <= c + 1 /\ ~(n <= j) /\ n # j + 1 => n - 1 \in 1..L
    BY <1>1
  <2>7. \A n \in 1..j : q[n] = p[n]
    BY <2>1, <2>2
  <2>8. q[j + 1] = c + 1
    BY <2>1, <2>3
  <2>9. \A n \in j + 2..c + 1 : q[n] = p[n - 1]
    BY <2>1, <2>4
  <2>10. \A n \in c + 2..L : q[n] = n
    BY <2>1, <2>5
  <2>11. q \in [1..L -> Int]
    <3>1. \A n \in 1..L : p[n] \in Int /\ n \in Int /\ c + 1 \in Int
      BY <1>1
    <3> QED BY <2>1, <2>6, <3>1
  <2> QED BY <2>2, <2>4, <2>7, <2>8, <2>9, <2>10, <2>11
<1> HIDE DEF q
<1>5. \A n \in 1..c + 1 : n \in 1..j \/ n = j + 1 \/ n \in j + 2..c + 1
  BY <1>1
<1>6. \A n \in 1..c + 1 : q[n] \in 1..L /\ q[n] <= c + 1
  <2> TAKE n \in 1..c + 1
  <2>1. CASE n = j + 1
    <3>1. q[n] = c + 1
      BY <1>4, <2>1
    <3> QED BY <1>1, <3>1
  <2>2. CASE n # j + 1
    <3>1. PICK m \in 1..c : q[n] = p[m]
      BY <1>4, <1>5, <2>2
    <3>2. p[m] \in 1..L /\ p[m] <= c
      BY <1>2
    <3> QED BY <1>1, <3>1, <3>2
  <2> QED BY <2>1, <2>2
<1>7. q \in [1..L -> 1..L]
  <2>1. \A n \in 1..L : n \in 1..c + 1 \/ n \in c + 2..L
    BY <1>1
  <2>2. \A n \in 1..L : q[n] \in 1..L
    BY <1>4, <1>6, <2>1
  <2> QED BY <1>4, <2>2
<1>8. \A m \in 1..j : Before(b, p[m], c + 1)
  <2> TAKE m \in 1..j
  <2>1. m \in 1..c /\ p[m] \in 1..L /\ p[m] <= c
    BY <1>1, <1>2
  <2>2. K[p[m]] \in Int /\ K[c + 1] \in Int
    BY <1>1, <2>1
  <2>3. p[m] < c + 1
    BY <1>1, <2>1
  <2>4. ~(K[c + 1] < K[p[m]])
    BY <1>3
  <2>5. K[p[m]] < K[c + 1] \/ (K[p[m]] = K[c + 1] /\ p[m] < c + 1)
    BY <2>2, <2>3, <2>4
  <2> QED BY <1>1, <2>1, <2>5
<1>9. \A n \in j + 1..c : Before(b, c + 1, p[n])
  <2> TAKE n \in j + 1..c
  <2>1. n \in 1..c /\ p[n] \in 1..L /\ p[j + 1] \in 1..L
    BY <1>1, <1>2
  <2>2. K[p[n]] \in Int /\ K[c + 1] \in Int /\ K[p[j + 1]] \in Int /\ K[c + 1] < K[p[j + 1]]
    BY <1>1, <1>3, <2>1
  <2>3. n = j + 1 \/ K[p[j + 1]] < K[p[n]] \/ K[p[j + 1]] = K[p[n]]
    <3>1. n = j + 1 \/ j + 1 < n
      BY <1>1
    <3>2. j + 1 < n => Before(b, p[j + 1], p[n])
      BY <1>1, <1>2, <2>1
    <3> QED BY <1>1, <2>1, <3>1, <3>2
  <2>4. K[c + 1] < K[p[n]]
    BY <2>2, <2>3
  <2> QED BY <1>1, <2>1, <2>4
<1>10. ASSUME NEW m \in 1..c + 1, NEW n \in 1..c + 1, m < n
       PROVE  Before(b, q[m], q[n])
  <2>1. CASE n \in 1..j
    <3>1. m \in 1..j
      BY <1>1, <1>10, <2>1
    <3> QED BY <1>2, <1>4, <1>10, <2>1, <3>1
  <2>2. CASE n = j + 1
    <3>1. m \in 1..j
      BY <1>1, <1>10, <2>2
    <3> QED BY <1>4, <1>8, <2>2, <3>1
  <2>3. CASE n \in j + 2..c + 1
    <3>1. q[n] = p[n - 1] /\ n - 1 \in 1..c /\ n - 1 \in j + 1..c
      BY <1>4, <2>3
    <3>2. CASE m \in 1..j
      <4>1. m < n - 1 /\ m \in 1..c
        BY <1>1, <2>3, <3>2
      <4> QED BY <1>2, <1>4, <3>1, <3>2, <4>1
    <3>3. CASE m = j + 1
      BY <1>4, <1>9, <3>1, <3>3
    <3>4. CASE m \in j + 2..c + 1
      <4>1. q[m] = p[m - 1] /\ m - 1 \in 1..c /\ m - 1 < n - 1
        BY <1>1, <1>4, <1>10, <3>4
      <4> QED BY <1>2, <3>1, <4>1
    <3> QED BY <1>5, <3>2, <3>3, <3>4
  <2> QED BY <1>5, <2>1, <2>2, <2>3
<1>11. \A n \in (c + 1) + 1..L : q[n] = n
  <2>1. \A n \in (c + 1) + 1..L : n \in c + 2..L
    BY <1>1
  <2> QED BY <1>4, <2>1
<1> QED BY <1>6, <1>7, <1>10, <1>11 DEF Sorted, q, L

(* What the loop of list_delete_all has left of the list b: it is at cell  *)
(* c, and has come to item d of b.                                         *)
Dropping(b, k, s, q, c, d) ==
  /\ c \in 0..Len(s) /\ d \in 0..Len(b)
  /\ q \in [1..Len(s) -> 1..Len(b)] /\ Rising(q)
  /\ \A n \in 1..Len(s) : s[n] = b[q[n]] /\ (n <= c <=> q[n] <= d)
  /\ Image(q) = {m \in 1..Len(b) : m > d \/ Key[b[m]] # k}

LEMMA DroppingLemma ==
  ASSUME NEW b \in Seq(Nodes), NEW k, NEW s \in Seq(Nodes), NEW q, NEW c, NEW d,
         Dropping(b, k, s, q, c, d)
  PROVE  /\ Len(s) \in Nat /\ Len(b) \in Nat /\ c \in 0..Len(s) /\ d \in 0..Len(b)
         /\ q \in [1..Len(s) -> 1..Len(b)] /\ Rising(q) /\ DOMAIN q = 1..Len(s)
         /\ \A n \in 1..Len(s) : /\ q[n] \in 1..Len(b) /\ s[n] = b[q[n]]
                                 /\ n <= c <=> q[n] <= d
         /\ \A m, n \in 1..Len(s) : m < n => q[m] < q[n]
         /\ Image(q) = {m \in 1..Len(b) : m > d \/ Key[b[m]] # k}
<1>1. /\ c \in 0..Len(s) /\ d \in 0..Len(b)
      /\ q \in [1..Len(s) -> 1..Len(b)] /\ Rising(q)
      /\ \A n \in 1..Len(s) : s[n] = b[q[n]] /\ (n <= c <=> q[n] <= d)
      /\ Image(q) = {m \in 1..Len(b) : m > d \/ Key[b[m]] # k}
  BY DEF Dropping
<1>2. DOMAIN q = 1..Len(s) /\ \A n \in 1..Len(s) : q[n] \in 1..Len(b)
  BY <1>1
<1>3. \A m, n \in 1..Len(s) : m < n => q[m] < q[n]
  BY <1>1, <1>2 DEF Rising
<1> QED BY <1>1, <1>2, <1>3

LEMMA PassLemma ==
  ASSUME NEW b \in Seq(Nodes), NEW k, NEW s \in Seq(Nodes), NEW q, NEW c, NEW d,
         Dropping(b, k, s, q, c, d)
  PROVE  /\ c < Len(s) => /\ c \in 0..Len(s) - 1 /\ c + 1 \in 1..Len(s)
                          /\ d + 1 \in 1..Len(b) /\ q[c + 1] = d + 1
                          /\ s[c + 1] = b[d + 1]
         /\ c = Len(s) => d = Len(b)
<1> DEFINE l == Len(s)
           L == Len(b)
<1>1. /\ l \in Nat /\ L \in Nat /\ c \in 0..l /\ d \in 0..L
      /\ \A n \in 1..l : q[n] \in 1..L /\ s[n] = b[q[n]] /\ (n <= c <=> q[n] <= d)
      /\ \A m, n \in 1..l : m < n => q[m] < q[n]
  BY DroppingLemma
<1>2. ASSUME d < L
      PROVE  \E n \in 1..l : q[n] = d + 1
  <2>1. d + 1 \in 1..L /\ d + 1 > d
    BY <1>1, <1>2
  <2>2. d + 1 \in Image(q)
    BY <2>1 DEF Dropping
  <2>3. DOMAIN q = 1..l
    BY DEF Dropping
  <2> QED BY <2>2, <2>3 DEF Image
<1> HIDE DEF l, L
<1>3. ASSUME c < l
      PROVE  /\ c \in 0..l - 1 /\ c + 1 \in 1..l
             /\ d + 1 \in 1..L /\ q[c + 1] = d + 1
  <2>1. c + 1 \in 1..l /\ ~(c + 1 <= c) /\ c \in 0..l - 1
    BY <1>1, <1>3
  <2>2. q[c + 1] \in 1..L /\ ~(q[c + 1] <= d)
    BY <1>1, <2>1
  <2>3. d < L /\ d + 1 \in 1..L
    BY <1>1, <2>2
  <2>4. PICK n \in 1..l : q[n] = d + 1
    BY <1>2, <2>3
  <2>5. ~(n <= c)
    <3>1. ~(q[n] <= d)
      BY <1>1, <2>4
    <3> QED BY <1>1, <3>1
  <2>6. c + 1 = n \/ c + 1 < n
    BY <1>1, <2>5
  <2>7. c + 1 < n => q[c + 1] < q[n]
    BY <1>1, <2>1
  <2>8. q[c + 1] = d + 1
    <3>1. q[c + 1] \in Int /\ q[c + 1] > d /\ q[c + 1] <= d + 1
      BY <1>1, <2>2, <2>4, <2>6, <2>7
    <3> QED BY <1>1, <3>1
  <2> QED BY <2>1, <2>3, <2>8
<1>4. ASSUME c = l
      PROVE  d = L
  <2> SUFFICES ASSUME d # L PROVE FALSE
    OBVIOUS
  <2>1. PICK n \in 1..l : q[n] = d + 1
    BY <1>1, <1>2
  <2>2. n <= c /\ ~(q[n] <= d)
    BY <1>1, <1>4, <2>1
  <2> QED BY <1>1, <2>2
<1> QED BY <1>1, <1>3, <1>4 DEF l, L

(* The item behind cell c stays, or goes. *)
LEMMA KeptLemma ==
  ASSUME NEW b \in Seq(Nodes), NEW k, NEW s \in Seq(Nodes), NEW q,
         NEW c \in 0..Len(s) - 1, NEW d, Dropping(b, k, s, q, c, d), Key[s[c + 1]] # k
  PROVE  Dropping(b, k, s, q, c + 1, d + 1)
<1> DEFINE l == Len(s)
           L == Len(b)
<1>1. /\ l \in Nat /\ L \in Nat /\ c \in 0..l /\ d \in 0..L
      /\ q \in [1..l -> 1..L] /\ Rising(q)
      /\ \A n \in 1..l : q[n] \in 1..L /\ s[n] = b[q[n]] /\ (n <= c <=> q[n] <= d)
      /\ \A m, n \in 1..l : m < n => q[m] < q[n]
      /\ Image(q) = {m \in 1..L : m > d \/ Key[b[m]] # k}
  <2>1. /\ q \in [1..l -> 1..L] /\ Rising(q)
        /\ Image(q) = {m \in 1..L : m > d \/ Key[b[m]] # k}
    BY DEF Dropping
  <2>2. l \in Nat /\ L \in Nat /\ c \in 0..l /\ d \in 0..L
    BY DroppingLemma
  <2>3. \A n \in 1..l : q[n] \in 1..L /\ s[n] = b[q[n]] /\ (n <= c <=> q[n] <= d)
    BY DroppingLemma
  <2>4. \A m, n \in 1..l : m < n => q[m] < q[n]
    BY DroppingLemma
  <2> QED BY <2>1, <2>2, <2>3, <2>4, Zenon
<1>2. /\ c \in 0..l - 1 /\ c + 1 \in 1..l
      /\ d + 1 \in 1..L /\ q[c + 1] = d + 1 /\ s[c + 1] = b[d + 1]
  BY PassLemma
<1> HIDE DEF l, L
<1>3. c + 1 \in 0..l /\ d + 1 \in 0..L
  BY <1>1, <1>2
<1>4. ASSUME NEW n \in 1..l
      PROVE  n <= c + 1 <=> q[n] <= d + 1
  <2>1. q[n] \in 1..L /\ (n <= c <=> q[n] <= d) /\ (c + 1 < n => q[c + 1] < q[n])
    BY <1>1, <1>2
  <2>2. n <= c \/ n = c + 1 \/ c + 1 < n
    BY <1>1
  <2>3. q[n] \in Int /\ n \in Int /\ c \in Int /\ d \in Int
    BY <1>1, <2>1
  <2> QED BY <1>2, <2>1, <2>2, <2>3
<1>5. \A m \in 1..L : (m > d \/ Key[b[m]] # k) <=> (m > d + 1 \/ Key[b[m]] # k)
  <2>1. \A m \in 1..L : m = d + 1 \/ (m > d <=> m > d + 1)
    BY <1>1
  <2> QED BY <1>2, <2>1
<1>6. Image(q) = {m \in 1..L : m > d + 1 \/ Key[b[m]] # k}
  BY <1>1, <1>5
<1> QED BY <1>1, <1>3, <1>4, <1>6 DEF Dropping, l, L

(* One item less. *)
LEMMA DelLength ==
  ASSUME NEW s \in Seq(Nodes), NEW m \in 0..Len(s) - 1
  PROVE  Len(Del(s, m)) = Len(s) - 1
<1> DEFINE r == Del(s, m)
<1>1. Len(s) - 1 \in Nat /\ \A n \in 1..Len(s) - 1 : n \in 1..Len(s) /\ n + 1 \in 1..Len(s)
  OBVIOUS
<1>2. r \in [1..Len(s) - 1 -> Nodes]
  BY <1>1 DEF Del
<1> HIDE DEF r
<1>3. \A b \in Nat : r \in [1..b -> Nodes] => Len(r) = b
  OBVIOUS
<1> QED BY <1>1, <1>2, <1>3 DEF r

LEMMA DroppedLemma ==
  ASSUME NEW b \in Seq(Nodes), NEW k, NEW s \in Seq(Nodes),
         NEW q, NEW c \in 0..Len(s) - 1, NEW d,
         Dropping(b, k, s, q, c, d)
  PROVE  Key[s[c + 1]] = k => Dropping(b, k, Del(s, c), Del(q, c), c, d + 1)
<1> DEFINE l == Len(s)
           L == Len(b)
           t == Del(s, c)
           r == Del(q, c)
<1> HIDE DEF t, r
<1>1. /\ l \in Nat /\ L \in Nat /\ c \in 0..l /\ d \in 0..L
      /\ q \in [1..l -> 1..L] /\ Rising(q)
      /\ \A n \in 1..l : q[n] \in 1..L /\ s[n] = b[q[n]] /\ (n <= c <=> q[n] <= d)
      /\ \A m, n \in 1..l : m < n => q[m] < q[n]
      /\ Image(q) = {m \in 1..L : m > d \/ Key[b[m]] # k}
  <2>1. /\ q \in [1..l -> 1..L] /\ Rising(q)
        /\ Image(q) = {m \in 1..L : m > d \/ Key[b[m]] # k}
    BY DEF Dropping
  <2>2. l \in Nat /\ L \in Nat /\ c \in 0..l /\ d \in 0..L
    BY DroppingLemma
  <2>3. \A n \in 1..l : q[n] \in 1..L /\ s[n] = b[q[n]] /\ (n <= c <=> q[n] <= d)
    <3>1. \A n \in 1..l : q[n] \in 1..L
      BY DroppingLemma
    <3>2. \A n \in 1..l : s[n] = b[q[n]]
      BY DEF Dropping
    <3>3. \A n \in 1..l : n <= c <=> q[n] <= d
      BY DroppingLemma
    <3> QED BY <3>1, <3>2, <3>3
  <2>4. \A m, n \in 1..l : m < n => q[m] < q[n]
    BY DroppingLemma
  <2> QED BY <2>1, <2>2, <2>3, <2>4, Zenon
<1>2. /\ c \in 0..l - 1 /\ c + 1 \in 1..l
      /\ d + 1 \in 1..L /\ q[c + 1] = d + 1 /\ s[c + 1] = b[d + 1]
  BY PassLemma
<1>3. /\ r \in [1..l - 1 -> 1..L] /\ Rising(r)
      /\ \A n \in 1..l - 1 : r[n] = IF n <= c THEN q[n] ELSE q[n + 1]
      /\ Image(r) = Image(q) \ {q[c + 1]}
  <2>1. \A x \in Nat, y \in Nat : q \in [1..x -> 1..y] /\ Rising(q) /\ c \in 0..x - 1 =>
          Without(q, x, y, c)
    BY RisingLemma
  <2> HIDE DEF l, L
  <2>2. Without(q, l, L, c)
    BY <1>1, <1>2, <2>1
  <2> QED BY <2>2 DEF Without, r
<1>4. Len(t) = l - 1 /\ \A n \in 1..l - 1 : t[n] = IF n <= c THEN s[n] ELSE s[n + 1]
  <2>1. Len(t) = l - 1
    BY <1>2, DelLength DEF t
  <2> QED BY <2>1 DEF Del, t
<1> HIDE DEF l, L
<1>5. c \in 0..l - 1 /\ d + 1 \in 0..L
  BY <1>1, <1>2
<1>6. ASSUME NEW n \in 1..l - 1
      PROVE  t[n] = b[r[n]] /\ (n <= c <=> r[n] <= d + 1)
  <2>1. n \in 1..l /\ n + 1 \in 1..l
    BY <1>1
  <2>2. CASE n <= c
    <3>1. t[n] = s[n] /\ r[n] = q[n]
      BY <1>3, <1>4, <2>2
    <3>2. q[n] \in 1..L /\ q[n] <= d /\ s[n] = b[q[n]]
      BY <1>1, <2>1, <2>2
    <3>3. q[n] <= d + 1
      BY <1>1, <3>2
    <3> QED BY <2>2, <3>1, <3>2, <3>3
  <2>3. CASE ~(n <= c)
    <3>1. t[n] = s[n + 1] /\ r[n] = q[n + 1]
      BY <1>3, <1>4, <2>3
    <3>2. q[n + 1] \in 1..L /\ s[n + 1] = b[q[n + 1]]
      BY <1>1, <2>1
    <3>3. c + 1 < n + 1
      BY <1>1, <2>3
    <3>4. d + 1 < q[n + 1]
      BY <1>1, <1>2, <2>1, <3>3
    <3>5. ~(q[n + 1] <= d + 1)
      BY <1>1, <3>2, <3>4
    <3> QED BY <2>3, <3>1, <3>2, <3>5
  <2> QED BY <2>2, <2>3
<1>7. ASSUME Key[s[c + 1]] = k
      PROVE  \A m \in 1..L : (m > d \/ Key[b[m]] # k) /\ m # d + 1 <=> (m > d + 1 \/ Key[b[m]] # k)
  <2>1. \A m \in 1..L : m = d + 1 \/ (m > d <=> m > d + 1)
    BY <1>1
  <2>2. ~(d + 1 > d + 1)
    BY <1>1
  <2> QED BY <1>2, <1>7, <2>1, <2>2
<1>8. Key[s[c + 1]] = k => Image(r) = {m \in 1..L : m > d + 1 \/ Key[b[m]] # k}
  BY <1>1, <1>2, <1>3, <1>7
<1> QED BY <1>3, <1>4, <1>5, <1>6, <1>8 DEF Dropping, l, L, t, r

(* It begins with the whole list and ends with the items that stay. *)
LEMMA WholeLemma ==
  ASSUME NEW b \in Seq(Nodes), NEW k
  PROVE  LET q == [n \in 1..Len(b) |-> n]
         IN  /\ Dropping(b, k, b, q, 0, 0)
             /\ \A a \in 1..Len(b) + 1, h \in BOOLEAN :
                  (h => a > 1) => Follows(q, Len(b), a, h, a, h)
<1> DEFINE q == [n \in 1..Len(b) |-> n]
<1>1. Len(b) \in Nat
  OBVIOUS
<1>2. q \in [1..Len(b) -> 1..Len(b)] /\ Rising(q) /\ Image(q) = 1..Len(b)
  BY <1>1 DEF Rising, Image
<1>3. \A n \in 1..Len(b) : q[n] = n /\ ~(n <= 0) /\ n > 0
  BY <1>1
<1> HIDE DEF q
<1>4. Dropping(b, k, b, q, 0, 0)
  <2>1. 0 \in 0..Len(b)
    BY <1>1
  <2>2. Image(q) = {m \in 1..Len(b) : m > 0 \/ Key[b[m]] # k}
    BY <1>2, <1>3
  <2>3. \A n \in 1..Len(b) : b[n] = b[q[n]] /\ (n <= 0 <=> q[n] <= 0)
    BY <1>3
  <2> QED BY <1>2, <2>1, <2>2, <2>3 DEF Dropping
<1>5. ASSUME NEW a \in 1..Len(b) + 1, NEW h \in BOOLEAN, h => a > 1
      PROVE  Follows(q, Len(b), a, h, a, h)
  <2>1. \A n \in DOMAIN q : n < a <=> q[n] < a
    BY <1>2, <1>3
  <2>2. h => a - 1 \in Image(q)
    BY <1>1, <1>2, <1>5
  <2>3. a <= Len(b) => a \in Image(q)
    BY <1>1, <1>2
  <2> QED BY <2>1, <2>2, <2>3 DEF Follows
<1> QED BY <1>4, <1>5 DEF q

(***************************************************************************)
(* What is known inside the two loops: what was recorded when the loop was *)
(* entered, and how far it is.                                             *)
(***************************************************************************)
Entered ==
  /\ before.items \in Seq(Nodes)
  /\ before.at \in [Iters -> 0..Len(before.items) + 1]
  /\ before.has \in [Iters -> BOOLEAN]
  /\ \A i \in Iters : before.at[i] > 0 <=> i \in iters

Deleting(s, q, c, d) ==
  /\ Dropping(before.items, key, s, q, c, d) /\ pp = CellAt(s, c)
  /\ \A i \in iters :
       Follows(q, Len(before.items), before.at[i], before.has[i], At(i), Has(i))

Sorting(s, p, c) ==
  /\ Len(before.items) > 1 /\ Len(s) = Len(before.items) /\ c \in 1..Len(s)
  /\ pp = CellAt(s, c) /\ ppPrev = CellAt(s, c - 1)
  /\ Sorted(before.items, p, c)
  /\ \A n \in 1..Len(s) : s[n] = before.items[p[n]]

Loops(s) ==
  /\ pc # "idle" => Entered
  /\ pc = "delete" => /\ key \in {Key[x] : x \in Nodes}
                      /\ \E q, c, d : Deleting(s, q, c, d)
  /\ pc = "sort" => \E p, c : Sorting(s, p, c)

RInv == Typed /\ \E s : Holds(s) /\ Loops(s)

(* Only one sequence is on the pointers. *)
LEMMA OneSequence == (\A s, t : Linked(next, s) /\ Holds(t) => s = t)'
<1>1. \A s, t : Linked(next, s) /\ Holds(t) => s = t
  <2> SUFFICES ASSUME NEW s, NEW t, Linked(next, s), Holds(t) PROVE s = t
    OBVIOUS
  <2>1. Linked(next, t)
    BY DEF Holds
  <2> QED BY <2>1, ChainLemma
<1> QED BY <1>1, PTL

(* The loops are entered. *)
LEMMA EnteredLemma ==
  ASSUME Typed, NEW s, Holds(s), NEW where \in {"delete", "sort"}, NEW k, Enter(where, k),
         UNCHANGED <<next, iters, pos, prev>>
  PROVE  /\ Entered' /\ before'.items = s /\ pc' = where /\ key' = k
         /\ \A i \in Iters : before'.at[i] = At(i) /\ before'.has[i] = Has(i)
         /\ \A i \in Iters : At(i)' = At(i) /\ Has(i)' = Has(i)
<1>1. /\ pc = "idle" /\ pc' = where /\ key' = k
      /\ before' = [items |-> Chain, at |-> [i \in Iters |-> At(i)],
                    has |-> [i \in Iters |-> Has(i)]]
  BY DEF Enter
<1>2. /\ Chain = s /\ Len(s) \in Nat /\ s \in Seq(Nodes)
      /\ \A i \in Iters : Has(i) \in BOOLEAN /\ At(i) \in 0..Len(s) + 1
      /\ \A i \in Iters : At(i) > 0 <=> i \in iters
  BY <1>1, PlacesTyped
<1>3. /\ before'.items = s /\ before'.at = [i \in Iters |-> At(i)]
      /\ before'.has = [i \in Iters |-> Has(i)]
  BY <1>1, <1>2
<1>4. \A i \in Iters : before'.at[i] = At(i) /\ before'.has[i] = Has(i)
  BY <1>3
<1>5. \A i \in Iters : At(i)' = At(i) /\ Has(i)' = Has(i)
  BY FrameLemma
<1>6. Entered'
  <2>1. before'.at \in [Iters -> 0..Len(s) + 1] /\ before'.has \in [Iters -> BOOLEAN]
    BY <1>2, <1>3
  <2>2. \A i \in Iters : before'.at[i] > 0 <=> i \in iters
    BY <1>2, <1>4
  <2> QED BY <1>2, <1>3, <2>1, <2>2 DEF Entered
<1> QED BY <1>1, <1>3, <1>4, <1>5, <1>6

LEMMA EnterDelete ==
  ASSUME Typed, NEW s, Holds(s), NEW k \in {Key[x] : x \in Nodes}, list_delete_all(k)
  PROVE  Loops(s)'
<1>1. /\ Enter("delete", k) /\ pp' = HeadCell /\ pc = "idle"
      /\ UNCHANGED <<next, iters, pos, prev>>
  BY DEF list_delete_all, Enter, cursors
<1>2. /\ Entered' /\ before'.items = s /\ pc' = "delete" /\ key' = k
      /\ \A i \in Iters : before'.at[i] = At(i) /\ before'.has[i] = Has(i)
      /\ \A i \in Iters : At(i)' = At(i) /\ Has(i)' = Has(i)
  BY <1>1, EnteredLemma
<1>3. /\ Len(s) \in Nat /\ s \in Seq(Nodes)
      /\ \A i \in Iters : Has(i) \in BOOLEAN /\ At(i) \in 0..Len(s) + 1
      /\ \A i \in Iters : At(i) > 0 <=> i \in iters
      /\ \A i \in Iters : Has(i) => At(i) > 1
      /\ iters' = iters /\ iters \subseteq Iters
  BY <1>1, PlacesTyped DEF Typed, TypeOK
<1> DEFINE q == [n \in 1..Len(s) |-> n]
<1>4. /\ Dropping(s, k, s, q, 0, 0)
      /\ \A a \in 1..Len(s) + 1, h \in BOOLEAN :
           (h => a > 1) => Follows(q, Len(s), a, h, a, h)
  BY <1>3, WholeLemma
<1> HIDE DEF q
<1>5. ASSUME NEW i \in iters
      PROVE  Follows(q, Len(s), before'.at[i], before'.has[i], At(i)', Has(i)')
  <2>1. At(i) \in 1..Len(s) + 1 /\ Has(i) \in BOOLEAN /\ (Has(i) => At(i) > 1)
    BY <1>3
  <2>2. Follows(q, Len(s), At(i), Has(i), At(i), Has(i))
    BY <1>4, <2>1
  <2> QED BY <1>2, <1>3, <2>2
<1>6. pp' = CellAt(s, 0)
  BY <1>1 DEF CellAt
<1>7. Deleting(s, q, 0, 0)'
  BY <1>2, <1>3, <1>4, <1>5, <1>6 DEF Deleting
<1> QED BY <1>2, <1>7 DEF Loops

LEMMA EnterSort ==
  ASSUME Typed, NEW s, Holds(s), list_sort
  PROVE  Loops(s)'
<1>1. /\ Enter("sort", 0) /\ ppPrev' = HeadCell /\ pp' = next[HeadCell] /\ count > 1
      /\ UNCHANGED <<next, iters, pos, prev>>
  BY DEF list_sort, cursors
<1>2. Entered' /\ before'.items = s /\ pc' = "sort"
  BY <1>1, EnteredLemma
<1>3. /\ Len(s) \in Nat /\ s \in Seq(Nodes) /\ Len(s) > 1 /\ Linked(next, s)
      /\ next[CellAt(s, 0)] = Succ(s, 0)
  <2>1. count = Len(s) /\ Len(s) \in Nat /\ Linked(next, s)
    BY CellLemma DEF Holds
  <2>2. 0 \in 0..Len(s)
    BY <2>1
  <2> QED BY <1>1, <2>1, <2>2 DEF Linked
<1>4. ppPrev' = CellAt(s, 0) /\ pp' = CellAt(s, 1)
  BY <1>1, <1>3 DEF CellAt, Succ
<1> DEFINE p == [n \in 1..Len(s) |-> n]
<1>5. /\ p \in [1..Len(s) -> 1..Len(s)] /\ \A n \in 1..Len(s) : p[n] = n
  BY <1>3
<1> HIDE DEF p
<1>6. Sorted(s, p, 1)
  <2>1. \A n \in 1..1 : n = 1 /\ p[n] <= 1
    BY <1>3, <1>5
  <2>2. \A n \in 1 + 1..Len(s) : n \in 1..Len(s)
    BY <1>3
  <2>3. \A m, n \in 1..1 : ~(m < n)
    OBVIOUS
  <2> QED BY <1>5, <2>1, <2>2, <2>3 DEF Sorted
<1>7. Sorting(s, p, 1)'
  <2>1. 1 \in 1..Len(s) /\ 1 - 1 = 0
    BY <1>3
  <2>2. \A n \in 1..Len(s) : s[n] = s[p[n]]
    BY <1>5
  <2> QED BY <1>2, <1>3, <1>4, <1>6, <2>1, <2>2 DEF Sorting
<1> QED BY <1>2, <1>7 DEF Loops

(***************************************************************************)
(* One turn of each loop.                                                  *)
(***************************************************************************)
LEMMA DeleteLoop ==
  ASSUME Typed, NEW s, Holds(s), Loops(s), DeleteStep
  PROVE  \E t : Holds(t)' /\ Loops(t)'
<1> DEFINE b == before.items
<1>1. /\ pc = "delete" /\ next[pp] # Null /\ Linked(next, s) /\ Len(s) \in Nat
      /\ s \in Seq(Nodes) /\ IsInjective(s) /\ Chain = s /\ iters \subseteq Iters
      /\ \A n \in 0..Len(s) : next[CellAt(s, n)] = Succ(s, n)
      /\ \A i \in Iters : Has(i) \in BOOLEAN /\ At(i) \in 0..Len(s) + 1
      /\ \A i \in Iters : At(i) > 0 <=> i \in iters
  BY PlacesTyped DEF DeleteStep, Holds, Linked, Typed, TypeOK
<1>2. /\ Entered /\ b \in Seq(Nodes) /\ Len(b) \in Nat
      /\ key \in {Key[x] : x \in Nodes}
  BY <1>1 DEF Loops, Entered
<1>3. PICK q, c, d : Deleting(s, q, c, d)
  BY <1>1 DEF Loops
<1>4. /\ Dropping(b, key, s, q, c, d) /\ pp = CellAt(s, c)
      /\ \A i \in iters : Follows(q, Len(b), before.at[i], before.has[i], At(i), Has(i))
  BY <1>3 DEF Deleting
<1>5. c \in 0..Len(s) - 1 /\ c < Len(s) /\ c \in Nat
  <2>1. c \in 0..Len(s)
    BY <1>4 DEF Dropping
  <2>2. Succ(s, c) # Null
    BY <1>1, <1>4, <2>1
  <2>3. c < Len(s)
    BY <2>2 DEF Succ
  <2> QED BY <1>1, <2>1, <2>3
<1>6. next[pp] = s[c + 1] /\ c + 1 # 0
  BY <1>1, <1>4, <1>5 DEF Succ
<1> HIDE DEF b
<1>7. ASSUME NEW t, NEW r, NEW e, Holds(t)', UNCHANGED <<pc, key, before, iters>>,
             Dropping(b, key, t, r, e, d + 1), pp' = CellAt(t, e),
             \A i \in iters : Follows(r, Len(b), before.at[i], before.has[i], At(i)', Has(i)')
      PROVE  Holds(t)' /\ Loops(t)'
  <2>1. Deleting(t, r, e, d + 1)'
    BY <1>7 DEF Deleting, b
  <2>2. Entered'
    BY <1>2, <1>7 DEF Entered
  <2> QED BY <1>1, <1>2, <1>7, <2>1, <2>2 DEF Loops
<1>8. CASE Key[next[pp]] = key
  <2>1. /\ Unlink(CellAt(s, c)) /\ UNCHANGED <<iters, loop>> /\ ret' \in Nodes \cup {Null}
        /\ UNCHANGED <<pc, pp, key, before, iters>>
    BY <1>4, <1>8 DEF DeleteStep, loop, Typed, TypeOK
  <2>2. /\ Holds(Del(s, c))'
        /\ \A i \in iters :
             /\ At(i)' = IF At(i) > c + 1 THEN At(i) - 1 ELSE At(i)
             /\ Has(i)' = (Has(i) /\ At(i) # c + 1 /\ At(i) # c + 2)
    BY <1>1, <1>4, <1>5, <2>1, UnlinkStep
  <2>3. Dropping(b, key, Del(s, c), Del(q, c), c, d + 1)
    <3>1. Key[s[c + 1]] = key
      BY <1>6, <1>8
    <3> QED BY <1>1, <1>2, <1>4, <1>5, <3>1, DroppedLemma
  <2>4. pp' = CellAt(Del(s, c), c)
    <3>1. c \in 0..c
      BY <1>5
    <3> QED BY <1>1, <1>4, <1>5, <2>1, <3>1, DelLemma
  <2>5. ASSUME NEW i \in iters
        PROVE  Follows(Del(q, c), Len(b), before.at[i], before.has[i], At(i)', Has(i)')
    <3> DEFINE a0 == before.at[i]
               h0 == before.has[i]
               a == At(i)
               h == Has(i)
    <3>1. a0 \in 1..Len(b) + 1 /\ h0 \in BOOLEAN /\ a \in 1..Len(s) + 1 /\ h \in BOOLEAN
      <4>1. i \in Iters
        BY <1>1
      <4>2. a0 \in 0..Len(b) + 1 /\ a0 > 0 /\ h0 \in BOOLEAN
        BY <1>2, <4>1 DEF Entered, b
      <4>3. a \in 0..Len(s) + 1 /\ a > 0 /\ h \in BOOLEAN
        BY <1>1, <4>1
      <4> QED BY <1>1, <1>2, <4>2, <4>3
    <3>2. q \in [1..Len(s) -> 1..Len(b)] /\ Rising(q)
      BY <1>4 DEF Dropping
    <3>3. Follows(q, Len(b), a0, h0, a, h)
      BY <1>4
    <3>4. At(i)' = (IF a > c + 1 THEN a - 1 ELSE a) /\ Has(i)' = (h /\ a # c + 1 /\ a # c + 2)
      BY <2>2
    <3> HIDE DEF a0, h0, a, h
    <3>5. Follows(Del(q, c), Len(b), a0, h0, At(i)', Has(i)')
      BY <1>1, <1>2, <1>5, <3>1, <3>2, <3>3, <3>4, FollowsLemma
    <3> QED BY <3>5 DEF a0, h0
  <2> QED BY <1>7, <2>1, <2>2, <2>3, <2>4, <2>5
<1>9. CASE Key[next[pp]] # key
  <2>1. /\ pp' = s[c + 1]
        /\ UNCHANGED <<next, tail, count, iters, pos, prev, pc, key, before, ret>>
    BY <1>6, <1>9 DEF DeleteStep, cursors, history
  <2>2. Holds(s)'
    <3>1. PICK t : Holds(t)'
      BY DeleteSteps
    <3>2. Linked(next', s)
      BY <1>1, <2>1
    <3>3. s = t
      BY <3>1, <3>2, OneSequence
    <3> QED BY <3>1, <3>3
  <2>3. Dropping(b, key, s, q, c + 1, d + 1)
    <3>1. Key[s[c + 1]] # key
      BY <1>6, <1>9
    <3> QED BY <1>1, <1>2, <1>4, <1>5, <3>1, KeptLemma
  <2>4. pp' = CellAt(s, c + 1)
    BY <1>6, <2>1 DEF CellAt
  <2>5. ASSUME NEW i \in iters
        PROVE  Follows(q, Len(b), before.at[i], before.has[i], At(i)', Has(i)')
    <3>1. At(i)' = At(i) /\ Has(i)' = Has(i)
      BY <2>1, FrameLemma
    <3> QED BY <1>4, <3>1
  <2> QED BY <1>7, <2>1, <2>2, <2>3, <2>4, <2>5
<1> QED BY <1>8, <1>9

LEMMA SortLoop ==
  ASSUME Typed, NEW s, Holds(s), Loops(s), SortStep
  PROVE  \E t : Holds(t)' /\ Loops(t)'
<1> DEFINE b == before.items
<1>1. /\ pc = "sort" /\ next[pp] # Null /\ Linked(next, s) /\ Len(s) \in Nat
      /\ s \in Seq(Nodes) /\ IsInjective(s)
      /\ \A n \in 0..Len(s) : next[CellAt(s, n)] = Succ(s, n)
      /\ UNCHANGED <<pc, key, before, iters>>
  BY CellLemma DEF SortStep, Holds, Linked, cursors
<1>2. Entered /\ Entered' /\ b \in Seq(Nodes)
  BY <1>1 DEF Loops, Entered
<1>3. PICK p, c : Sorting(s, p, c)
  BY <1>1 DEF Loops
<1>4. /\ Len(b) > 1 /\ Len(s) = Len(b) /\ c \in 1..Len(s)
      /\ pp = CellAt(s, c) /\ ppPrev = CellAt(s, c - 1)
      /\ Sorted(b, p, c)
      /\ \A n \in 1..Len(s) : s[n] = b[p[n]]
  BY <1>3 DEF Sorting
<1> HIDE DEF b
<1>5. /\ c \in 1..Len(b) - 1 /\ c \in 1..Len(s) - 1 /\ c < Len(s) /\ c \in Nat
      /\ c - 1 \in 0..Len(s) - 2 /\ (c - 1) + 1 = c /\ (c - 1) + 2 = c + 1 /\ c # 0
      /\ c + 1 \in 1..Len(s) /\ c \in 0..Len(s) /\ c - 1 \in 0..Len(s)
  <2>1. c \in 0..Len(s)
    BY <1>1, <1>4
  <2>2. Succ(s, c) # Null
    BY <1>1, <1>4, <2>1
  <2>3. c < Len(s)
    BY <2>2 DEF Succ
  <2> QED BY <1>1, <1>4, <2>3
<1>6. next[pp] = s[c + 1] /\ next[ppPrev] = s[c]
  BY <1>1, <1>4, <1>5 DEF Succ
<1>7. s[c + 1] = b[p[c + 1]] /\ s[c] = b[p[c]]
  BY <1>4, <1>5
<1>8. PICK u : Holds(u)'
  BY SortSteps
<1>9. ASSUME NEW t, NEW r, Linked(next', t), Len(t) = Len(b), pp' = CellAt(t, c + 1),
             ppPrev' = CellAt(t, c), Sorted(b, r, c + 1), \A n \in 1..Len(t) : t[n] = b[r[n]]
      PROVE  Holds(t)' /\ Loops(t)'
  <2>1. Holds(t)'
    <3>1. t = u
      BY <1>8, <1>9, OneSequence
    <3> QED BY <1>8, <3>1
  <2>2. c + 1 \in 1..Len(t) /\ (c + 1) - 1 = c
    BY <1>4, <1>5, <1>9
  <2>3. Sorting(t, r, c + 1)'
    BY <1>1, <1>4, <1>9, <2>2 DEF Sorting, b
  <2> QED BY <1>1, <1>2, <2>1, <2>3 DEF Loops
<1>10. CASE Key[next[pp]] < Key[next[ppPrev]]
  <2>1. /\ next' = [next EXCEPT ![next[pp]] = next[ppPos], ![ppPos] = next[pp], ![pp] = pTmp]
        /\ ppPrev' = PrevAfterMove /\ pp' = pp
    BY <1>10 DEF SortStep
  <2>2. PICK j \in 0..c - 1 :
          LET t == Ins(Del(s, c), j, s[c + 1])
          IN  /\ Linked(next', t) /\ Len(t) = Len(s)
              /\ ppPrev' = CellAt(t, c) /\ pp = CellAt(t, c + 1)
              /\ StopsAt(s[c + 1], s[j + 1])
              /\ \A m \in 1..j : ~StopsAt(s[c + 1], s[m])
    <3>1. ASSUME NEW k \in 0..Len(s) - 2, k = c - 1
          PROVE  \E j \in 0..k :
                   LET t == Ins(Del(s, k + 1), j, s[k + 2])
                   IN  /\ Linked(next', t) /\ Len(t) = Len(s)
                       /\ ppPrev' = CellAt(t, k + 1) /\ pp = CellAt(t, k + 2)
                       /\ StopsAt(s[k + 2], s[j + 1])
                       /\ \A m \in 1..j : ~StopsAt(s[k + 2], s[m])
      <4>1. ppPrev = CellAt(s, k) /\ pp = CellAt(s, k + 1)
        BY <1>4, <1>5, <3>1
      <4> QED BY <1>1, <1>10, <2>1, <4>1, MoveStep
    <3> QED BY <1>5, <3>1
  <2> DEFINE t == Ins(Del(s, c), j, s[c + 1])
             r == Inserted(p, c, j)
  <2>3. /\ Linked(next', t) /\ Len(t) = Len(s)
        /\ ppPrev' = CellAt(t, c) /\ pp = CellAt(t, c + 1)
        /\ Key[s[c + 1]] < Key[s[j + 1]]
        /\ \A m \in 1..j : ~(Key[s[c + 1]] < Key[s[m]])
    BY <2>2 DEF StopsAt
  <2>4. /\ j \in Nat /\ j < c /\ j + 1 \in 1..Len(s) /\ \A m \in 1..j : m \in 1..Len(s)
    BY <1>1, <1>5
  <2>5. Sorted(b, r, c + 1)
    <3>1. Key[b[p[c + 1]]] < Key[b[p[j + 1]]]
      BY <1>4, <1>7, <2>3, <2>4
    <3>2. \A m \in 1..j : ~(Key[b[p[c + 1]]] < Key[b[p[m]]])
      BY <1>4, <1>7, <2>3, <2>4
    <3> HIDE DEF t, r
    <3> QED BY <1>2, <1>4, <1>5, <3>1, <3>2, MovesLemma DEF r
  <2>6. ASSUME NEW n \in 1..Len(s)
        PROVE  t[n] = b[r[n]]
    <3>1. DOMAIN p = 1..Len(s) /\ p[c + 1] = c + 1 /\ \A m \in c + 1..Len(s) : p[m] = m
      BY <1>4, <1>5 DEF Sorted
    <3>2. r[n] = IF n <= j THEN p[n] ELSE IF n = j + 1 THEN c + 1
                 ELSE IF n <= c + 1 THEN p[n - 1] ELSE n
      BY <3>1 DEF Inserted
    <3>3. Len(Del(s, c)) = Len(s) - 1
      BY <1>1, <1>5, DelLength
    <3>4. (Len(s) - 1) + 1 = Len(s)
      BY <1>1
    <3>5. t[n] = IF n <= j THEN Del(s, c)[n] ELSE IF n = j + 1 THEN s[c + 1]
                 ELSE Del(s, c)[n - 1]
      BY <3>3, <3>4 DEF Ins
    <3>6. \A m \in 1..Len(s) - 1 : Del(s, c)[m] = IF m <= c THEN s[m] ELSE s[m + 1]
      BY DEF Del
    <3> HIDE DEF t, r
    <3>7. CASE n <= j
      <4>1. n \in 1..Len(s) - 1 /\ n <= c
        BY <1>1, <1>5, <2>4, <3>7
      <4>2. t[n] = s[n] /\ r[n] = p[n]
        BY <3>2, <3>5, <3>6, <3>7, <4>1
      <4> QED BY <1>4, <4>2
    <3>8. CASE n = j + 1
      <4>1. ~(n <= j)
        BY <2>4, <3>8
      <4>2. t[n] = s[c + 1] /\ r[n] = c + 1
        BY <3>2, <3>5, <3>8, <4>1
      <4> QED BY <1>7, <3>1, <4>2
    <3>9. CASE n > j + 1 /\ n <= c + 1
      <4>1. ~(n <= j) /\ n # j + 1 /\ n - 1 \in 1..Len(s) - 1 /\ n - 1 <= c /\ n - 1 \in 1..Len(s)
        BY <1>1, <1>5, <2>4, <3>9
      <4>2. t[n] = s[n - 1] /\ r[n] = p[n - 1]
        BY <3>2, <3>5, <3>6, <3>9, <4>1
      <4> QED BY <1>4, <4>1, <4>2
    <3>10. CASE n > c + 1
      <4>1. /\ ~(n <= j) /\ n # j + 1 /\ ~(n <= c + 1) /\ n - 1 \in 1..Len(s) - 1 /\ ~(n - 1 <= c)
            /\ (n - 1) + 1 = n /\ n \in c + 1..Len(s)
        BY <1>1, <1>5, <2>4, <3>10
      <4>2. t[n] = s[n] /\ r[n] = n
        BY <3>2, <3>5, <3>6, <4>1
      <4> QED BY <1>4, <3>1, <4>1, <4>2
    <3>11. n <= j \/ n = j + 1 \/ (n > j + 1 /\ n <= c + 1) \/ n > c + 1
      BY <1>5, <2>4
    <3> QED BY <3>7, <3>8, <3>9, <3>10, <3>11
  <2> HIDE DEF t, r
  <2>7. Len(t) = Len(b) /\ pp' = CellAt(t, c + 1) /\ \A n \in 1..Len(t) : t[n] = b[r[n]]
    BY <1>4, <2>1, <2>3, <2>6
  <2> QED BY <1>9, <2>3, <2>5, <2>7
<1>11. CASE ~(Key[next[pp]] < Key[next[ppPrev]])
  <2>1. next' = next /\ ppPrev' = pp /\ pp' = s[c + 1]
    BY <1>6, <1>11 DEF SortStep
  <2>2. Linked(next', s) /\ pp' = CellAt(s, c + 1) /\ ppPrev' = CellAt(s, c)
    BY <1>1, <1>4, <1>5, <2>1 DEF CellAt
  <2>3. ~(Key[b[p[c + 1]]] < Key[b[p[c]]])
    BY <1>6, <1>7, <1>11
  <2>4. Sorted(b, p, c + 1)
    BY <1>2, <1>4, <1>5, <2>3, StaysLemma
  <2> QED BY <1>4, <1>9, <2>2, <2>4
<1> QED BY <1>10, <1>11

(* What happens to the list happens inside a call, but for the two loops. *)
LEMMA StepLemma ==
  ASSUME [Next]_vars
  PROVE  \/ pc' = "idle" \/ UNCHANGED vars \/ DeleteStep \/ SortStep \/ list_sort
         \/ \E k \in {Key[x] : x \in Nodes} : list_delete_all(k)
<1> SUFFICES ASSUME Next, ~DeleteStep, ~SortStep, ~list_sort,
                    ~\E k \in {Key[x] : x \in Nodes} : list_delete_all(k)
             PROVE  pc' = "idle"
  OBVIOUS
<1>1. ASSUME NEW x \in Nodes, list_append(x) \/ list_prepend(x)
      PROVE  pc' = "idle"
  BY <1>1 DEF list_append, list_prepend, list_node_create, loop
<1>2. \A c : pc = "idle" /\ list_node_destroy(c) => pc' = "idle"
  BY DEF list_node_destroy, loop
<1>3. list_pop \/ list_destroy \/ list_sort_short => pc' = "idle"
  BY <1>2 DEF list_pop, list_destroy, list_sort_short, loop
<1>4. ASSUME NEW i \in Iters,
             list_iterator_create(i) \/ list_iterator_reset(i) \/ list_iterator_destroy(i)
      PROVE  pc' = "idle"
  BY <1>4 DEF list_iterator_create, list_iterator_reset, list_iterator_destroy, loop
<1>5. ASSUME NEW i \in Iters, list_next(i) \/ \E k : list_find(i, k)
      PROVE  pc' = "idle"
  BY <1>5 DEF list_next, list_find, Advance, loop
<1>6. ASSUME NEW i \in Iters, list_remove(i) \/ \E x \in Nodes : list_insert(i, x)
      PROVE  pc' = "idle"
  BY <1>2, <1>6 DEF list_remove, list_insert, list_node_create, loop
<1>7. DeleteDone \/ SortDone => pc' = "idle"
  BY DEF DeleteDone, SortDone, Leave
<1> QED BY <1>1, <1>3, <1>4, <1>5, <1>6, <1>7 DEF Next, LoopStep

LEMMA StutterLoops ==
  ASSUME Typed, NEW s, Holds(s), Loops(s), UNCHANGED vars
  PROVE  Holds(s)' /\ Loops(s)'
<1>1. UNCHANGED <<next, tail, count, iters, pos, prev, pc, pp, ppPrev, key, before, ret>>
  BY DEF vars, cursors, loop
<1>2. Holds(s)'
  <2>1. ret' \in Nodes \cup {Null} /\ UNCHANGED <<next, tail, count, cursors, loop, history>>
    BY DEF vars, Typed, TypeOK
  <2> QED BY <2>1, SameStep
<1>3. \A i : At(i)' = At(i) /\ Has(i)' = Has(i)
  BY <1>1, FrameLemma
<1>4. Entered => Entered'
  BY <1>1 DEF Entered
<1>5. ASSUME NEW q, NEW c, NEW d, Deleting(s, q, c, d)
      PROVE  Deleting(s, q, c, d)'
  BY <1>1, <1>3, <1>5 DEF Deleting
<1>6. ASSUME NEW p, NEW c, Sorting(s, p, c)
      PROVE  Sorting(s, p, c)'
  BY <1>1, <1>6 DEF Sorting
<1> QED BY <1>1, <1>2, <1>4, <1>5, <1>6 DEF Loops

LEMMA RNextHolds ==
  ASSUME RInv, [Next]_vars
  PROVE  RInv'
<1>1. PICK s : Holds(s) /\ Loops(s)
  BY DEF RInv
<1>2. Typed
  BY DEF RInv
<1>3. Typed' /\ \E t : Holds(t)'
  BY <1>1, <1>2, NextHolds DEF Inv
<1>4. CASE pc' = "idle"
  <2>1. \A t : Loops(t)'
    BY <1>4 DEF Loops
  <2> QED BY <1>3, <2>1 DEF RInv
<1>5. CASE UNCHANGED vars
  BY <1>1, <1>2, <1>3, <1>5, StutterLoops DEF RInv
<1>6. CASE DeleteStep
  BY <1>1, <1>2, <1>3, <1>6, DeleteLoop DEF RInv
<1>7. CASE SortStep
  BY <1>1, <1>2, <1>3, <1>7, SortLoop DEF RInv
<1>8. CASE list_sort \/ \E k \in {Key[x] : x \in Nodes} : list_delete_all(k)
  <2>1. Holds(s)'
    BY <1>1, <1>2, <1>8, EnterSteps
  <2>2. Loops(s)'
    BY <1>1, <1>2, <1>8, EnterSort, EnterDelete
  <2> QED BY <1>3, <2>1, <2>2 DEF RInv
<1> QED BY <1>4, <1>5, <1>6, <1>7, <1>8, StepLemma

LEMMA RInvHolds == Spec => []RInv
<1>1. Init => RInv
  <2> SUFFICES ASSUME Init PROVE RInv
    OBVIOUS
  <2>1. Inv /\ pc = "idle"
    BY InitHolds DEF Init
  <2> QED BY <2>1 DEF Inv, RInv, Loops
<1>2. RInv /\ [Next]_vars => RInv'
  BY RNextHolds
<1> QED BY <1>1, <1>2, PTL DEF Spec

(***************************************************************************)
(* The steps of the two loops before the last change nothing one can see.  *)
(***************************************************************************)
LEMMA LoopStutters ==
  ASSUME Typed, NEW s, Holds(s),
         \/ DeleteStep \/ SortStep \/ list_sort
         \/ \E k \in {Key[x] : x \in Nodes} : list_delete_all(k)
  PROVE  UNCHANGED Abs!vars
<1>1. ret' = ret
  BY DEF DeleteStep, SortStep, list_sort, list_delete_all
<1>2. CASE DeleteStep \/ SortStep
  <2>1. pc # "idle" /\ pc' # "idle" /\ before' = before
    BY <1>2 DEF DeleteStep, SortStep, loop
  <2>2. AbsItems' = AbsItems /\ AbsAt' = AbsAt /\ AbsHas' = AbsHas
    BY <2>1, ViewLemma, ViewNext
  <2> QED BY <1>1, <2>2 DEF Abs!vars
<1>3. CASE list_sort \/ \E k \in {Key[x] : x \in Nodes} : list_delete_all(k)
  <2>1. /\ pc = "idle" /\ pc' # "idle"
        /\ before' = [items |-> Chain, at |-> [i \in Iters |-> At(i)],
                      has |-> [i \in Iters |-> Has(i)]]
    BY <1>3 DEF list_sort, list_delete_all, Enter
  <2>2. AbsItems' = AbsItems /\ AbsAt' = AbsAt /\ AbsHas' = AbsHas
    BY <2>1, ViewLemma, ViewNext
  <2> QED BY <1>1, <2>2 DEF Abs!vars
<1> QED BY <1>2, <1>3

(* How many there are before one's place. *)
LEMMA CountLemma ==
  ASSUME NEW l \in Nat, NEW a \in 1..l + 1, NEW T, T = {n \in 1..l : n < a}
  PROVE  Cardinality(T) + 1 = a
<1>1. T = 1..a - 1
  OBVIOUS
<1>2. \A x \in Nat : Cardinality(1..x) = x
  BY FS_Interval
<1>3. a - 1 \in Nat /\ (a - 1) + 1 = a
  OBVIOUS
<1> QED BY <1>1, <1>2, <1>3

(* The places of the items that stay; and s is what is at them, in order.  *)
Keeping(b, k) == {n \in DOMAIN b : Key[b[n]] # k}
Chosen(s, q, b, keep) ==
  /\ Cardinality(keep) = Len(s) /\ q \in [1..Len(s) -> keep] /\ Image(q) = keep
  /\ DOMAIN q = 1..Len(s) /\ \A m, n \in 1..Len(s) : m < n => q[m] < q[n]
  /\ \A n \in 1..Len(s) : s[n] = b[q[n]]

LEMMA KeepLemma ==
  ASSUME NEW b \in Seq(Nodes), NEW k, NEW s \in Seq(Nodes), NEW q, NEW d,
         Dropping(b, k, s, q, Len(s), d)
  PROVE  Chosen(s, q, b, Keeping(b, k))
<1> DEFINE keep == Keeping(b, k)
<1>0. keep = {n \in DOMAIN b : Key[b[n]] # k}
  BY DEF Keeping
<1> HIDE DEF keep
<1>1. Len(s) \in Nat /\ Len(b) \in Nat /\ DOMAIN b = 1..Len(b)
  OBVIOUS
<1>2. q \in [1..Len(s) -> 1..Len(b)] /\ DOMAIN q = 1..Len(s)
  BY DEF Dropping
<1>3. \A m, n \in 1..Len(s) : m < n => q[m] < q[n]
  BY DroppingLemma
<1>4. d = Len(b)
  BY PassLemma
<1>5. Image(q) = keep
  <2>1. Image(q) = {m \in 1..Len(b) : m > d \/ Key[b[m]] # k}
    BY DEF Dropping
  <2>2. \A m \in 1..Len(b) : ~(m > d)
    BY <1>1, <1>4
  <2> QED BY <1>0, <1>1, <2>1, <2>2
<1>6. q \in [1..Len(s) -> keep] /\ \A y \in keep : \E n \in 1..Len(s) : q[n] = y
  BY <1>2, <1>5 DEF Image
<1>7. \A m, n \in 1..Len(s) : q[m] = q[n] => m = n
  <2> SUFFICES ASSUME NEW m \in 1..Len(s), NEW n \in 1..Len(s), q[m] = q[n] PROVE m = n
    OBVIOUS
  <2>1. q[m] \in Int /\ ~(q[m] < q[n]) /\ ~(q[n] < q[m])
    BY <1>2
  <2>2. ~(m < n) /\ ~(n < m)
    BY <1>3, <2>1
  <2> QED BY <2>2
<1>8. Cardinality(keep) = Len(s)
  <2>1. q \in Bijection(1..Len(s), keep)
    <3>1. q \in Injection(1..Len(s), keep)
      BY <1>2, <1>6, <1>7 DEF Injection, IsInjective
    <3>2. q \in Surjection(1..Len(s), keep)
      BY <1>6 DEF Surjection
    <3> QED BY <3>1, <3>2 DEF Bijection
  <2>2. ExistsBijection(1..Len(s), keep)
    BY <2>1 DEF ExistsBijection
  <2>3. \A x \in Nat : IsFiniteSet(1..x) /\ Cardinality(1..x) = x
    BY FS_Interval
  <2>4. IsFiniteSet(1..Len(s)) /\ Cardinality(1..Len(s)) = Len(s)
    BY <1>1, <2>3
  <2> QED BY <2>2, <2>4, FS_Bijection
<1>9. \A n \in 1..Len(s) : s[n] = b[q[n]]
  BY DEF Dropping
<1> QED BY <1>2, <1>3, <1>5, <1>6, <1>8, <1>9 DEF Chosen, keep

(* ListAbs counts alike. *)
LEMMA CardinalityLemma == \A T : Abs!Cardinality(T) = Cardinality(T)
BY DEF Abs!Cardinality, Cardinality

(***************************************************************************)
(* The end of each loop is the step of ListAbs: q is the places kept, and  *)
(* p the order of the places that is ascending and stable.                 *)
(***************************************************************************)
LEMMA DeleteAbs ==
  ASSUME Typed, NEW s, Holds(s), Loops(s), DeleteDone
  PROVE  \E k \in {Key[x] : x \in Nodes} : Abs!list_delete_all(k)
<1> DEFINE b == before.items
           l == Len(s)
           keep == Keeping(b, key)
<1>1. /\ pc = "delete" /\ pc' = "idle" /\ next[pp] = Null /\ ret' = Null
      /\ UNCHANGED <<next, iters, pos, prev>>
  BY DEF DeleteDone, Leave, cursors
<1>2. /\ Linked(next, s) /\ l \in Nat /\ s \in Seq(Nodes) /\ Chain = s /\ iters \subseteq Iters
      /\ \A n \in 0..l : next[CellAt(s, n)] = Succ(s, n)
      /\ \A n \in 1..l : s[n] # Null
      /\ \A i \in Iters : Has(i) \in BOOLEAN /\ At(i) \in 0..l + 1
      /\ \A i \in Iters : At(i) > 0 <=> i \in iters
  BY <1>1, PlacesTyped, CellLemma, NodesAssumption DEF Holds, Linked, Typed, TypeOK, Cells
<1>3. Entered /\ b \in Seq(Nodes) /\ Len(b) \in Nat /\ key \in {Key[x] : x \in Nodes}
  BY <1>1 DEF Loops, Entered
<1>4. PICK q, c, d : Deleting(s, q, c, d)
  BY <1>1 DEF Loops
<1>5. /\ Dropping(b, key, s, q, c, d) /\ pp = CellAt(s, c)
      /\ \A i \in iters : Follows(q, Len(b), before.at[i], before.has[i], At(i), Has(i))
  BY <1>4 DEF Deleting
<1>6. c = l
  <2>1. c \in 0..l
    BY <1>5 DEF Dropping
  <2>2. Succ(s, c) = Null
    BY <1>1, <1>2, <1>5, <2>1
  <2>3. CASE c < l
    <3>1. c + 1 \in 1..l
      BY <1>2, <2>1, <2>3
    <3> QED BY <1>2, <2>2, <2>3, <3>1 DEF Succ
  <2> QED BY <1>2, <2>1, <2>3
<1>7. /\ AbsItems = b /\ AbsAt = before.at /\ AbsHas = before.has
      /\ AbsItems' = s /\ AbsAt' = [i \in Iters |-> At(i)]
      /\ AbsHas' = [i \in Iters |-> Has(i)]
  <2>1. Chain' = Chain /\ \A i \in Iters : At(i)' = At(i) /\ Has(i)' = Has(i)
    <3>1. Chain' = Chain
      BY <1>1 DEF Chain, Walk
    <3> QED BY <1>1, <3>1, FrameLemma
  <2> QED BY <1>1, <1>2, <2>1, ViewLemma, ViewNext
<1> HIDE DEF b, keep
<1>8. /\ Cardinality(keep) = l /\ q \in [1..l -> keep] /\ Image(q) = keep
      /\ DOMAIN q = 1..l /\ \A m, n \in 1..l : m < n => q[m] < q[n]
      /\ \A n \in 1..l : s[n] = b[q[n]]
  <2>1. Dropping(b, key, s, q, Len(s), d)
    BY <1>5, <1>6
  <2>2. Chosen(s, q, b, keep)
    BY <1>2, <1>3, <2>1, KeepLemma DEF keep
  <2> QED BY <2>2 DEF Chosen
<1> HIDE DEF l
<1>9. AbsItems' = Abs!Taken(q)
  <2>1. s = [n \in 1..l |-> s[n]]
    BY <1>2 DEF l
  <2> QED BY <1>7, <1>8, <2>1 DEF Abs!Taken
<1>10. ASSUME NEW i \in Iters
       PROVE  /\ At(i) = IF ~(AbsAt[i] > 0) THEN 0
                         ELSE Cardinality({n \in DOMAIN q : q[n] < AbsAt[i]}) + 1
              /\ Has(i) = (/\ AbsHas[i] /\ AbsAt[i] - 1 \in keep
                           /\ AbsAt[i] <= Len(b) => AbsAt[i] \in keep)
  <2>1. /\ AbsAt[i] \in 0..Len(b) + 1 /\ AbsHas[i] \in BOOLEAN
        /\ AbsAt[i] > 0 <=> i \in iters
    BY <1>3, <1>7 DEF Entered, b
  <2>2. CASE i \in iters
    <3>1. At(i) \in 1..l + 1
      BY <1>2, <2>2
    <3>2. /\ \A n \in 1..l : n < At(i) <=> q[n] < AbsAt[i]
          /\ Has(i) <=> /\ AbsHas[i] /\ AbsAt[i] - 1 \in keep
                        /\ AbsAt[i] <= Len(b) => AbsAt[i] \in keep
      BY <1>5, <1>7, <1>8, <2>2 DEF Follows
    <3>3. {n \in DOMAIN q : q[n] < AbsAt[i]} = {n \in 1..l : n < At(i)}
      BY <1>8, <3>2
    <3>4. Cardinality({n \in DOMAIN q : q[n] < AbsAt[i]}) + 1 = At(i)
      BY <1>2, <3>1, <3>3, CountLemma
    <3>5. Has(i) \in BOOLEAN
      BY <1>2
    <3> QED BY <2>1, <2>2, <3>2, <3>4, <3>5
  <2>3. CASE i \notin iters
    <3>1. At(i) = 0 /\ Has(i) = FALSE
      BY <2>3, AbsentLemma
    <3>2. AbsAt[i] = 0 /\ ~(AbsAt[i] > 0)
      BY <1>3, <2>1, <2>3
    <3>3. AbsAt[i] - 1 \notin keep
      BY <1>3, <3>2 DEF keep, Keeping
    <3> QED BY <3>1, <3>2, <3>3
  <2> QED BY <2>2, <2>3
<1>11. AbsAt' = [i \in Iters |-> IF ~(AbsAt[i] > 0) THEN 0
                   ELSE Abs!Cardinality({n \in DOMAIN q : q[n] < AbsAt[i]}) + 1]
  BY <1>7, <1>10, CardinalityLemma
<1>12. AbsHas' = [i \in Iters |-> AbsHas[i] /\ AbsAt[i] - 1 \in keep
                                 /\ (AbsAt[i] <= Len(AbsItems) => AbsAt[i] \in keep)]
  BY <1>7, <1>10
<1>13. keep = {n \in DOMAIN AbsItems : Key[AbsItems[n]] # key}
  BY <1>7 DEF keep, Keeping
<1>14. Abs!list_delete_all(key)
  <2>1. q \in [1..Abs!Cardinality(keep) -> keep]
    BY <1>8, CardinalityLemma
  <2>2. \A m, n \in DOMAIN q : m < n => q[m] < q[n]
    BY <1>8
  <2> QED BY <1>1, <1>9, <1>11, <1>12, <1>13, <2>1, <2>2 DEF Abs!list_delete_all, Abs!Exists
<1> QED BY <1>3, <1>14

LEMMA SortAbs ==
  ASSUME Typed, NEW s, Holds(s), Loops(s), SortDone
  PROVE  Abs!list_sort
<1> DEFINE b == before.items
           l == Len(s)
<1>1. /\ pc = "sort" /\ pc' = "idle" /\ next[pp] = Null /\ ret' = Null
      /\ UNCHANGED <<next, iters>> /\ StartOver(iters)
  BY DEF SortDone, Leave
<1>2. /\ Linked(next, s) /\ l \in Nat /\ s \in Seq(Nodes) /\ Chain = s /\ iters \subseteq Iters
      /\ \A n \in 0..l : next[CellAt(s, n)] = Succ(s, n)
      /\ \A n \in 1..l : s[n] # Null
  BY ChainLemma, CellLemma, NodesAssumption DEF Holds, Linked, Typed, TypeOK, Cells
<1>3. Entered /\ b \in Seq(Nodes) /\ Len(b) \in Nat /\ DOMAIN b = 1..Len(b)
  BY <1>1 DEF Loops, Entered
<1>4. PICK p, c : Sorting(s, p, c)
  BY <1>1 DEF Loops
<1>5. /\ Len(b) > 1 /\ l = Len(b) /\ c \in 1..l /\ pp = CellAt(s, c)
      /\ Sorted(b, p, c) /\ \A n \in 1..l : s[n] = b[p[n]]
  BY <1>4 DEF Sorting
<1>6. c = l
  <2>1. c \in 0..l
    BY <1>2, <1>5
  <2>2. Succ(s, c) = Null
    BY <1>1, <1>2, <1>5, <2>1
  <2>3. CASE c < l
    <3>1. c + 1 \in 1..l
      BY <1>2, <2>1, <2>3
    <3> QED BY <1>2, <2>2, <2>3, <3>1 DEF Succ
  <2> QED BY <1>2, <2>1, <2>3
<1>7. Chain' = s
  <2>1. Linked(next', s)
    BY <1>1, <1>2
  <2> QED BY <2>1, ChainNext
<1>8. /\ AbsItems = b /\ AbsAt = before.at /\ AbsHas = before.has
      /\ AbsItems' = s /\ AbsAt' = [i \in Iters |-> At(i)']
      /\ AbsHas' = [i \in Iters |-> Has(i)']
  BY <1>1, <1>7, ViewLemma, ViewNext
<1> HIDE DEF b
<1>9. ASSUME NEW i \in Iters
      PROVE  /\ At(i)' = IF AbsAt[i] > 0 THEN 1 ELSE 0
             /\ Has(i)' = FALSE
  <2>1. AbsAt[i] > 0 <=> i \in iters
    BY <1>3, <1>8 DEF Entered
  <2>2. CASE i \in iters
    <3>1. Cursor(s, prev'[i], pos'[i], 0, 0)
      BY <1>1, <1>2, <2>2, StartOverStep
    <3>2. Linked(next', s) /\ i \in iters'
      BY <1>1, <1>2, <2>2
    <3>3. At(i)' = 0 + 1 /\ Has(i)' = (0 = 0 + 1)
      BY <3>1, <3>2, PlacedNext
    <3>4. 0 + 1 = 1 /\ (0 = 0 + 1) = FALSE
      OBVIOUS
    <3> QED BY <2>1, <2>2, <3>3, <3>4, Zenon
  <2>3. CASE i \notin iters
    <3>1. At(i)' = 0 /\ Has(i)' = FALSE
      BY <1>1, <2>3, AbsentNext
    <3> QED BY <2>1, <2>3, <3>1
  <2> QED BY <2>2, <2>3
<1>10. /\ AbsAt' = [i \in Iters |-> IF AbsAt[i] > 0 THEN 1 ELSE 0]
       /\ AbsHas' = [i \in Iters |-> FALSE]
  BY <1>8, <1>9
<1>11. /\ p \in [DOMAIN b -> DOMAIN b] /\ DOMAIN p = 1..l
       /\ \A m, n \in DOMAIN p : m < n => Before(b, p[m], p[n])
  <2>1. p \in [1..l -> 1..l] /\ \A m, n \in 1..l : m < n => Before(b, p[m], p[n])
    BY <1>5, <1>6 DEF Sorted
  <2> QED BY <1>3, <1>5, <2>1
<1>12. AbsItems' = Abs!Taken(p)
  <2>1. s = [n \in 1..l |-> s[n]]
    BY <1>2
  <2> QED BY <1>5, <1>8, <1>11, <2>1 DEF Abs!Taken
<1> QED BY <1>1, <1>5, <1>8, <1>10, <1>11, <1>12 DEF Abs!list_sort, Abs!Exists, Before

(***************************************************************************)
(* The other calls, each a step of the sequence.                           *)
(***************************************************************************)

(* A call that only returns. *)
LEMMA QuietAbs ==
  ASSUME pc = "idle", UNCHANGED <<next, tail, count, cursors, loop, history>>
  PROVE  AbsItems' = AbsItems /\ AbsAt' = AbsAt /\ AbsHas' = AbsHas
<1>1. UNCHANGED <<next, iters, pos, prev>> /\ pc' = "idle"
  BY DEF cursors, loop
<1>2. \A i : At(i)' = At(i) /\ Has(i)' = Has(i)
  BY <1>1, FrameLemma
<1>3. Chain' = Chain
  BY <1>1 DEF Chain, Walk
<1> QED BY <1>1, <1>2, <1>3, ViewLemma, ViewNext

LEMMA EndsAbs ==
  ASSUME Typed, NEW s, Holds(s), NEW x \in Nodes
  PROVE  /\ list_append(x) => Abs!list_append(x)
         /\ list_prepend(x) => Abs!list_prepend(x)
<1> SUFFICES ASSUME list_append(x) \/ list_prepend(x)
             PROVE  /\ list_append(x) => Abs!list_append(x)
                    /\ list_prepend(x) => Abs!list_prepend(x)
  OBVIOUS
<1>1. pc = "idle"
  BY DEF list_append, list_prepend
<1>2. /\ Chain = s /\ Len(s) \in Nat /\ tail = CellAt(s, Len(s)) /\ HeadCell = CellAt(s, 0)
      /\ Len(s) \in 0..Len(s) /\ 0 \in 0..Len(s) /\ 0 + 1 = 1
  BY <1>1, PlacesTyped DEF Holds, CellAt
<1>3. AbsItems = s
  BY <1>1, <1>2, ViewLemma
<1>4. ASSUME list_append(x)
      PROVE  Abs!list_append(x)
  <2>1. list_node_create(CellAt(s, Len(s)), x)
    BY <1>2, <1>4 DEF list_append
  <2>2. Abs!Insert(Len(s) + 1, x)
    BY <1>1, <1>2, <2>1, CreateAbs
  <2> QED BY <1>3, <2>2 DEF Abs!list_append
<1>5. ASSUME list_prepend(x)
      PROVE  Abs!list_prepend(x)
  <2>1. list_node_create(CellAt(s, 0), x)
    BY <1>2, <1>5 DEF list_prepend
  <2>2. Abs!Insert(0 + 1, x)
    BY <1>1, <1>2, <2>1, CreateAbs
  <2> QED BY <1>2, <2>2 DEF Abs!list_prepend
<1> QED BY <1>4, <1>5

LEMMA PopAbs ==
  ASSUME Typed, NEW s, Holds(s), list_pop
  PROVE  Abs!list_pop
<1>1. pc = "idle"
  BY DEF list_pop
<1>2. /\ Chain = s /\ Len(s) \in Nat /\ s \in Seq(Nodes) /\ HeadCell = CellAt(s, 0)
      /\ 0 \in 0..Len(s) /\ 0 + 1 = 1
  BY <1>1, PlacesTyped DEF CellAt
<1>3. AbsItems = s
  BY <1>1, <1>2, ViewLemma
<1>4. list_node_destroy(CellAt(s, 0))
  BY <1>2 DEF list_pop
<1>5. IF 0 < Len(s) THEN Abs!Delete(0 + 1) ELSE Abs!Nothing
  BY <1>1, <1>2, <1>4, DestroyAbs
<1>6. s = <<>> <=> ~(0 < Len(s))
  BY <1>2
<1> QED BY <1>2, <1>3, <1>5, <1>6 DEF Abs!list_pop

(* Where an iterator stands, as the pointers and as the sequence have it. *)
LEMMA PlaceAbs ==
  ASSUME Typed, NEW s, Holds(s), pc = "idle", NEW i \in Iters, i \in iters
  PROVE  \E k \in 0..Len(s), a \in 0..Len(s) :
           /\ prev[i] = CellAt(s, k) /\ (a = k \/ a = k + 1)
           /\ next[prev[i]] # pos[i] <=> a = k + 1
           /\ AbsAt[i] = a + 1 /\ AbsHas[i] = (a = k + 1)
           /\ Abs!Exists(i)
<1>1. Linked(next, s) /\ Stands(s, i) /\ Len(s) \in Nat
  BY PlacesTyped DEF Holds
<1>2. PICK k, a : Cursor(s, prev[i], pos[i], k, a)
  BY <1>1 DEF Stands
<1>3. At(i) = a + 1 /\ Has(i) = (a = k + 1)
  <2>1. Linked(next, s)
    BY <1>1
  <2> QED BY <1>2, <2>1, PlaceLemma
<1>4. /\ k \in 0..Len(s) /\ a \in 0..Len(s) /\ (a = k \/ a = k + 1)
      /\ prev[i] = CellAt(s, k)
  BY <1>2 DEF Cursor
<1>5. Has(i) <=> next[prev[i]] # pos[i]
  BY DEF Has
<1>6. AbsAt[i] = At(i) /\ AbsHas[i] = Has(i)
  BY ViewLemma
<1>7. a + 1 > 0
  BY <1>1, <1>4
<1> QED BY <1>3, <1>4, <1>5, <1>6, <1>7 DEF Abs!Exists

LEMMA InsertAbs ==
  ASSUME Typed, NEW s, Holds(s), NEW i \in Iters, NEW x \in Nodes, list_insert(i, x)
  PROVE  Abs!list_insert(i, x)
<1>1. pc = "idle" /\ i \in iters /\ list_node_create(prev[i], x) /\ Len(s) \in Nat
  BY PlacesTyped DEF list_insert
<1>2. PICK k \in 0..Len(s), a \in 0..Len(s) :
        /\ prev[i] = CellAt(s, k) /\ (a = k \/ a = k + 1)
        /\ next[prev[i]] # pos[i] <=> a = k + 1
        /\ AbsAt[i] = a + 1 /\ AbsHas[i] = (a = k + 1)
        /\ Abs!Exists(i)
  BY <1>1, PlaceAbs
<1>3. Abs!Insert(k + 1, x)
  <2>1. list_node_create(CellAt(s, k), x)
    BY <1>1, <1>2
  <2> QED BY <1>1, <2>1, CreateAbs
<1>4. (IF AbsHas[i] THEN AbsAt[i] - 1 ELSE AbsAt[i]) = k + 1
  <2>1. CASE a = k
    <3>1. (a = k + 1) = FALSE
      BY <1>1, <2>1
    <3>2. AbsHas[i] = FALSE
      BY <1>2, <3>1
    <3>3. AbsAt[i] = k + 1
      BY <1>2, <2>1
    <3> QED BY <3>2, <3>3
  <2>2. CASE a = k + 1
    <3>1. (a = k + 1) = TRUE /\ (a + 1) - 1 = k + 1
      BY <1>1, <2>2
    <3>2. AbsHas[i] = TRUE
      BY <1>2, <3>1
    <3>3. AbsAt[i] - 1 = k + 1
      BY <1>2, <3>1
    <3> QED BY <3>2, <3>3
  <2> QED BY <1>2, <2>1, <2>2
<1> QED BY <1>2, <1>3, <1>4 DEF Abs!list_insert

LEMMA RemoveAbs ==
  ASSUME Typed, NEW s, Holds(s), NEW i \in Iters, list_remove(i)
  PROVE  Abs!list_remove(i)
<1>1. pc = "idle" /\ i \in iters /\ Len(s) \in Nat
  BY PlacesTyped DEF list_remove
<1>2. PICK k \in 0..Len(s), a \in 0..Len(s) :
        /\ prev[i] = CellAt(s, k) /\ (a = k \/ a = k + 1)
        /\ next[prev[i]] # pos[i] <=> a = k + 1
        /\ AbsAt[i] = a + 1 /\ AbsHas[i] = (a = k + 1)
        /\ Abs!Exists(i)
  BY <1>1, PlaceAbs
<1>3. CASE a = k + 1
  <2>1. list_node_destroy(CellAt(s, k))
    BY <1>2, <1>3 DEF list_remove
  <2>2. IF k < Len(s) THEN Abs!Delete(k + 1) ELSE Abs!Nothing
    BY <1>1, <2>1, DestroyAbs
  <2>3. k < Len(s) /\ (k + 1) + 1 - 1 = k + 1
    BY <1>1, <1>3
  <2>4. AbsHas[i] = TRUE
    <3>1. (a = k + 1) = TRUE
      BY <1>3
    <3> QED BY <1>2, <3>1
  <2>5. AbsAt[i] - 1 = k + 1
    BY <1>2, <1>3, <2>3
  <2>6. Abs!Delete(AbsAt[i] - 1)
    BY <2>2, <2>3, <2>5
  <2> QED BY <1>2, <2>4, <2>6 DEF Abs!list_remove
<1>4. CASE ~(a = k + 1)
  <2>1. ret' = Null /\ UNCHANGED <<next, tail, count, cursors, loop, history>>
    BY <1>2, <1>4 DEF list_remove
  <2>2. AbsItems' = AbsItems /\ AbsAt' = AbsAt /\ AbsHas' = AbsHas
    BY <1>1, <2>1, QuietAbs
  <2>3. AbsHas[i] = FALSE
    BY <1>2, <1>4
  <2> QED BY <1>2, <2>1, <2>2, <2>3 DEF Abs!list_remove, Abs!Nothing
<1> QED BY <1>3, <1>4

LEMMA ClearAbs ==
  ASSUME Typed, list_destroy
  PROVE  Abs!list_destroy
<1>1. pc' = "idle" /\ iters' = {} /\ ret' = Null
  BY DEF list_destroy, loop
<1>2. Holds(<<>>)'
  BY ClearStep
<1>3. Chain' = <<>>
  <2>1. Linked(next', <<>>)
    BY <1>2 DEF Holds
  <2> QED BY <2>1, ChainNext
<1>4. \A i \in Iters : At(i)' = 0 /\ Has(i)' = FALSE
  BY <1>1, AbsentNext
<1> QED BY <1>1, <1>3, <1>4, ViewNext DEF Abs!list_destroy

LEMMA ShortAbs ==
  ASSUME Typed, NEW s, Holds(s), list_sort_short
  PROVE  Abs!list_sort
<1>1. /\ pc = "idle" /\ count <= 1 /\ ret' = Null
      /\ UNCHANGED <<next, tail, count, cursors, loop, history>>
  BY DEF list_sort_short
<1>2. /\ Chain = s /\ Len(s) \in Nat /\ s \in Seq(Nodes) /\ count = Len(s)
      /\ DOMAIN s = 1..Len(s)
  BY <1>1, PlacesTyped DEF Holds
<1>3. AbsItems = s
  BY <1>1, <1>2, ViewLemma
<1>4. AbsItems' = AbsItems /\ AbsAt' = AbsAt /\ AbsHas' = AbsHas
  BY <1>1, QuietAbs
<1> DEFINE p == [n \in DOMAIN s |-> n]
<1>5. p \in [DOMAIN s -> DOMAIN s] /\ DOMAIN p = DOMAIN s /\ \A n \in DOMAIN s : p[n] = n
  OBVIOUS
<1> HIDE DEF p
<1>6. \A m, n \in DOMAIN p : ~(m < n)
  BY <1>1, <1>2, <1>5
<1>7. AbsItems' = Abs!Taken(p)
  <2>1. s = [n \in DOMAIN p |-> s[p[n]]]
    BY <1>2, <1>5
  <2> QED BY <1>3, <1>4, <2>1 DEF Abs!Taken
<1>8. Len(AbsItems) <= 1
  BY <1>1, <1>2, <1>3
<1> QED BY <1>1, <1>3, <1>4, <1>5, <1>6, <1>7, <1>8 DEF Abs!list_sort

(* Nothing seen moves when nothing moves. *)
LEMMA StutterAbs ==
  ASSUME UNCHANGED vars
  PROVE  UNCHANGED Abs!vars
<1>1. /\ UNCHANGED <<next, iters, pos, prev, pc, before, ret>>
  BY DEF vars, cursors, loop
<1>2. Chain' = Chain /\ \A i : At(i)' = At(i) /\ Has(i)' = Has(i)
  <2>1. Chain' = Chain
    BY <1>1 DEF Chain, Walk
  <2> QED BY <1>1, <2>1, FrameLemma
<1>3. CASE pc = "idle"
  BY <1>1, <1>2, <1>3, ViewLemma, ViewNext DEF Abs!vars
<1>4. CASE pc # "idle"
  BY <1>1, <1>4, ViewLemma, ViewNext DEF Abs!vars
<1> QED BY <1>3, <1>4

LEMMA InitAbs ==
  ASSUME Init
  PROVE  Abs!Init
<1>1. pc = "idle" /\ iters = {} /\ ret = Null /\ Linked(next, <<>>)
  BY EmptyList DEF Init
<1>2. Chain = <<>>
  BY <1>1, ChainLemma
<1>3. \A i \in Iters : At(i) = 0 /\ Has(i) = FALSE
  BY <1>1, AbsentLemma
<1> QED BY <1>1, <1>2, <1>3, ViewLemma DEF Abs!Init

LEMMA StepAbs ==
  ASSUME RInv, [Next]_vars
  PROVE  [Abs!Next]_(Abs!vars)
<1>1. PICK s : Holds(s) /\ Loops(s)
  BY DEF RInv
<1>2. Typed
  BY DEF RInv
<1>3. CASE UNCHANGED vars
  BY <1>3, StutterAbs
<1>4. ASSUME NEW x \in Nodes, list_append(x) \/ list_prepend(x)
      PROVE  Abs!Next
  <2>1. Abs!list_append(x) \/ Abs!list_prepend(x)
    BY <1>1, <1>2, <1>4, EndsAbs
  <2> QED BY <2>1 DEF Abs!Next
<1>5. list_pop => Abs!Next
  <2>1. list_pop => Abs!list_pop
    BY <1>1, <1>2, PopAbs
  <2> QED BY <2>1 DEF Abs!Next
<1>6. list_destroy => Abs!Next
  <2>1. list_destroy => Abs!list_destroy
    BY <1>2, ClearAbs
  <2> QED BY <2>1 DEF Abs!Next
<1>7. list_sort_short \/ SortDone => Abs!Next
  <2>1. list_sort_short \/ SortDone => Abs!list_sort
    BY <1>1, <1>2, ShortAbs, SortAbs
  <2> QED BY <2>1 DEF Abs!Next
<1>8. DeleteDone => Abs!Next
  <2>1. DeleteDone => \E k \in {Key[x] : x \in Nodes} : Abs!list_delete_all(k)
    BY <1>1, <1>2, DeleteAbs
  <2> QED BY <2>1 DEF Abs!Next
<1>9. ASSUME NEW i \in Iters,
             list_iterator_create(i) \/ list_iterator_reset(i) \/ list_iterator_destroy(i)
      PROVE  Abs!Next
  <2>1. \/ Abs!list_iterator_create(i) \/ Abs!list_iterator_reset(i)
        \/ Abs!list_iterator_destroy(i)
    BY <1>1, <1>2, <1>9, IteratorAbs
  <2> QED BY <2>1 DEF Abs!Next
<1>10. ASSUME NEW i \in Iters, list_next(i) \/ list_remove(i)
       PROVE  Abs!Next
  <2>1. Abs!list_next(i) \/ Abs!list_remove(i)
    BY <1>1, <1>2, <1>10, NextAbs, RemoveAbs
  <2> QED BY <2>1 DEF Abs!Next
<1>11. ASSUME NEW i \in Iters, NEW x \in Nodes, list_insert(i, x)
       PROVE  Abs!Next
  <2>1. Abs!list_insert(i, x)
    BY <1>1, <1>2, <1>11, InsertAbs
  <2> QED BY <2>1 DEF Abs!Next
<1>12. ASSUME NEW k \in {Key[x] : x \in Nodes}, NEW i \in Iters, list_find(i, k)
       PROVE  Abs!Next
  <2>1. Abs!list_find(i, k)
    BY <1>1, <1>2, <1>12, FindAbs
  <2> QED BY <2>1 DEF Abs!Next
<1>13. CASE \/ DeleteStep \/ SortStep \/ list_sort
            \/ \E k \in {Key[x] : x \in Nodes} : list_delete_all(k)
  BY <1>1, <1>2, <1>13, LoopStutters
<1> QED BY <1>3, <1>4, <1>5, <1>6, <1>7, <1>8, <1>9, <1>10, <1>11, <1>12, <1>13
        DEF Next, LoopStep

(***************************************************************************)
(* list.c implements the sequence with cursors of ListAbs.                 *)
(***************************************************************************)
THEOREM ListImplementsSequence == Spec => ListImplemented
<1>1. Init => Abs!Init
  BY InitAbs
<1>2. RInv /\ [Next]_vars => [Abs!Next]_(Abs!vars)
  BY StepAbs
<1> QED BY <1>1, <1>2, RInvHolds, PTL DEF Spec, ListImplemented, Abs!Spec

(***************************************************************************)
(* A behaviour of the containers is a behaviour of the list: a step of a   *)
(* hash leaves list.c's nodes, iterators and loops alone.                  *)
(***************************************************************************)
THEOREM ListApart == ContainersSpec => Spec
<1>1. ContainersInit => Init
  BY DEF ContainersInit
<1>2. [ContainersNext]_<<vars, hvars, used>> => [Next]_vars
  BY DEF ContainersNext, UseList, UseHash, vars
<1> QED BY <1>1, <1>2, PTL DEF ContainersSpec, Spec

(***************************************************************************)
(* The theorems about list.c, of the specification TLC checks.             *)
(***************************************************************************)
THEOREM ListsAreKept == ContainersSpec => []WellFormed /\ Traverses /\ RemovesNoOther
BY ListApart, ListIsWellFormed, TraversalsAreComplete, RemovesLastReturned

(***************************************************************************)
(* list.c is a sequence with cursors in it: list_sort leaves the items     *)
(* ascending and equal ones as they were, list_delete_all leaves exactly   *)
(* those that do not match, in their order, and every iterator is where    *)
(* the items it has passed put it.                                         *)
(***************************************************************************)
THEOREM ListsAreSequences == ContainersSpec => ListImplemented
BY ListApart, ListImplementsSequence

(***************************************************************************)
(* The hashes.  Hash is instantiated here a second time, with its          *)
(* theorems, and the two instances say the same.                           *)
(***************************************************************************)
HP == INSTANCE HashProofs WITH i <- slot, pp <- cell, ret <- hret

LEMMA SameLibrary ==
  /\ \A T : H!IsFiniteSet(T) = HP!IsFiniteSet(T)
  /\ \A T : H!Cardinality(T) = HP!Cardinality(T)
  /\ \A q : H!ToSet(q) = HP!ToSet(q)
  /\ \A q : H!IsInjective(q) = HP!IsInjective(q)
<1>1. \A T : H!IsFiniteSet(T) = HP!IsFiniteSet(T)
  BY DEF H!IsFiniteSet, HP!IsFiniteSet
<1>2. \A T : H!Cardinality(T) = HP!Cardinality(T)
  BY DEF H!Cardinality, HP!Cardinality
<1>3. \A q : H!ToSet(q) = HP!ToSet(q)
  BY DEF H!ToSet, HP!ToSet
<1>4. \A q : H!IsInjective(q) = HP!IsInjective(q)
  BY DEF H!IsInjective, HP!IsInjective
<1> QED BY <1>1, <1>2, <1>3, <1>4

LEMMA SameCells ==
  /\ \A t : H!Slots(t) = HP!Slots(t)
  /\ \A C : H!Allocated(C) = HP!Allocated(C)
  /\ H!FreeList = HP!FreeList /\ H!Addresses = HP!Addresses
  /\ H!Heads = HP!Heads /\ H!Cells = HP!Cells
BY DEF H!Slots, HP!Slots, H!Allocated, HP!Allocated, H!FreeList, HP!FreeList,
       H!Addresses, HP!Addresses, H!Heads, HP!Heads, H!Cells, HP!Cells

LEMMA ConstantsHold == HP!HashConstants
BY TablesAssumption, SameLibrary, SameCells, Zenon DEF H!HashConstants, HP!HashConstants

LEMMA SameLookup ==
  /\ \A c : H!Chain(c) = HP!Chain(c)
  /\ \A t : H!NodesIn(t) = HP!NodesIn(t)
  /\ \A t, k : H!Slot(t, k) = HP!Slot(t, k)
  /\ \A t, k : H!Lookup(t, k) = HP!Lookup(t, k)
  /\ \A t, k : H!hash_find(t, k) = HP!hash_find(t, k)
<1>1. \A c : H!Walk(c) = HP!Walk(c)
  BY DEF H!Walk, HP!Walk
<1>2. \A c : H!Chain(c) = HP!Chain(c)
  BY <1>1, SameLibrary DEF H!Chain, HP!Chain
<1>3. \A t : H!NodesIn(t) = HP!NodesIn(t)
  BY <1>2, SameLibrary, SameCells DEF H!NodesIn, HP!NodesIn
<1>4. \A t, k : H!Slot(t, k) = HP!Slot(t, k)
  BY DEF H!Slot, HP!Slot, H!hash_key_string, HP!hash_key_string
<1>5. \A t, k : H!Lookup(t, k) = HP!Lookup(t, k)
  <2> SUFFICES ASSUME NEW t, NEW k
               PROVE  H!Lookup(t, k) = HP!Lookup(t, k)
    OBVIOUS
  <2> DEFINE s == HP!Chain(HP!Slot(t, k))
             I == {m \in 1..Len(s) : hkey[s[m]] = k}
  <2>1. H!Chain(H!Slot(t, k)) = s
    BY <1>2, <1>4
  <2>2. \A T : H!Min(T) = HP!Min(T)
    BY DEF H!Min, HP!Min
  <2>3. HP!Lookup(t, k) = IF I # {} THEN HP!Min(I) ELSE 0
    BY DEF HP!Lookup, HP!SelectInSeq
  <2> HIDE DEF s
  <2>4. H!Lookup(t, k) = IF I # {} THEN H!Min(I) ELSE 0
    BY <2>1 DEF H!Lookup, H!SelectInSeq
  <2> QED BY <2>2, <2>3, <2>4
<1>6. \A t, k : H!hash_find(t, k) = HP!hash_find(t, k)
  BY <1>2, <1>4, <1>5 DEF H!hash_find, HP!hash_find
<1> QED BY <1>2, <1>3, <1>4, <1>5, <1>6

LEMMA SameInit == H!Init => HP!Init
BY SameCells DEF H!Init, HP!Init

LEMMA SameNext == H!Next => HP!Next
<1>1. ASSUME NEW t \in Tables
      PROVE  /\ H!hash_create(t) => HP!hash_create(t)
             /\ H!hash_destroy(t) => HP!hash_destroy(t)
             /\ \A K : H!hash_delete_if(t, K) => HP!hash_delete_if(t, K)
  BY DEF H!hash_create, HP!hash_create, H!hash_destroy, HP!hash_destroy,
         H!hash_delete_if, HP!hash_delete_if, H!Loop, HP!Loop, H!Calls,
         HP!Calls, H!nodes, HP!nodes, H!loop, HP!loop
<1>2. ASSUME NEW t \in Tables, H!LoopStep(t)
      PROVE  HP!LoopStep(t)
  BY <1>2 DEF H!LoopStep, HP!LoopStep, H!FreeNext, HP!FreeNext, H!KeepNext,
              HP!KeepNext, H!NextSlot, HP!NextSlot, H!Return, HP!Return,
              H!FreeNode, HP!FreeNode, H!hash_node_free, HP!hash_node_free,
              H!Forget, HP!Forget, H!FreeList, HP!FreeList, H!nodes, HP!nodes,
              H!loop, HP!loop
<1>3. \A l, c, p : H!FreeNode(l, c, p) = HP!FreeNode(l, c, p)
  BY DEF H!FreeNode, HP!FreeNode, H!hash_node_free, HP!hash_node_free,
         H!FreeList, HP!FreeList
<1>4. ASSUME NEW t \in Tables, NEW k \in Keys, H!hash_remove(t, k)
      PROVE  HP!hash_remove(t, k)
  BY <1>3, <1>4, SameLookup DEF H!hash_remove, HP!hash_remove, H!Calls,
                                HP!Calls, H!Forget, HP!Forget, H!nodes,
                                HP!nodes, H!loop, HP!loop
<1>5. H!Refilled = HP!Refilled
  BY SameCells DEF H!Refilled, HP!Refilled, H!NewChunk, HP!NewChunk
<1>6. ASSUME NEW t \in Tables, NEW k \in Keys, NEW d \in Items,
             H!WithCaller(d), H!hash_insert(t, k, d)
      PROVE  HP!WithCaller(d) /\ HP!hash_insert(t, k, d)
  BY <1>5, <1>6, SameLookup, SameCells DEF H!hash_insert, HP!hash_insert,
                                           H!Exists, HP!Exists, H!Calls,
                                           HP!Calls, H!WithCaller,
                                           HP!WithCaller, H!nodes, HP!nodes,
                                           H!loop, HP!loop
<1> QED BY <1>1, <1>2, <1>4, <1>6 DEF H!Next, HP!Next

THEOREM HashesApart == ContainersSpec => HP!Spec
<1>1. ContainersInit => HP!Init
  BY SameInit DEF ContainersInit
<1>2. [ContainersNext]_<<vars, hvars, used>> => [HP!Next]_(HP!vars)
  BY SameNext DEF ContainersNext, UseList, UseHash, hvars, HP!vars, HP!nodes, HP!loop
<1> QED BY <1>1, <1>2, PTL DEF ContainersSpec, HP!Spec

(***************************************************************************)
(* The two theorems about hash.c, of the specification TLC checks: every   *)
(* node allocated is in one place, and the hashes implement maps.          *)
(***************************************************************************)
THEOREM NodesAreKept == ContainersSpec => []NodesAccounted
<1>1. ASSUME HP!NodesAccounted
      PROVE  H!NodesAccounted
  <2> DEFINE chains == {<<h, H!Chain(h)>> : h \in H!Heads}
  <2>1. chains = {<<h, HP!Chain(h)>> : h \in HP!Heads}
    BY SameCells, SameLookup
  <2> HIDE DEF chains
  <2>2. /\ UNION {HP!ToSet(c[2]) : c \in chains} = HP!Allocated(chunks)
        /\ \A c \in chains : HP!IsInjective(c[2])
        /\ \A c, d \in chains : c[1] # d[1] => HP!ToSet(c[2]) \cap HP!ToSet(d[2]) = {}
        /\ \A t \in live :
             /\ call[t] # "destroy" => HP!hash_count(t) = HP!Cardinality(HP!NodesIn(t))
             /\ \A p \in HP!NodesIn(t) : HP!hash_find(t, hkey[p]) = data[p]
             /\ \A c \in chains : c[1] \in HP!Slots(t) =>
                  \A p \in HP!ToSet(c[2]) : HP!Slot(t, hkey[p]) = c[1]
    BY <1>1, <2>1 DEF HP!NodesAccounted
  <2>3. /\ UNION {H!ToSet(c[2]) : c \in chains} = H!Allocated(chunks)
        /\ \A c \in chains : H!IsInjective(c[2])
        /\ \A c, d \in chains : c[1] # d[1] => H!ToSet(c[2]) \cap H!ToSet(d[2]) = {}
    BY <2>2, SameLibrary, SameCells
  <2>4. ASSUME NEW t \in live
        PROVE  /\ call[t] # "destroy" => H!hash_count(t) = H!Cardinality(H!NodesIn(t))
               /\ \A p \in H!NodesIn(t) : H!hash_find(t, hkey[p]) = data[p]
               /\ \A c \in chains : c[1] \in H!Slots(t) =>
                    \A p \in H!ToSet(c[2]) : H!Slot(t, hkey[p]) = c[1]
    <3>1. H!hash_count(t) = HP!hash_count(t)
      BY DEF H!hash_count, HP!hash_count
    <3>2. H!Cardinality(H!NodesIn(t)) = HP!Cardinality(HP!NodesIn(t))
      BY SameLibrary, SameLookup
    <3>3. \A p \in H!NodesIn(t) : H!hash_find(t, hkey[p]) = data[p]
      BY <2>2, SameLookup
    <3>4. \A c \in chains : c[1] \in H!Slots(t) =>
            \A p \in H!ToSet(c[2]) : H!Slot(t, hkey[p]) = c[1]
      <4>1. \A c : H!ToSet(c) = HP!ToSet(c)
        BY SameLibrary
      <4>2. H!Slots(t) = HP!Slots(t) /\ \A k : H!Slot(t, k) = HP!Slot(t, k)
        BY SameCells, SameLookup
      <4> QED BY <2>2, <4>1, <4>2
    <3> QED BY <2>2, <3>1, <3>2, <3>3, <3>4
  <2> QED BY <2>3, <2>4 DEF H!NodesAccounted, chains
<1>2. HP!NodesAccounted => NodesAccounted
  BY <1>1 DEF NodesAccounted
<1>3. HP!Spec => []HP!NodesAccounted
  BY ConstantsHold, HP!NodesAreAccounted
<1> QED BY <1>2, <1>3, HashesApart, PTL

THEOREM HashesAreMaps == ContainersSpec => HashImplemented
<1>1. HP!Spec => HP!Implemented
  BY ConstantsHold, HP!HashImplementsMaps
<1>2. \A t : H!Contents(t) = HP!Contents(t) /\ H!Doomed(t) = HP!Doomed(t)
  BY SameLookup DEF H!Contents, HP!Contents, H!Doomed, HP!Doomed
<1>3. /\ [t \in Tables |-> H!Contents(t)] = [t \in Tables |-> HP!Contents(t)]
      /\ UNION {H!Doomed(t) : t \in Tables} = UNION {HP!Doomed(t) : t \in Tables}
  BY <1>2
<1>4. (/\ [t \in Tables |-> H!Contents(t)] = [t \in Tables |-> HP!Contents(t)]
       /\ UNION {H!Doomed(t) : t \in Tables} = UNION {HP!Doomed(t) : t \in Tables})'
  BY <1>3, PTL
<1>5. HP!Abs!Init => H!Abs!Init
  BY <1>3 DEF H!Abs!Init, HP!Abs!Init
<1>6. ASSUME NEW t \in Tables
      PROVE  /\ HP!Abs!Create(t) => H!Abs!Create(t)
             /\ HP!Abs!Destroy(t) => H!Abs!Destroy(t)
             /\ HP!Abs!InsertFails(t) => H!Abs!InsertFails(t)
  BY <1>3, <1>4 DEF H!Abs!Create, HP!Abs!Create, H!Abs!Destroy,
                    HP!Abs!Destroy, H!Abs!InsertFails, HP!Abs!InsertFails,
                    H!Abs!ItemsOf, HP!Abs!ItemsOf
<1>7. ASSUME NEW t \in Tables, NEW k \in Keys
      PROVE  /\ HP!Abs!Remove(t, k) => H!Abs!Remove(t, k)
             /\ \A d \in Items : HP!Abs!Insert(t, k, d) => H!Abs!Insert(t, k, d)
  BY <1>3, <1>4 DEF H!Abs!Remove, HP!Abs!Remove, H!Abs!Insert, HP!Abs!Insert,
                    H!Abs!With, HP!Abs!With
<1>8. ASSUME NEW t \in Tables, NEW K \in SUBSET Keys
      PROVE  HP!Abs!DeleteIf(t, K) => H!Abs!DeleteIf(t, K)
  BY <1>3, <1>4 DEF H!Abs!DeleteIf, HP!Abs!DeleteIf, H!Abs!ItemsOf,
                    HP!Abs!ItemsOf, H!Abs!With, HP!Abs!With
<1>9. HP!Abs!Next => H!Abs!Next
  BY <1>6, <1>7, <1>8 DEF H!Abs!Next, HP!Abs!Next
<1>10. UNCHANGED HP!Abs!vars => UNCHANGED H!Abs!vars
  BY <1>3, <1>4 DEF H!Abs!vars, HP!Abs!vars
<1>11. [HP!Abs!Next]_(HP!Abs!vars) => [H!Abs!Next]_(H!Abs!vars)
  BY <1>9, <1>10
<1> QED BY <1>1, <1>5, <1>11, HashesApart, PTL
        DEF HashImplemented, H!Implemented, HP!Implemented, H!Abs!Spec, HP!Abs!Spec
=============================================================================
