--------------------------- MODULE HashTableProofs ---------------------------
(***************************************************************************)
(* The hash table, for any set of nodes, any keys and any table of chain   *)
(* counts.                                                                 *)
(*                                                                         *)
(* The inductive invariant is that each chain holds nodes whose keys lead  *)
(* to it, no node twice, and that n_elements counts them; and that the     *)
(* nodes an iteration has still to return are those behind the iterator.   *)
(* That growing the table keeps it is an induction over the nodes that     *)
(* resize moves, in the form of UpTo: over a set, with a least element.    *)
(***************************************************************************)
EXTENDS HashTable, SequenceTheorems, FiniteSetTheorems, WellFoundedInduction, TLAPS

-----------------------------------------------------------------------------
(* Induction, and functions defined by it.                                 *)

\* A set of natural numbers that is not empty has a least element.
LEMMA LeastNat ==
  ASSUME NEW T, T \subseteq Nat, T # {}
  PROVE  \E x \in T : \A y \in T : x <= y
<1> DEFINE R == OpToRel(<, Nat)
<1>1. IsWellFoundedOn(R, Nat)
  BY NatLessThanWellFounded
<1>2. \E x \in T : \A y \in T : ~ (<<y, x>> \in R)
  <2> HIDE DEF R
  <2> QED BY <1>1, WFMin
<1>3. \A x, y \in Nat : <<y, x>> \in R <=> y < x
  BY DEF OpToRel
<1> HIDE DEF R
<1>4. PICK x \in T : \A y \in T : ~ (<<y, x>> \in R)
  BY <1>2
<1>5. ASSUME NEW y \in T PROVE x <= y
  <2>1. x \in Nat /\ y \in Nat
    OBVIOUS
  <2>2. ~ (<<y, x>> \in R)
    BY <1>4
  <2>3. ~ (y < x)
    BY <1>3, <2>1, <2>2, Zenon
  <2> QED BY <2>1, <2>3
<1> QED BY <1>5

\* Induction up to n over a set.
LEMMA UpTo ==
  ASSUME NEW n \in Nat, NEW S, 0 \in S, \A k \in 0..n : k \in S /\ k < n => k + 1 \in S
  PROVE  0..n \subseteq S
<1> SUFFICES ASSUME ~ (0..n \subseteq S) PROVE FALSE
  OBVIOUS
<1> DEFINE T == {k \in 0..n : k \notin S}
<1>1. T \subseteq Nat /\ T # {}
  OBVIOUS
<1>2. PICK x \in T : \A y \in T : x <= y
  BY <1>1, LeastNat
<1>3. x # 0 /\ x - 1 \in 0..n /\ x - 1 \notin T /\ x - 1 < n
  BY <1>2
<1> QED BY <1>2, <1>3

\* G[k] is the step from the value at k - 1 to the value at k, and f takes these
\* steps from a on.
StepsUpTo(n, G, V) == \A k \in 1..n : \A v \in V : G[k][v] \in V
Takes(f, n, G, a, V) == /\ f \in [0..n -> V] /\ f[0] = a
                        /\ \A k \in 1..n : f[k] = G[k][f[k - 1]]

\* A function can be defined on 0..n by its first value and its steps.
LEMMA StepwiseFunction ==
  ASSUME NEW n \in Nat, NEW V, NEW a \in V, NEW G, StepsUpTo(n, G, V)
  PROVE  \E f : Takes(f, n, G, a, V)
<1> USE DEF StepsUpTo
<1> DEFINE Good(f, m) == f[0] = a /\ \A k \in 1..m : f[k] = G[k][f[k - 1]]
           S == {m \in 0..n : \E f \in [0..m -> V] : Good(f, m)}
<1>1. 0 \in S
  <2> DEFINE z == [k \in 0..0 |-> a]
  <2>1. z \in [0..0 -> V] /\ Good(z, 0) /\ 0 \in 0..n
    OBVIOUS
  <2> HIDE DEF z
  <2> QED BY <2>1
<1>2. ASSUME NEW m \in 0..n, m \in S, m < n PROVE m + 1 \in S
  <2>1. PICK f \in [0..m -> V] : Good(f, m)
    BY <1>2
  <2> DEFINE g == [k \in 0..(m + 1) |-> IF k = m + 1 THEN G[m + 1][f[m]] ELSE f[k]]
  <2>2. f[m] \in V /\ m + 1 \in 1..n /\ G[m + 1][f[m]] \in V
    <3>1. f[m] \in V /\ m + 1 \in 1..n
      BY <1>2
    <3> QED BY <3>1
  <2>3. g \in [0..(m + 1) -> V]
    <3>1. \A k \in 0..(m + 1) : k # m + 1 => k \in 0..m
      BY <1>2
    <3> QED BY <2>2, <3>1
  <2>4. \A k \in 0..m : g[k] = f[k]
    BY <1>2
  <2>5. g[m + 1] = G[m + 1][f[m]]
    BY <1>2
  <2> HIDE DEF g
  <2>6. g[0] = a
    BY <1>2, <2>1, <2>4
  <2>7. ASSUME NEW k \in 1..(m + 1) PROVE g[k] = G[k][g[k - 1]]
    <3>1. CASE k = m + 1
      <4>1. k - 1 = m /\ m \in 0..m
        BY <1>2, <3>1
      <4> QED BY <2>4, <2>5, <3>1, <4>1
    <3>2. CASE k \in 1..m
      <4>1. k \in 0..m /\ k - 1 \in 0..m
        BY <1>2, <3>2
      <4> QED BY <2>1, <2>4, <3>2, <4>1
    <3> QED BY <1>2, <3>1, <3>2
  <2>8. m + 1 \in 0..n
    BY <1>2
  <2> QED BY <2>3, <2>6, <2>7, <2>8
<1> HIDE DEF S
<1>3. 0..n \subseteq S
  BY <1>1, <1>2, UpTo
<1>4. n \in S
  BY <1>3
<1> QED BY <1>4 DEF S, Takes

-----------------------------------------------------------------------------
(* Chains.                                                                 *)

In(n, s) == \E i \in 1..Len(s) : s[i] = n
Once(s) == \A i, j \in 1..Len(s) : s[i] = s[j] => i = j

\* A node in front of a chain.
LEMMA InFront ==
  ASSUME NEW n \in Nodes, NEW s \in Seq(Nodes)
  PROVE  /\ <<n>> \o s \in Seq(Nodes)
         /\ \A m : In(m, <<n>> \o s) <=> m = n \/ In(m, s)
         /\ Once(s) /\ ~In(n, s) => Once(<<n>> \o s)
<1> DEFINE t == <<n>> \o s
           l == Len(s)
<1>1. /\ l \in Nat /\ t \in Seq(Nodes) /\ Len(t) = 1 + l /\ t[1] = n
      /\ \A i \in 1..l : t[1 + i] = s[i]
  OBVIOUS
<1> HIDE DEF t, l
<1>2. ASSUME NEW i \in 1..Len(t) PROVE i = 1 \/ \E j \in 1..l : i = 1 + j /\ t[i] = s[j]
  <2> SUFFICES ASSUME i # 1 PROVE \E j \in 1..l : i = 1 + j /\ t[i] = s[j]
    OBVIOUS
  <2>1. i - 1 \in 1..l /\ i = 1 + (i - 1)
    BY <1>1
  <2> QED BY <1>1, <2>1
<1>3. ASSUME NEW m PROVE In(m, t) <=> m = n \/ In(m, s)
  <2>1. ASSUME In(m, t) PROVE m = n \/ In(m, s)
    BY <1>1, <1>2, <2>1 DEF In, l
  <2>2. ASSUME m = n PROVE In(m, t)
    <3>1. 1 \in 1..Len(t)
      BY <1>1
    <3> QED BY <1>1, <2>2, <3>1 DEF In
  <2>3. ASSUME In(m, s) PROVE In(m, t)
    <3>1. PICK j \in 1..l : s[j] = m
      BY <2>3 DEF In, l
    <3>2. 1 + j \in 1..Len(t)
      BY <1>1
    <3> QED BY <1>1, <3>1, <3>2 DEF In
  <2> QED BY <2>1, <2>2, <2>3
<1>4. ASSUME Once(s), ~In(n, s) PROVE Once(t)
  <2>1. \A j \in 1..l : s[j] # n
    BY <1>4 DEF In, l
  <2>2. \A i, j \in 1..l : s[i] = s[j] => i = j
    BY <1>4 DEF Once, l
  <2> SUFFICES ASSUME NEW i \in 1..Len(t), NEW j \in 1..Len(t), t[i] = t[j] PROVE i = j
    BY DEF Once
  <2>3. CASE i = 1
    BY <1>1, <1>2, <2>1, <2>3
  <2>4. CASE j = 1
    BY <1>1, <1>2, <2>1, <2>4
  <2>5. CASE i # 1 /\ j # 1
    <3>1. PICK x \in 1..l : i = 1 + x /\ t[i] = s[x]
      BY <1>2, <2>5
    <3>2. PICK y \in 1..l : j = 1 + y /\ t[j] = s[y]
      BY <1>2, <2>5
    <3> QED BY <2>2, <3>1, <3>2
  <2> QED BY <2>3, <2>4, <2>5
<1> QED BY <1>1, <1>3, <1>4 DEF t

\* What RemoveAt leaves.
LEMMA Removed ==
  ASSUME NEW s \in Seq(Nodes), NEW i \in 1..Len(s)
  PROVE  /\ RemoveAt(s, i) \in Seq(Nodes) /\ Len(RemoveAt(s, i)) = Len(s) - 1
         /\ \A j \in 1..Len(s) - 1 : RemoveAt(s, i)[j] = IF j < i THEN s[j] ELSE s[j + 1]
<1> DEFINE a == SubSeq(s, 1, i - 1)
           b == SubSeq(s, i + 1, Len(s))
           l == Len(s)
<1>1. l \in Nat /\ i \in 1..l
  OBVIOUS
<1>2. /\ a \in Seq(Nodes) /\ Len(a) = i - 1 /\ \A j \in 1..i - 1 : a[j] = s[j]
  <2>1. \A j \in 1..i - 1 : j \in 1..l
    BY <1>1
  <2> QED BY <1>1, <2>1
<1>3. /\ b \in Seq(Nodes) /\ Len(b) = l - i /\ \A j \in 1..l - i : b[j] = s[i + j]
  <2>1. \A j \in i + 1 .. l : j \in 1..l
    BY <1>1
  <2>2. b \in Seq(Nodes)
    BY <1>1, <2>1
  <2>3. Len(b) = l - i /\ \A j \in 1..l - i : b[j] = s[i + j]
    BY <1>1, <2>1
  <2> QED BY <2>2, <2>3
<1>4. RemoveAt(s, i) = a \o b
  BY DEF RemoveAt
<1> HIDE DEF a, b
<1> DEFINE r == a \o b
<1>5. /\ r \in Seq(Nodes) /\ Len(r) = Len(a) + Len(b)
      /\ \A j \in 1..Len(a) : r[j] = a[j]
      /\ \A j \in 1..Len(b) : r[Len(a) + j] = b[j]
  <2>1. a \in Seq(Nodes) /\ b \in Seq(Nodes)
    BY <1>2, <1>3
  <2> QED BY ONLY <2>1
<1> HIDE DEF r
<1>6. Len(r) = l - 1
  BY <1>1, <1>2, <1>3, <1>5
<1>7. ASSUME NEW j \in 1..l - 1 PROVE r[j] = IF j < i THEN s[j] ELSE s[j + 1]
  <2>1. CASE j < i
    <3>1. j \in 1..Len(a) /\ j \in 1..i - 1
      BY <1>1, <1>2, <2>1
    <3> QED BY <1>2, <1>5, <2>1, <3>1
  <2>2. CASE ~(j < i)
    <3> DEFINE k == j - (i - 1)
    <3>1. k \in 1..Len(b) /\ k \in 1..l - i /\ j = Len(a) + k /\ i + k = j + 1
      BY <1>1, <1>2, <1>3, <2>2
    <3> HIDE DEF k
    <3>2. r[j] = b[k] /\ b[k] = s[i + k]
      BY <1>3, <1>5, <3>1
    <3> QED BY <2>2, <3>1, <3>2
  <2> QED BY <2>1, <2>2
<1> QED BY <1>4, <1>5, <1>6, <1>7 DEF r, l

\* A node taken out of a chain.
LEMMA TakenOut ==
  ASSUME NEW s \in Seq(Nodes), Once(s), NEW i \in 1..Len(s)
  PROVE  /\ Once(RemoveAt(s, i))
         /\ \A m : In(m, RemoveAt(s, i)) <=> In(m, s) /\ m # s[i]
<1> DEFINE r == RemoveAt(s, i)
           l == Len(s)
<1>1. /\ l \in Nat /\ i \in 1..l /\ Len(r) = l - 1
      /\ \A j \in 1..l - 1 : r[j] = IF j < i THEN s[j] ELSE s[j + 1]
  BY Removed
<1>2. \A j, k \in 1..l : s[j] = s[k] => j = k
  BY DEF Once
<1> HIDE DEF r, l
<1>3. ASSUME NEW j \in 1..l - 1
      PROVE  \E k \in 1..l : k # i /\ r[j] = s[k] /\ k = IF j < i THEN j ELSE j + 1
  <2>1. CASE j < i
    <3>1. j \in 1..l /\ j # i
      BY <1>1, <2>1
    <3> QED BY <1>1, <2>1, <3>1
  <2>2. CASE ~(j < i)
    <3>1. j + 1 \in 1..l /\ j + 1 # i
      BY <1>1, <2>2
    <3> QED BY <1>1, <2>2, <3>1
  <2> QED BY <2>1, <2>2
<1>4. Once(r)
  <2> SUFFICES ASSUME NEW j \in 1..l - 1, NEW k \in 1..l - 1, r[j] = r[k] PROVE j = k
    BY <1>1 DEF Once
  <2>1. PICK x \in 1..l : r[j] = s[x] /\ x = IF j < i THEN j ELSE j + 1
    BY <1>3
  <2>2. PICK y \in 1..l : r[k] = s[y] /\ y = IF k < i THEN k ELSE k + 1
    BY <1>3
  <2>3. x = y
    BY <1>2, <2>1, <2>2
  <2>4. i \in Nat /\ j \in Nat /\ k \in Nat
    BY <1>1
  <2> QED BY <2>1, <2>2, <2>3, <2>4
<1>5. ASSUME NEW m PROVE In(m, r) <=> In(m, s) /\ m # s[i]
  <2>1. ASSUME In(m, r) PROVE In(m, s) /\ m # s[i]
    <3>1. PICK j \in 1..l - 1 : r[j] = m
      BY <1>1, <2>1 DEF In
    <3>2. PICK k \in 1..l : k # i /\ m = s[k]
      BY <1>3, <3>1
    <3> QED BY <1>1, <1>2, <3>2 DEF In, l
  <2>2. ASSUME In(m, s), m # s[i] PROVE In(m, r)
    <3>1. PICK k \in 1..l : s[k] = m
      BY <2>2 DEF In, l
    <3>2. k # i
      BY <2>2, <3>1
    <3>3. CASE k < i
      <4>1. k \in 1..l - 1
        BY <1>1, <3>3
      <4> QED BY <1>1, <3>1, <3>3, <4>1 DEF In
    <3>4. CASE ~(k < i)
      <4> DEFINE j == k - 1
      <4>1. j \in 1..l - 1 /\ ~(j < i) /\ j + 1 = k
        BY <1>1, <3>2, <3>4
      <4> HIDE DEF j
      <4> QED BY <1>1, <3>1, <4>1 DEF In
    <3> QED BY <3>3, <3>4
  <2> QED BY <2>1, <2>2
<1> QED BY <1>4, <1>5 DEF r

\* Two chains one behind the other.
LEMMA Joined ==
  ASSUME NEW s \in Seq(Nodes), NEW t \in Seq(Nodes)
  PROVE  /\ s \o t \in Seq(Nodes)
         /\ \A m : In(m, s \o t) <=> In(m, s) \/ In(m, t)
         /\ Once(s) /\ Once(t) /\ (\A m : ~(In(m, s) /\ In(m, t))) => Once(s \o t)
<1> DEFINE r == s \o t
           l == Len(s)
           k == Len(t)
<1>1. /\ l \in Nat /\ k \in Nat /\ r \in Seq(Nodes) /\ Len(r) = l + k
      /\ \A i \in 1..l : r[i] = s[i]
      /\ \A i \in 1..k : r[l + i] = t[i]
  OBVIOUS
<1> HIDE DEF r, l, k
<1>2. ASSUME NEW i \in 1..Len(r)
      PROVE  \/ i \in 1..l /\ r[i] = s[i]
             \/ \E j \in 1..k : i = l + j /\ r[i] = t[j]
  <2>1. CASE i <= l
    BY <1>1, <2>1
  <2>2. CASE ~(i <= l)
    <3>1. i - l \in 1..k /\ i = l + (i - l)
      BY <1>1, <2>2
    <3> QED BY <1>1, <3>1
  <2> QED BY <2>1, <2>2
<1>3. ASSUME NEW m PROVE In(m, r) <=> In(m, s) \/ In(m, t)
  <2>1. ASSUME In(m, r) PROVE In(m, s) \/ In(m, t)
    BY <1>2, <2>1 DEF In, l, k
  <2>2. ASSUME In(m, s) PROVE In(m, r)
    <3>1. PICK i \in 1..l : s[i] = m
      BY <2>2 DEF In, l
    <3>2. i \in 1..Len(r)
      BY <1>1
    <3> QED BY <1>1, <3>1, <3>2 DEF In
  <2>3. ASSUME In(m, t) PROVE In(m, r)
    <3>1. PICK i \in 1..k : t[i] = m
      BY <2>3 DEF In, k
    <3>2. l + i \in 1..Len(r)
      BY <1>1
    <3> QED BY <1>1, <3>1, <3>2 DEF In
  <2> QED BY <2>1, <2>2, <2>3
<1>4. ASSUME Once(s), Once(t), \A m : ~(In(m, s) /\ In(m, t)) PROVE Once(r)
  <2>1. \A i, j \in 1..l : s[i] = s[j] => i = j
    BY <1>4 DEF Once, l
  <2>2. \A i, j \in 1..k : t[i] = t[j] => i = j
    BY <1>4 DEF Once, k
  <2>3. \A i \in 1..l, j \in 1..k : s[i] # t[j]
    BY <1>4 DEF In, l, k
  <2> QED BY <1>1, <1>2, <2>1, <2>2, <2>3 DEF Once
<1> QED BY <1>1, <1>3, <1>4 DEF r

-----------------------------------------------------------------------------
(* The table of chains.                                                    *)

\* Every chain holds nodes whose keys lead to it, each once.
Chained(cs, size) ==
  /\ cs \in [0 .. size - 1 -> Seq(Nodes)]
  /\ \A c \in 0 .. size - 1 :
       Once(cs[c]) /\ \A n : In(n, cs[c]) => CHAIN_NO(n.key, size) = c

\* The nodes in the chains their keys lead to.
Held(cs, size) == {n \in Nodes : In(n, cs[CHAIN_NO(n.key, size)])}

\* A key leads to a chain.
LEMMA ChainNo ==
  ASSUME NEW n \in Nodes, NEW size \in Nat \ {0}
  PROVE  CHAIN_NO(n.key, size) \in 0 .. size - 1
<1>1. n.key \in Nat
  BY HashTableAssumption
<1> QED BY <1>1 DEF CHAIN_NO

\* What is in a chain is a node.
LEMMA InNodes ==
  ASSUME NEW s \in Seq(Nodes), NEW n, In(n, s) PROVE n \in Nodes
BY DEF In

\* What is in a chain is held.
LEMMA InHeld ==
  ASSUME NEW size \in Nat \ {0}, NEW cs, Chained(cs, size),
         NEW c \in 0 .. size - 1, NEW n, In(n, cs[c])
  PROVE  n \in Held(cs, size) /\ CHAIN_NO(n.key, size) = c
<1>1. cs[c] \in Seq(Nodes) /\ CHAIN_NO(n.key, size) = c
  BY DEF Chained
<1>2. n \in Nodes
  BY <1>1, InNodes
<1> QED BY <1>1, <1>2 DEF Held

\* One chain is replaced by another.
LEMMA Rechained ==
  ASSUME NEW size \in Nat \ {0}, NEW cs, Chained(cs, size),
         NEW c \in 0 .. size - 1, NEW s \in Seq(Nodes), Once(s),
         \A n : In(n, s) => CHAIN_NO(n.key, size) = c
  PROVE  /\ Chained([cs EXCEPT ![c] = s], size)
         /\ \A m \in Nodes : m \in Held([cs EXCEPT ![c] = s], size) <=>
              IF CHAIN_NO(m.key, size) = c THEN In(m, s) ELSE m \in Held(cs, size)
<1> DEFINE ds == [cs EXCEPT ![c] = s]
<1>1. /\ ds \in [0 .. size - 1 -> Seq(Nodes)] /\ ds[c] = s
      /\ \A d \in 0 .. size - 1 : d # c => ds[d] = cs[d]
  BY DEF Chained
<1> HIDE DEF ds
<1>2. Chained(ds, size)
  BY <1>1 DEF Chained
<1>3. ASSUME NEW m \in Nodes
      PROVE  m \in Held(ds, size) <=>
               IF CHAIN_NO(m.key, size) = c THEN In(m, s) ELSE m \in Held(cs, size)
  <2>1. CHAIN_NO(m.key, size) \in 0 .. size - 1
    BY ChainNo
  <2>2. CASE CHAIN_NO(m.key, size) = c
    BY <1>1, <2>2 DEF Held
  <2>3. CASE CHAIN_NO(m.key, size) # c
    BY <1>1, <2>1, <2>3 DEF Held
  <2> QED BY <2>2, <2>3
<1> QED BY <1>2, <1>3 DEF ds

\* A node is put in front of its chain.
PutIn(cs, n, size) == [cs EXCEPT ![CHAIN_NO(n.key, size)] = <<n>> \o @]

\* A node that is not held is put in front of its chain.
LEMMA PutInFront ==
  ASSUME NEW size \in Nat \ {0}, NEW cs, Chained(cs, size),
         NEW n \in Nodes \ Held(cs, size)
  PROVE  /\ Chained(PutIn(cs, n, size), size)
         /\ Held(PutIn(cs, n, size), size) = Held(cs, size) \cup {n}
<1> DEFINE c == CHAIN_NO(n.key, size)
           s == <<n>> \o cs[c]
<1>1. c \in 0 .. size - 1
  BY ChainNo
<1>2. cs[c] \in Seq(Nodes) /\ Once(cs[c]) /\ \A m : In(m, cs[c]) => CHAIN_NO(m.key, size) = c
  BY <1>1 DEF Chained
<1>3. ~In(n, cs[c])
  BY DEF Held
<1>4. s \in Seq(Nodes) /\ Once(s) /\ \A m : In(m, s) <=> m = n \/ In(m, cs[c])
  BY <1>2, <1>3, InFront
<1> DEFINE ds == [cs EXCEPT ![c] = s]
<1>5. PutIn(cs, n, size) = ds
  BY <1>1 DEF Chained, PutIn
<1> HIDE DEF s
<1>6. \A m : In(m, s) => CHAIN_NO(m.key, size) = c
  BY <1>2, <1>4
<1>7. c = CHAIN_NO(n.key, size)
  OBVIOUS
<1> HIDE DEF c
<1>8. /\ Chained(ds, size)
      /\ \A m \in Nodes : m \in Held(ds, size) <=>
           IF CHAIN_NO(m.key, size) = c THEN In(m, s) ELSE m \in Held(cs, size)
  BY <1>1, <1>4, <1>6, Rechained
<1> HIDE DEF ds
<1>9. Held(ds, size) = Held(cs, size) \cup {n}
  <2>1. Held(ds, size) \subseteq Nodes /\ Held(cs, size) \subseteq Nodes /\ n \in Nodes
    BY DEF Held
  <2>2. ASSUME NEW m \in Nodes
        PROVE  m \in Held(ds, size) <=> m \in Held(cs, size) \/ m = n
    <3>1. CASE CHAIN_NO(m.key, size) = c
      <4>1. m \in Held(cs, size) <=> In(m, cs[c])
        BY <3>1 DEF Held
      <4> QED BY <1>4, <1>8, <3>1, <4>1
    <3>2. CASE CHAIN_NO(m.key, size) # c
      BY <1>7, <1>8, <3>2
    <3> QED BY <3>1, <3>2
  <2> QED BY <2>1, <2>2
<1> QED BY <1>5, <1>8, <1>9

\* The i-th node of a chain is taken out.
TakenFrom(cs, c, i) == [cs EXCEPT ![c] = RemoveAt(@, i)]

\* The table is as before without that node.
LEMMA Unlinked ==
  ASSUME NEW size \in Nat \ {0}, NEW cs, Chained(cs, size),
         NEW c \in 0 .. size - 1, NEW i \in 1 .. Len(cs[c])
  PROVE  /\ Chained(TakenFrom(cs, c, i), size)
         /\ Held(TakenFrom(cs, c, i), size) = Held(cs, size) \ {cs[c][i]}
<1> DEFINE s == RemoveAt(cs[c], i)
           n == cs[c][i]
           ds == [cs EXCEPT ![c] = s]
<1>1. cs[c] \in Seq(Nodes) /\ Once(cs[c]) /\ \A m : In(m, cs[c]) => CHAIN_NO(m.key, size) = c
  BY DEF Chained
<1>2. In(n, cs[c]) /\ n \in Nodes
  BY <1>1 DEF In
<1>3. s \in Seq(Nodes)
  BY <1>1, Removed
<1>4. Once(s) /\ \A m : In(m, s) <=> In(m, cs[c]) /\ m # n
  BY <1>1, TakenOut
<1>5. TakenFrom(cs, c, i) = ds
  BY DEF Chained, TakenFrom
<1> HIDE DEF s, n
<1>6. \A m : In(m, s) => CHAIN_NO(m.key, size) = c
  BY <1>1, <1>4
<1>7. /\ Chained(ds, size)
      /\ \A m \in Nodes : m \in Held(ds, size) <=>
           IF CHAIN_NO(m.key, size) = c THEN In(m, s) ELSE m \in Held(cs, size)
  BY <1>3, <1>4, <1>6, Rechained
<1> HIDE DEF ds
<1>8. Held(ds, size) = Held(cs, size) \ {n}
  <2>1. Held(ds, size) \subseteq Nodes /\ Held(cs, size) \subseteq Nodes
    BY DEF Held
  <2>2. ASSUME NEW m \in Nodes
        PROVE  m \in Held(ds, size) <=> m \in Held(cs, size) /\ m # n
    <3>1. CASE CHAIN_NO(m.key, size) = c
      <4>1. m \in Held(cs, size) <=> In(m, cs[c])
        BY <3>1 DEF Held
      <4> QED BY <1>4, <1>7, <3>1, <4>1
    <3>2. CASE CHAIN_NO(m.key, size) # c
      BY <1>1, <1>2, <1>7, <3>2
    <3> QED BY <3>1, <3>2
  <2> QED BY <2>1, <2>2
<1> QED BY <1>5, <1>7, <1>8 DEF n

-----------------------------------------------------------------------------
(* The chains one behind the other.                                        *)

\* The nodes of the chains below k.
Below(cs, size, k) == {n \in Held(cs, size) : CHAIN_NO(n.key, size) < k}

\* What is gathered from the chains below k.
Gathered(s, cs, size, k) ==
  s \in Seq(Nodes) /\ Once(s) /\ \A m : In(m, s) <=> m \in Below(cs, size, k)

\* The nodes below k + 1 are those below k and those of chain k.
LEMMA BelowNext ==
  ASSUME NEW size \in Nat \ {0}, NEW cs, Chained(cs, size),
         NEW k \in 0 .. size - 1, NEW m
  PROVE  /\ m \in Below(cs, size, k + 1) <=> m \in Below(cs, size, k) \/ In(m, cs[k])
         /\ ~(m \in Below(cs, size, k) /\ In(m, cs[k]))
<1>1. In(m, cs[k]) => m \in Held(cs, size) /\ CHAIN_NO(m.key, size) = k
  BY InHeld
<1>2. m \in Held(cs, size) =>
        /\ CHAIN_NO(m.key, size) \in 0 .. size - 1
        /\ (CHAIN_NO(m.key, size) = k => In(m, cs[k]))
  BY ChainNo DEF Held
<1>3. \A c \in 0 .. size - 1 : (c < k + 1 <=> c < k \/ c = k) /\ (c = k => ~(c < k))
  OBVIOUS
<1> QED BY <1>1, <1>2, <1>3 DEF Below

\* One more chain is gathered.
LEMMA GatherNext ==
  ASSUME NEW size \in Nat \ {0}, NEW cs, Chained(cs, size),
         NEW k \in 0 .. size - 1, NEW s, Gathered(s, cs, size, k)
  PROVE  Gathered(s \o cs[k], cs, size, k + 1)
<1>1. cs[k] \in Seq(Nodes) /\ Once(cs[k])
  BY DEF Chained
<1>2. s \in Seq(Nodes) /\ Once(s) /\ \A m : In(m, s) <=> m \in Below(cs, size, k)
  BY DEF Gathered
<1>3. \A m : /\ m \in Below(cs, size, k + 1) <=> m \in Below(cs, size, k) \/ In(m, cs[k])
             /\ ~(m \in Below(cs, size, k) /\ In(m, cs[k]))
  BY BelowNext
<1>4. \A m : ~(In(m, s) /\ In(m, cs[k]))
  BY <1>2, <1>3
<1>5. /\ s \o cs[k] \in Seq(Nodes) /\ Once(s \o cs[k])
      /\ \A m : In(m, s \o cs[k]) <=> In(m, s) \/ In(m, cs[k])
  BY <1>1, <1>2, <1>4, Joined
<1> QED BY <1>2, <1>3, <1>5 DEF Gathered

\* FlattenSeq is defined by its steps.
LEMMA FlattenIs ==
  ASSUME NEW n \in Nat \ {0}, NEW cs, cs \in [0 .. n - 1 -> Seq(Nodes)]
  PROVE  \E f : /\ f[0] = <<>> /\ \A k \in 1..n : f[k] = f[k - 1] \o cs[k - 1]
                /\ FlattenSeq([i \in 1 .. n |-> cs[i - 1]]) = f[n]
<1> DEFINE q == [i \in 1 .. n |-> cs[i - 1]]
           G == [k \in 1..n |-> [v \in Seq(Nodes) |-> v \o cs[k - 1]]]
<1>1. \A k \in 1..n : k - 1 \in 0 .. n - 1 /\ cs[k - 1] \in Seq(Nodes)
  <2>1. \A k \in 1..n : k - 1 \in 0 .. n - 1
    OBVIOUS
  <2> QED BY <2>1
<1>2. Len(q) = n /\ \A k \in 1..n : q[k] = cs[k - 1] /\ q[k] \in Seq(Nodes)
  <2>1. q \in Seq(Seq(Nodes))
    BY <1>1
  <2>2. DOMAIN q = 1..n
    OBVIOUS
  <2>3. Len(q) = n
    BY <2>1, <2>2, LenProperties
  <2> QED BY <1>1, <2>3
<1>3. \A k \in 1..n : \A v \in Seq(Nodes) : G[k][v] \in Seq(Nodes) /\ G[k][v] = v \o cs[k - 1]
  <2> TAKE k \in 1..n
  <2> TAKE v \in Seq(Nodes)
  <2>1. cs[k - 1] \in Seq(Nodes) /\ v \in Seq(Nodes)
    BY <1>1
  <2>2. v \o cs[k - 1] \in Seq(Nodes)
    BY ONLY <2>1
  <2> QED BY <2>2
<1> HIDE DEF G, q
<1>4. PICK f : Takes(f, n, G, <<>>, Seq(Nodes))
  <2>1. n \in Nat /\ StepsUpTo(n, G, Seq(Nodes)) /\ <<>> \in Seq(Nodes)
    BY <1>3 DEF StepsUpTo
  <2> QED BY <2>1, StepwiseFunction
<1>5. \A k \in 0..n : f[k] \in Seq(Nodes)
  BY <1>4 DEF Takes
<1>6. f[0] = <<>> /\ \A k \in 1..n : f[k] = f[k - 1] \o cs[k - 1]
  <2>1. \A k \in 1..n : k - 1 \in 0..n
    OBVIOUS
  <2> QED BY <1>3, <1>4, <1>5, <2>1 DEF Takes
<1> DEFINE h == [k \in 1..n |-> f[k]]
<1>7. \A k \in 1..n : h[k] = f[k]
  OBVIOUS
<1>8. h = [i \in 1..n |-> IF i = 1 THEN q[i] ELSE h[i - 1] \o q[i]]
  <2>1. \A i \in 1..n : f[i] = IF i = 1 THEN q[i] ELSE h[i - 1] \o q[i]
    <3> TAKE i \in 1..n
    <3>1. f[i] = f[i - 1] \o q[i]
      BY <1>2, <1>6
    <3>2. CASE i = 1
      <4>1. f[i - 1] = <<>> /\ q[i] \in Seq(Nodes)
        BY <1>2, <1>6, <3>2
      <4>2. <<>> \o q[i] = q[i]
        BY <4>1
      <4> QED BY <3>1, <3>2, <4>1, <4>2
    <3>3. CASE i # 1
      <4>1. i - 1 \in 1..n
        BY <3>3
      <4> QED BY <1>7, <3>1, <3>3, <4>1
    <3> QED BY <3>2, <3>3
  <2> QED BY <2>1
<1> DEFINE b == CHOOSE g : g = [i \in 1..n |-> IF i = 1 THEN q[i] ELSE g[i - 1] \o q[i]]
<1> HIDE DEF h
<1>9. b = [i \in 1..n |-> IF i = 1 THEN q[i] ELSE b[i - 1] \o q[i]]
  BY <1>8
<1>10. FlattenSeq(q) = b[n]
  BY <1>2 DEF FlattenSeq
<1> HIDE DEF b
<1>11. 0..n \subseteq {k \in 0..n : k = 0 \/ b[k] = f[k]}
  <2> DEFINE S == {k \in 0..n : k = 0 \/ b[k] = f[k]}
  <2>1. 0 \in S
    OBVIOUS
  <2>2. ASSUME NEW k \in 0..n, k \in S, k < n PROVE k + 1 \in S
    <3>1. k + 1 \in 1..n /\ k + 1 \in 0..n /\ (k + 1) - 1 = k
      BY <2>2
    <3>2. f[k + 1] = f[k] \o q[k + 1]
      BY <1>2, <1>6, <3>1
    <3>3. CASE k = 0
      <4>1. f[k] = <<>> /\ q[k + 1] \in Seq(Nodes)
        BY <1>2, <1>6, <3>1, <3>3
      <4>2. f[k + 1] = q[k + 1]
        BY <3>2, <4>1
      <4>3. b[k + 1] = q[k + 1]
        BY <1>9, <3>1, <3>3
      <4> QED BY <3>1, <4>2, <4>3
    <3>4. CASE k # 0
      <4>1. k + 1 # 1
        BY <3>4
      <4>2. b[k + 1] = b[(k + 1) - 1] \o q[k + 1]
        BY <1>9, <3>1, <4>1, Zenon
      <4>3. b[k + 1] = b[k] \o q[k + 1]
        BY <3>1, <4>2
      <4>4. b[k] = f[k]
        BY <2>2, <3>4
      <4> QED BY <3>1, <3>2, <4>3, <4>4
    <3> QED BY <3>3, <3>4
  <2> HIDE DEF S
  <2>3. 0..n \subseteq S
    BY <2>1, <2>2, UpTo
  <2> QED BY <2>3 DEF S
<1>12. b[n] = f[n]
  BY <1>11
<1> QED BY <1>6, <1>10, <1>12 DEF q

\* The chains one behind the other hold every node once.
LEMMA Flattened ==
  ASSUME NEW size \in Nat \ {0}, NEW cs, Chained(cs, size)
  PROVE  LET a == FlattenSeq([i \in 1 .. size |-> cs[i - 1]])
         IN a \in Seq(Nodes) /\ Once(a) /\ \A m : In(m, a) <=> m \in Held(cs, size)
<1>1. PICK f : /\ f[0] = <<>> /\ \A k \in 1..size : f[k] = f[k - 1] \o cs[k - 1]
               /\ FlattenSeq([i \in 1 .. size |-> cs[i - 1]]) = f[size]
  <2>1. cs \in [0 .. size - 1 -> Seq(Nodes)]
    BY DEF Chained
  <2> QED BY <2>1, FlattenIs
<1>2. 0..size \subseteq {k \in 0..size : Gathered(f[k], cs, size, k)}
  <2> DEFINE S == {k \in 0..size : Gathered(f[k], cs, size, k)}
  <2>1. 0 \in S
    <3>1. <<>> \in Seq(Nodes) /\ Once(<<>>) /\ \A m : ~In(m, <<>>)
      BY DEF Once, In
    <3>2. \A m : m \notin Below(cs, size, 0)
      BY ChainNo DEF Below, Held
    <3>3. Gathered(<<>>, cs, size, 0)
      BY <3>1, <3>2 DEF Gathered
    <3>4. Gathered(f[0], cs, size, 0)
      BY <1>1, <3>3, Zenon
    <3> QED BY <3>4
  <2>2. ASSUME NEW k \in 0..size, k \in S, k < size PROVE k + 1 \in S
    <3>1. k \in 0 .. size - 1 /\ k + 1 \in 1..size /\ k + 1 \in 0..size /\ (k + 1) - 1 = k
      BY <2>2
    <3>2. Gathered(f[k] \o cs[k], cs, size, k + 1)
      BY <2>2, <3>1, GatherNext
    <3>3. f[k + 1] = f[k] \o cs[k]
      BY <1>1, <3>1
    <3> QED BY <3>1, <3>2, <3>3
  <2> HIDE DEF S
  <2>3. 0..size \subseteq S
    BY <2>1, <2>2, UpTo
  <2> QED BY <2>3 DEF S
<1>3. Gathered(f[size], cs, size, size)
  BY <1>2
<1>4. Below(cs, size, size) = Held(cs, size)
  BY ChainNo DEF Below, Held
<1> QED BY <1>1, <1>3, <1>4 DEF Gathered

-----------------------------------------------------------------------------
(* Growing the table.                                                      *)

Empty(size) == [c \in 0 .. size - 1 |-> <<>>]

\* A table without nodes.
LEMMA EmptyTable ==
  ASSUME NEW size \in Nat \ {0}
  PROVE  Chained(Empty(size), size) /\ Held(Empty(size), size) = {}
<1>1. <<>> \in Seq(Nodes) /\ Once(<<>>) /\ \A m : ~In(m, <<>>)
  BY DEF Once, In
<1>2. \A c \in 0 .. size - 1 : Empty(size)[c] = <<>>
  BY DEF Empty
<1>3. Empty(size) \in [0 .. size - 1 -> Seq(Nodes)]
  BY <1>1 DEF Empty
<1>4. \A n \in Nodes : Empty(size)[CHAIN_NO(n.key, size)] = <<>>
  BY <1>2, ChainNo
<1>5. Held(Empty(size), size) = {}
  <2> SUFFICES ASSUME NEW n \in Held(Empty(size), size) PROVE FALSE
    OBVIOUS
  <2>1. n \in Nodes /\ In(n, Empty(size)[CHAIN_NO(n.key, size)])
    BY DEF Held
  <2>2. In(n, <<>>)
    BY <1>4, <2>1, Zenon
  <2> QED BY <1>1, <2>2
<1>6. ASSUME NEW c \in 0 .. size - 1
      PROVE  Once(Empty(size)[c]) /\ \A n : ~In(n, Empty(size)[c])
  BY <1>1, <1>2, Zenon
<1> QED BY <1>3, <1>5, <1>6 DEF Chained

\* Putting a node in front of its chain leaves a table of chains.
LEMMA PutInType ==
  ASSUME NEW size \in Nat \ {0}, NEW n \in Nodes, NEW cs \in [0 .. size - 1 -> Seq(Nodes)]
  PROVE  PutIn(cs, n, size) \in [0 .. size - 1 -> Seq(Nodes)]
<1> DEFINE c == CHAIN_NO(n.key, size)
<1>1. c \in 0 .. size - 1 /\ cs[c] \in Seq(Nodes)
  BY ChainNo
<1>2. <<n>> \o cs[c] \in Seq(Nodes)
  BY <1>1, InFront
<1> DEFINE s == <<n>> \o cs[c]
<1>3. PutIn(cs, n, size) = [cs EXCEPT ![c] = s]
  BY DEF PutIn
<1> HIDE DEF c, s
<1> QED BY <1>2, <1>3 DEF s

\* The nodes of a sequence, put one by one into a table that was empty.
LEMMA PutOneByOne ==
  ASSUME NEW size \in Nat \ {0}, NEW all \in Seq(Nodes), Once(all), NEW f,
         f[0] = Empty(size),
         \A k \in 1..Len(all) : f[k] = PutIn(f[k - 1], all[k], size)
  PROVE  /\ Chained(f[Len(all)], size)
         /\ Held(f[Len(all)], size) = {all[i] : i \in 1..Len(all)}
<1> DEFINE l == Len(all)
           S == {k \in 0..l : /\ Chained(f[k], size)
                              /\ Held(f[k], size) = {all[i] : i \in 1..k}}
<1>1. l \in Nat /\ \A i \in 1..l : all[i] \in Nodes
  OBVIOUS
<1>2. \A i, j \in 1..l : all[i] = all[j] => i = j
  BY DEF Once
<1>3. \A k \in 1..l : f[k] = PutIn(f[k - 1], all[k], size)
  OBVIOUS
<1> HIDE DEF l
<1>4. 0 \in S
  <2>1. Chained(f[0], size) /\ Held(f[0], size) = {}
    BY EmptyTable
  <2>2. {all[i] : i \in 1..0} = {} /\ 0 \in 0..l
    BY <1>1
  <2> QED BY <2>1, <2>2
<1>5. ASSUME NEW k \in 0..l, k \in S, k < l PROVE k + 1 \in S
  <2> DEFINE n == all[k + 1]
  <2>1. k + 1 \in 1..l /\ k + 1 \in 0..l /\ (k + 1) - 1 = k /\ \A i \in 1..k : i \in 1..l /\ i # k + 1
    BY <1>1, <1>5
  <2>2. n \in Nodes \ {all[i] : i \in 1..k}
    BY <1>1, <1>2, <2>1
  <2>3. f[k + 1] = PutIn(f[k], n, size)
    BY <1>3, <2>1
  <2>4. Chained(f[k], size) /\ n \in Nodes \ Held(f[k], size)
    BY <1>5, <2>2
  <2> HIDE DEF n
  <2>5. Chained(f[k + 1], size) /\ Held(f[k + 1], size) = Held(f[k], size) \cup {n}
    BY <2>3, <2>4, PutInFront
  <2>6. {all[i] : i \in 1..(k + 1)} = {all[i] : i \in 1..k} \cup {n}
    <3>1. \A i : i \in 1..(k + 1) <=> i \in 1..k \/ i = k + 1
      BY <2>1
    <3> QED BY <3>1 DEF n
  <2>7. Held(f[k], size) = {all[i] : i \in 1..k}
    BY <1>5
  <2> QED BY <2>1, <2>5, <2>6, <2>7
<1> HIDE DEF S
<1>6. 0..l \subseteq S
  BY <1>1, <1>4, <1>5, UpTo
<1>7. l \in S
  BY <1>1, <1>6
<1> QED BY <1>7 DEF S, l

\* resize keeps every node and puts it where its key leads.
LEMMA RehashedAll ==
  ASSUME NEW size \in Nat \ {0}, n_chains \in Nat \ {0}, NEW cs, Chained(cs, n_chains)
  PROVE  /\ Chained(Rehashed(cs, size), size)
         /\ Held(Rehashed(cs, size), size) = Held(cs, n_chains)
<1> DEFINE all == FlattenSeq([i \in 1 .. n_chains |-> cs[i - 1]])
           l == Len(all)
           V == [0 .. size - 1 -> Seq(Nodes)]
           G == [k \in 1..l |-> [v \in V |-> PutIn(v, all[k], size)]]
           b == CHOOSE g : g = [k \in 0..l |-> IF k = 0 THEN Empty(size)
                                               ELSE PutIn(g[k - 1], all[k], size)]
<1>1. all \in Seq(Nodes) /\ Once(all) /\ \A m : In(m, all) <=> m \in Held(cs, n_chains)
  BY Flattened
<1>2. Rehashed(cs, size) = b[l]
  BY DEF Rehashed, PutIn, Empty
<1> HIDE DEF all
<1>3. l \in Nat /\ \A k \in 1..l : all[k] \in Nodes
  BY <1>1
<1> HIDE DEF l
<1>4. \A k \in 1..l : \A v \in V : G[k][v] \in V /\ G[k][v] = PutIn(v, all[k], size)
  BY <1>3, PutInType
<1>5. Empty(size) \in V
  BY EmptyTable DEF Chained
<1> HIDE DEF G, V
<1>6. PICK f : Takes(f, l, G, Empty(size), V)
  <2>1. StepsUpTo(l, G, V)
    BY <1>4 DEF StepsUpTo
  <2> QED BY <1>3, <1>5, <2>1, StepwiseFunction
<1>7. \A k \in 1..l : f[k] = PutIn(f[k - 1], all[k], size)
  <2> TAKE k \in 1..l
  <2>1. k - 1 \in 0..l
    BY <1>3
  <2>2. f[k - 1] \in V /\ f[k] = G[k][f[k - 1]]
    BY <1>6, <2>1 DEF Takes
  <2> QED BY <1>4, <2>2
<1>8. f = [k \in 0..l |-> IF k = 0 THEN Empty(size) ELSE PutIn(f[k - 1], all[k], size)]
  <2>1. \A k \in 0..l : f[k] = IF k = 0 THEN Empty(size) ELSE PutIn(f[k - 1], all[k], size)
    BY <1>3, <1>6, <1>7 DEF Takes
  <2> QED BY <1>6, <2>1 DEF Takes
<1>9. b = [k \in 0..l |-> IF k = 0 THEN Empty(size) ELSE PutIn(b[k - 1], all[k], size)]
  BY <1>8
<1> HIDE DEF b
<1>10. b[0] = Empty(size) /\ \A k \in 1..l : b[k] = PutIn(b[k - 1], all[k], size)
  BY <1>3, <1>9
<1>11. Chained(b[l], size) /\ Held(b[l], size) = {all[i] : i \in 1..l}
  BY <1>1, <1>10, PutOneByOne DEF l
<1>12. \A m : In(m, all) <=> m \in {all[i] : i \in 1..l}
  BY DEF In, l
<1> QED BY <1>1, <1>2, <1>11, <1>12

\* resize finds a greater number of chains.
LEMMA NextPrimeIs ==
  ASSUME n_chains \in ToSet(Primes), n_chains # Primes[Len(Primes)]
  PROVE  NextPrime \in ToSet(Primes)
<1> DEFINE l == Len(Primes)
           T == {i \in 1..l : Primes[i] > n_chains + 1}
<1>1. l \in Nat \ {0} /\ DOMAIN Primes = 1..l /\ \A i \in 1..l : Primes[i] \in Nat
  BY HashTableAssumption
<1>2. \A i, j \in 1..l : i < j => Primes[i] + 1 < Primes[j]
  BY <1>1, HashTableAssumption
<1>3. PICK k \in 1..l : n_chains = Primes[k]
  BY DEF ToSet
<1> HIDE DEF l
<1>4. l \in T
  BY <1>1, <1>2, <1>3 DEF l
<1>5. PICK i \in T : \A j \in T : i <= j
  <2>1. T \subseteq Nat /\ T # {}
    BY <1>1, <1>4
  <2> QED BY <2>1, LeastNat
<1>6. \A j \in 1 .. i - 1 : Primes[j] <= n_chains + 1
  <2> TAKE j \in 1 .. i - 1
  <2>1. j \in 1..l /\ ~(i <= j)
    BY <1>1
  <2>2. j \notin T
    BY <1>5, <2>1
  <2> QED BY <1>1, <1>3, <2>1, <2>2
<1>7. \E x \in DOMAIN Primes : /\ Primes[x] > n_chains + 1
                               /\ \A j \in 1 .. x - 1 : Primes[j] <= n_chains + 1
  BY <1>1, <1>6
<1> DEFINE x == CHOOSE x \in DOMAIN Primes :
                      /\ Primes[x] > n_chains + 1
                      /\ \A j \in 1 .. x - 1 : Primes[j] <= n_chains + 1
<1>8. x \in DOMAIN Primes
  BY <1>7
<1>9. NextPrime = Primes[x]
  BY DEF NextPrime
<1> HIDE DEF x
<1> QED BY <1>1, <1>8, <1>9 DEF ToSet, l

-----------------------------------------------------------------------------
(* The invariant.                                                          *)

\* The table: a number of chains it may have, chained nodes, and their count.
TableOK ==
  /\ n_chains \in ToSet(Primes)
  /\ Chained(chains, n_chains)
  /\ IsFiniteSet(Held(chains, n_chains))
  /\ n_elements = Cardinality(Held(chains, n_chains))

\* The nodes of the chains from c on, and those behind the p-th of a chain.
From(cs, size, c) == {n \in Held(cs, size) : CHAIN_NO(n.key, size) >= c}
After(s, p) == {s[i] : i \in p + 1 .. Len(s)}

\* The iterator is before a chain, or at a node of the chain before.
BeforeChain == iterNode = {} /\ due = From(chains, n_chains, iterChain)
AtNode(p) == /\ iterNode = {chains[iterChain - 1][p]}
             /\ due = From(chains, n_chains, iterChain) \cup After(chains[iterChain - 1], p)
Iterating ==
  /\ iterChain \in 0 .. n_chains
  /\ \/ BeforeChain
     \/ iterChain > 0 /\ \E p \in 1 .. Len(chains[iterChain - 1]) : AtNode(p)

TableInv == TableOK /\ (iterOK => Iterating)

\* There is at least one chain.
LEMMA SomeChain ==
  ASSUME NEW size, size \in ToSet(Primes) PROVE size \in Nat \ {0}
BY HashTableAssumption DEF ToSet

\* The array of HT_to_array.
LEMMA ArrayIs ==
  ASSUME TableOK
  PROVE  /\ NodesIn = Held(chains, n_chains)
         /\ Len(HT_to_array) = n_elements /\ IsInjective(HT_to_array)
<1> DEFINE a == HT_to_array
           l == Len(a)
<1>1. n_chains \in Nat \ {0} /\ Chained(chains, n_chains)
  BY SomeChain DEF TableOK
<1>2. a \in Seq(Nodes) /\ Once(a) /\ \A m : In(m, a) <=> m \in Held(chains, n_chains)
  BY <1>1, Flattened DEF HT_to_array
<1> HIDE DEF a
<1>3. l \in Nat /\ DOMAIN a = 1..l
  BY <1>2
<1>4. NodesIn = Held(chains, n_chains)
  <2>1. \A m : m \in NodesIn <=> In(m, a)
    BY <1>3 DEF NodesIn, ToSet, In, a
  <2> QED BY <1>2, <2>1
<1>5. \A i, j \in 1..l : a[i] = a[j] => i = j
  BY <1>2 DEF Once
<1>6. IsInjective(a)
  BY <1>3, <1>5 DEF IsInjective
<1>7. Cardinality(Held(chains, n_chains)) = l
  <2>1. \A m : m \in Held(chains, n_chains) <=> \E i \in 1..l : a[i] = m
    BY <1>2 DEF In
  <2>2. a \in Bijection(1..l, Held(chains, n_chains))
    <3>1. a \in [1..l -> Held(chains, n_chains)]
      BY <1>2, <1>3, <2>1
    <3> HIDE DEF l
    <3> QED BY <1>5, <2>1, <3>1 DEF Bijection, Injection, Surjection, IsInjective
  <2>3. ExistsBijection(1..l, Held(chains, n_chains))
    BY <2>2 DEF ExistsBijection
  <2> QED BY <1>3, <2>3, FS_CountingElements
<1> QED BY <1>4, <1>6, <1>7 DEF TableOK, a

\* The least of a set.
LEMMA MinIs ==
  ASSUME NEW T, T \subseteq Nat, T # {}
  PROVE  Min(T) \in T /\ \A y \in T : Min(T) <= y
BY LeastNat DEF Min

\* The place of a node in its chain.
LEMMA PlaceIs ==
  ASSUME TableOK, NEW c \in 0 .. n_chains - 1, NEW p \in 1 .. Len(chains[c])
  PROVE  CHAIN_NO(chains[c][p].key, n_chains) = c /\ Place(chains[c][p]) = p
<1> DEFINE s == chains[c]
           n == s[p]
           I == {i \in 1..Len(s) : s[i] = n}
<1>1. n_chains \in Nat \ {0} /\ Chained(chains, n_chains)
  BY SomeChain DEF TableOK
<1>2. s \in Seq(Nodes) /\ Once(s) /\ In(n, s) /\ CHAIN_NO(n.key, n_chains) = c
  BY <1>1 DEF Chained, In
<1>3. I = {p} /\ p \in Nat
  BY <1>2 DEF Once
<1>4. Place(n) = IF I # {} THEN Min(I) ELSE 0
  BY <1>2 DEF Place, SelectInSeq
<1> HIDE DEF I
<1>5. Min(I) \in I
  BY <1>3, MinIs
<1> QED BY <1>2, <1>3, <1>4, <1>5

\* The first node with a key in the chain of the key, the place of a node.
FirstOfKey(key) == First(key, LAMBDA m : TRUE)
PlaceOf(n) == First(n.key, LAMBDA m : m = n)

\* A look-up by key.
LEMMA FirstOfKeyIs ==
  ASSUME TableOK, NEW n \in Nodes
  PROVE  LET c == CHAIN_NO(n.key, n_chains)
             i == FirstOfKey(n.key)
         IN \/ i \in 1 .. Len(chains[c]) /\ chains[c][i].key = n.key
            \/ i = 0 /\ \A m : In(m, chains[c]) => m.key # n.key
<1> DEFINE c == CHAIN_NO(n.key, n_chains)
           s == chains[c]
           I == {i \in 1..Len(s) : s[i].key = n.key /\ TRUE}
<1>1. FirstOfKey(n.key) = IF I # {} THEN Min(I) ELSE 0
  BY DEF FirstOfKey, First, SelectInSeq
<1>2. CASE I = {}
  <2>1. \A m : In(m, s) => m.key # n.key
    BY <1>2 DEF In
  <2> QED BY <1>1, <1>2, <2>1
<1>3. CASE I # {}
  <2>1. I \subseteq Nat
    OBVIOUS
  <2> HIDE DEF I
  <2>2. Min(I) \in I
    BY <1>3, <2>1, MinIs
  <2> QED BY <1>1, <1>3, <2>2 DEF I
<1> QED BY <1>2, <1>3

\* A look-up by node.
LEMMA PlaceOfIs ==
  ASSUME TableOK, NEW n \in Nodes
  PROVE  LET c == CHAIN_NO(n.key, n_chains)
             i == PlaceOf(n)
         IN \/ i \in 1 .. Len(chains[c]) /\ chains[c][i] = n
            \/ i = 0 /\ ~In(n, chains[c])
<1> DEFINE c == CHAIN_NO(n.key, n_chains)
           s == chains[c]
           I == {i \in 1..Len(s) : s[i].key = n.key /\ s[i] = n}
<1>1. PlaceOf(n) = IF I # {} THEN Min(I) ELSE 0
  BY DEF PlaceOf, First, SelectInSeq
<1>2. CASE I = {}
  <2>1. ~In(n, s)
    BY <1>2 DEF In
  <2> QED BY <1>1, <1>2, <2>1
<1>3. CASE I # {}
  <2>1. I \subseteq Nat
    OBVIOUS
  <2> HIDE DEF I
  <2>2. Min(I) \in I
    BY <1>3, <2>1, MinIs
  <2> QED BY <1>1, <1>3, <2>2 DEF I
<1> QED BY <1>2, <1>3

-----------------------------------------------------------------------------
(* What is still to come.                                                  *)

\* Nothing is in a chain that there is not.
LEMMA FromEnd ==
  ASSUME NEW size \in Nat \ {0}, NEW cs
  PROVE  From(cs, size, size) = {} /\ From(cs, size, 0) = Held(cs, size)
BY ChainNo DEF From, Held

\* What is from chain c on is in chain c or behind it.
LEMMA FromNext ==
  ASSUME NEW size \in Nat \ {0}, NEW cs, Chained(cs, size), NEW c \in 0 .. size - 1
  PROVE  From(cs, size, c) = From(cs, size, c + 1) \cup After(cs[c], 0)
<1>1. cs[c] \in Seq(Nodes) /\ Len(cs[c]) \in Nat
  BY DEF Chained
<1>2. \A m : m \in After(cs[c], 0) <=> In(m, cs[c])
  BY <1>1 DEF After, In
<1>3. \A m : In(m, cs[c]) => m \in Held(cs, size) /\ CHAIN_NO(m.key, size) = c
  BY InHeld
<1>4. \A m \in Held(cs, size) : CHAIN_NO(m.key, size) = c => In(m, cs[c])
  BY DEF Held
<1>5. \A m \in Held(cs, size) : CHAIN_NO(m.key, size) \in 0 .. size - 1
  BY ChainNo DEF Held
<1>6. \A d \in 0 .. size - 1 : d >= c <=> d >= c + 1 \/ d = c
  OBVIOUS
<1> QED BY <1>2, <1>3, <1>4, <1>5, <1>6 DEF From

\* Empty chains add nothing.
LEMMA FromSkips ==
  ASSUME NEW size \in Nat \ {0}, NEW cs, Chained(cs, size), NEW c \in 0 .. size,
         NEW d \in c .. size, \A e \in c .. d - 1 : cs[e] = <<>>
  PROVE  From(cs, size, c) = From(cs, size, d)
<1>1. ASSUME NEW m \in Held(cs, size) PROVE CHAIN_NO(m.key, size) \notin c .. d - 1
  <2>1. In(m, cs[CHAIN_NO(m.key, size)])
    BY DEF Held
  <2>2. ~In(m, <<>>)
    BY DEF In
  <2> QED BY <2>1, <2>2
<1>2. \A m \in Held(cs, size) : CHAIN_NO(m.key, size) \in 0 .. size - 1
  BY ChainNo DEF Held
<1>3. \A e \in 0 .. size - 1 : e \notin c .. d - 1 => (e >= c <=> e >= d)
  OBVIOUS
<1> QED BY <1>1, <1>2, <1>3 DEF From

\* The next of a chain, and what is behind it.
LEMMA AfterNext ==
  ASSUME NEW s \in Seq(Nodes), Once(s), NEW p \in 0 .. Len(s) - 1
  PROVE  /\ After(s, p) = {s[p + 1]} \cup After(s, p + 1)
         /\ s[p + 1] \notin After(s, p + 1)
         /\ p + 1 \in 1 .. Len(s)
<1>1. Len(s) \in Nat
  OBVIOUS
<1>2. /\ \A i : i \in p + 1 .. Len(s) <=> i = p + 1 \/ i \in p + 2 .. Len(s)
      /\ p + 1 \in 1 .. Len(s) /\ (p + 1) + 1 = p + 2
  BY <1>1
<1>3. \A i \in p + 2 .. Len(s) : i \in 1 .. Len(s) /\ i # p + 1
  BY <1>1
<1>4. After(s, p + 1) = {s[i] : i \in p + 2 .. Len(s)}
  BY <1>2 DEF After
<1>5. s[p + 1] \notin After(s, p + 1)
  BY <1>2, <1>3, <1>4 DEF Once
<1> QED BY <1>2, <1>4, <1>5 DEF After

\* Behind the last of a chain there is nothing.
LEMMA AfterLast ==
  ASSUME NEW s \in Seq(Nodes) PROVE After(s, Len(s)) = {}
BY DEF After

\* A node of chain c is not from chain c + 1 on.
LEMMA NotFrom ==
  ASSUME NEW size \in Nat \ {0}, NEW cs, Chained(cs, size), NEW c \in 0 .. size - 1,
         NEW p \in 1 .. Len(cs[c])
  PROVE  cs[c][p] \notin From(cs, size, c + 1)
<1>1. CHAIN_NO(cs[c][p].key, size) = c
  BY DEF Chained, In
<1> QED BY <1>1 DEF From

-----------------------------------------------------------------------------
(* The iterator.                                                           *)

\* A chain with its type.
LEMMA ChainIs ==
  ASSUME TableOK, NEW c \in 0 .. n_chains - 1
  PROVE  chains[c] \in Seq(Nodes) /\ Once(chains[c]) /\ Len(chains[c]) \in Nat
BY DEF TableOK, Chained

\* The node behind the iterator's.
LEMMA BehindIs ==
  ASSUME TableOK, iterChain \in 1 .. n_chains,
         NEW p \in 1 .. Len(chains[iterChain - 1]), AtNode(p)
  PROVE  Behind = IF p < Len(chains[iterChain - 1])
                    THEN {chains[iterChain - 1][p + 1]} ELSE {}
<1> DEFINE s == chains[iterChain - 1]
           n == s[p]
<1>1. iterChain - 1 \in 0 .. n_chains - 1
  BY SomeChain DEF TableOK
<1>2. CHAIN_NO(n.key, n_chains) = iterChain - 1 /\ Place(n) = p
  BY <1>1, PlaceIs
<1>3. iterNode = {n}
  BY DEF AtNode
<1> HIDE DEF n
<1>4. Behind = {chains[CHAIN_NO(n.key, n_chains)][Place(n) + 1] :
                  m \in {m \in {n} : Place(m) < Len(chains[CHAIN_NO(m.key, n_chains)])}}
  BY <1>3 DEF Behind
<1>5. CASE p < Len(s)
  BY <1>2, <1>4, <1>5
<1>6. CASE ~(p < Len(s))
  BY <1>2, <1>4, <1>6
<1> QED BY <1>5, <1>6

\* The next chain with a node, if there is one.
LEMMA NextChainIs ==
  ASSUME TableOK, iterChain \in 0 .. n_chains
  PROVE  \/ NextChain = {} /\ From(chains, n_chains, iterChain) = {}
         \/ \E c \in 0 .. n_chains - 1 :
              /\ NextChain = {c} /\ chains[c] # <<>>
              /\ From(chains, n_chains, iterChain) = From(chains, n_chains, c)
<1> DEFINE T == {c \in iterChain .. n_chains - 1 : chains[c] # <<>>}
<1>1. n_chains \in Nat \ {0} /\ Chained(chains, n_chains)
  BY SomeChain DEF TableOK
<1>2. CASE T = {}
  <2>1. NextChain = {}
    BY <1>2 DEF NextChain
  <2>2. n_chains \in iterChain .. n_chains /\ \A e \in iterChain .. n_chains - 1 : chains[e] = <<>>
    BY <1>1, <1>2
  <2>3. From(chains, n_chains, iterChain) = From(chains, n_chains, n_chains)
    BY <1>1, <2>2, FromSkips
  <2> QED BY <1>1, <2>1, <2>3, FromEnd
<1>3. CASE T # {}
  <2>1. T \subseteq Nat
    BY <1>1
  <2>2. PICK c \in T : \A d \in T : c <= d
    BY <1>3, <2>1, LeastNat
  <2>3. c \in 0 .. n_chains - 1 /\ c \in iterChain .. n_chains /\ chains[c] # <<>>
    BY <1>1
  <2>4. \A e \in iterChain .. c - 1 : chains[e] = <<>>
    <3> TAKE e \in iterChain .. c - 1
    <3>1. e \in iterChain .. n_chains - 1 /\ ~(c <= e)
      BY <1>1, <2>3
    <3> QED BY <2>2, <3>1
  <2>5. NextChain = {c}
    <3>1. c \in NextChain
      BY <2>4 DEF NextChain
    <3>2. ASSUME NEW d \in NextChain PROVE d = c
      <4>1. /\ d \in iterChain .. n_chains - 1 /\ chains[d] # <<>>
            /\ \A e \in iterChain .. d - 1 : chains[e] = <<>>
        BY DEF NextChain
      <4>2. c <= d
        BY <2>2, <4>1
      <4>3. ~(c \in iterChain .. d - 1)
        BY <2>3, <4>1
      <4> QED BY <1>1, <2>3, <4>1, <4>2, <4>3
    <3> QED BY <3>1, <3>2
  <2>6. From(chains, n_chains, iterChain) = From(chains, n_chains, c)
    BY <1>1, <2>3, <2>4, FromSkips
  <2> QED BY <2>3, <2>5, <2>6
<1> QED BY <1>2, <1>3

\* The iterator is at the p-th node of chain c, and the nodes behind it are left.
StandsAt(node, chain, left, c, p) ==
  /\ c \in 0 .. n_chains - 1 /\ chain = c + 1 /\ p \in 1 .. Len(chains[c])
  /\ node = {chains[c][p]}
  /\ left = From(chains, n_chains, chain) \cup After(chains[c], p)

\* HT_Next goes on to a node that is due, and returns NULL when none is.
LEMMA NextIs ==
  ASSUME TableOK, Iterating
  PROVE  \/ NextNode = {} /\ NextChain = {} /\ Behind = {} /\ due = {}
         \/ /\ NextNode # {} /\ NextNode \subseteq due
            /\ \E c \in 0 .. n_chains - 1, p \in Nat :
                 StandsAt(NextNode,
                          IF Behind # {} \/ NextChain = {} THEN iterChain
                            ELSE (CHOOSE d \in NextChain : TRUE) + 1,
                          due \ NextNode, c, p)
<1> DEFINE chain == IF Behind # {} \/ NextChain = {} THEN iterChain
                      ELSE (CHOOSE d \in NextChain : TRUE) + 1
<1>1. n_chains \in Nat \ {0} /\ Chained(chains, n_chains) /\ iterChain \in 0 .. n_chains
  BY SomeChain DEF TableOK, Iterating
<1>2. ASSUME Behind = {}, due = From(chains, n_chains, iterChain)
      PROVE  \/ NextNode = {} /\ NextChain = {} /\ Behind = {} /\ due = {}
             \/ /\ NextNode # {} /\ NextNode \subseteq due
                /\ \E c \in 0 .. n_chains - 1, p \in Nat :
                     StandsAt(NextNode, chain, due \ NextNode, c, p)
  <2>1. CASE NextChain = {} /\ From(chains, n_chains, iterChain) = {}
    BY <1>2, <2>1 DEF NextNode
  <2>2. CASE \E c \in 0 .. n_chains - 1 :
               /\ NextChain = {c} /\ chains[c] # <<>>
               /\ From(chains, n_chains, iterChain) = From(chains, n_chains, c)
    <3>1. PICK c \in 0 .. n_chains - 1 :
               /\ NextChain = {c} /\ chains[c] # <<>>
               /\ From(chains, n_chains, iterChain) = From(chains, n_chains, c)
      BY <2>2
    <3> DEFINE s == chains[c]
    <3>2. s \in Seq(Nodes) /\ Once(s) /\ Len(s) \in Nat
      BY ChainIs
    <3>3. s # <<>>
      BY <3>1
    <3> HIDE DEF s
    <3>4. 0 \in 0 .. Len(s) - 1 /\ 1 \in 1 .. Len(s) /\ Head(s) = s[1]
      BY <3>2, <3>3
    <3>5. After(s, 0) = {s[1]} \cup After(s, 1) /\ s[1] \notin After(s, 1)
      <4>1. After(s, 0) = {s[0 + 1]} \cup After(s, 0 + 1) /\ s[0 + 1] \notin After(s, 0 + 1)
        BY <3>2, <3>4, AfterNext
      <4>2. 0 + 1 = 1
        OBVIOUS
      <4> QED BY <4>1, <4>2
    <3>6. From(chains, n_chains, c) = From(chains, n_chains, c + 1) \cup After(s, 0)
      BY <1>1, FromNext DEF s
    <3>7. s[1] \notin From(chains, n_chains, c + 1)
      BY <1>1, <3>4, NotFrom DEF s
    <3>8. NextNode = {s[1]}
      BY <1>2, <3>1, <3>4 DEF NextNode, s
    <3>9. chain = c + 1
      BY <1>2, <3>1
    <3> HIDE DEF chain
    <3>10. due \ NextNode = From(chains, n_chains, chain) \cup After(s, 1)
      BY <1>2, <3>1, <3>5, <3>6, <3>7, <3>8, <3>9
    <3>11. StandsAt(NextNode, chain, due \ NextNode, c, 1)
      BY <3>4, <3>8, <3>9, <3>10 DEF StandsAt, s
    <3>12. NextNode \subseteq due
      BY <1>2, <3>1, <3>5, <3>6, <3>8
    <3> QED BY <3>8, <3>11, <3>12
  <2> QED BY <1>1, <2>1, <2>2, NextChainIs
<1>3. CASE BeforeChain
  <2>1. Behind = {} /\ due = From(chains, n_chains, iterChain)
    BY <1>3 DEF BeforeChain, Behind
  <2> QED BY <1>2, <2>1
<1>4. CASE iterChain > 0 /\ \E p \in 1 .. Len(chains[iterChain - 1]) : AtNode(p)
  <2> DEFINE c == iterChain - 1
             s == chains[c]
  <2>1. PICK p \in 1 .. Len(s) : AtNode(p)
    BY <1>4
  <2>2. c \in 0 .. n_chains - 1 /\ iterChain \in 1 .. n_chains /\ c + 1 = iterChain
    BY <1>1, <1>4
  <2>3. s \in Seq(Nodes) /\ Once(s) /\ Len(s) \in Nat
    BY <2>2, ChainIs
  <2>4. Behind = IF p < Len(s) THEN {s[p + 1]} ELSE {}
    BY <2>1, <2>2, BehindIs
  <2>5. due = From(chains, n_chains, iterChain) \cup After(s, p)
    BY <2>1 DEF AtNode
  <2> HIDE DEF s, c
  <2>6. CASE p < Len(s)
    <3>1. p \in 0 .. Len(s) - 1 /\ p + 1 \in Nat
      BY <2>1, <2>3, <2>6
    <3>2. /\ After(s, p) = {s[p + 1]} \cup After(s, p + 1) /\ s[p + 1] \notin After(s, p + 1)
          /\ p + 1 \in 1 .. Len(s)
      BY <2>3, <3>1, AfterNext
    <3>3. s[p + 1] \notin From(chains, n_chains, iterChain)
      BY <1>1, <2>2, <3>2, NotFrom DEF s
    <3>4. Behind = {s[p + 1]} /\ NextNode = {s[p + 1]} /\ chain = iterChain
      BY <2>4, <2>6 DEF NextNode
    <3> HIDE DEF chain
    <3>5. due \ NextNode = From(chains, n_chains, chain) \cup After(s, p + 1)
      BY <2>5, <3>2, <3>3, <3>4
    <3>6. StandsAt(NextNode, chain, due \ NextNode, c, p + 1)
      BY <2>2, <3>2, <3>4, <3>5 DEF StandsAt, s
    <3>7. NextNode # {} /\ NextNode \subseteq due
      BY <2>5, <3>2, <3>4
    <3> QED BY <2>2, <3>1, <3>6, <3>7 DEF chain
  <2>7. CASE ~(p < Len(s))
    <3>1. p = Len(s)
      BY <2>1, <2>3, <2>7
    <3>2. After(s, p) = {} /\ Behind = {}
      BY <2>3, <2>4, <2>7, <3>1, AfterLast
    <3> QED BY <1>2, <2>5, <3>2
  <2> QED BY <2>6, <2>7
<1> QED BY <1>3, <1>4 DEF Iterating

-----------------------------------------------------------------------------
(* The steps.                                                              *)

\* The contents of the table.
Contents == Held(chains, n_chains)

\* Nothing is in the table that was constructed.
LEMMA Constructed ==
  ASSUME NEW size, size = Primes[1]
  PROVE  /\ size \in ToSet(Primes) /\ size \in Nat \ {0}
         /\ Chained(Empty(size), size) /\ Held(Empty(size), size) = {}
         /\ IsFiniteSet(Held(Empty(size), size)) /\ Cardinality(Held(Empty(size), size)) = 0
         /\ From(Empty(size), size, 0) = {}
<1>1. size \in ToSet(Primes)
  BY HashTableAssumption DEF ToSet
<1>2. size \in Nat \ {0}
  BY <1>1, SomeChain
<1>3. Chained(Empty(size), size) /\ Held(Empty(size), size) = {}
  BY <1>2, EmptyTable
<1>4. From(Empty(size), size, 0) = Held(Empty(size), size)
  BY <1>2, FromEnd
<1> QED BY <1>1, <1>2, <1>3, <1>4, FS_EmptySet

\* The invariant holds of the table that was constructed.
LEMMA InitInv == HT_construct => TableInv
<1> SUFFICES ASSUME HT_construct PROVE TableInv
  OBVIOUS
<1>1. /\ n_chains = Primes[1] /\ chains = Empty(n_chains) /\ n_elements = 0
      /\ iterChain = 0 /\ iterNode = {} /\ due = {}
  BY DEF HT_construct, Empty
<1>2. /\ n_chains \in ToSet(Primes) /\ n_chains \in Nat \ {0}
      /\ Chained(chains, n_chains)
      /\ IsFiniteSet(Held(chains, n_chains)) /\ Cardinality(Held(chains, n_chains)) = 0
      /\ From(chains, n_chains, 0) = {}
  BY <1>1, Constructed
<1>3. TableOK
  BY <1>1, <1>2 DEF TableOK
<1>4. Iterating
  BY <1>1, <1>2 DEF Iterating, BeforeChain
<1> QED BY <1>3, <1>4 DEF TableInv

\* HT_destruct, and the table constructed behind it.
LEMMA DestructStep ==
  ASSUME HT_destruct PROVE TableInv' /\ Contents' = {}
<1>1. /\ n_chains' = Primes[1] /\ chains' = Empty(n_chains') /\ n_elements' = 0
      /\ iterChain' = 0 /\ iterNode' = {} /\ due' = {}
  BY DEF HT_destruct, Empty
<1>2. /\ n_chains' \in ToSet(Primes) /\ n_chains' \in Nat \ {0}
      /\ Chained(chains', n_chains') /\ Held(chains', n_chains') = {}
      /\ IsFiniteSet(Held(chains', n_chains')) /\ Cardinality(Held(chains', n_chains')) = 0
      /\ From(chains', n_chains', 0) = {}
  BY <1>1, Constructed
<1>3. TableOK'
  BY <1>1, <1>2 DEF TableOK
<1>4. Iterating'
  BY <1>1, <1>2 DEF Iterating, BeforeChain
<1> QED BY <1>2, <1>3, <1>4 DEF TableInv, Contents

\* HT_add_node adds the node, whether or not the table grows.
LEMMA AddStep ==
  ASSUME TableOK, NEW n \in Nodes \ Contents, HT_add_node(n)
  PROVE  TableOK' /\ Contents' = Contents \cup {n}
<1> DEFINE cs == PutIn(chains, n, n_chains)
<1>1. n_chains \in Nat \ {0} /\ Chained(chains, n_chains)
  BY SomeChain DEF TableOK
<1>2. Chained(cs, n_chains) /\ Held(cs, n_chains) = Contents \cup {n}
  BY <1>1, PutInFront DEF Contents
<1>3. /\ n_elements' = n_elements + 1
      /\ \/ /\ n_chains # Primes[Len(Primes)]
            /\ n_chains' = NextPrime /\ chains' = Rehashed(cs, NextPrime)
         \/ n_chains' = n_chains /\ chains' = cs
  BY DEF HT_add_node, PutIn
<1> HIDE DEF cs
<1>4. /\ n_chains' \in ToSet(Primes) /\ Chained(chains', n_chains')
      /\ Held(chains', n_chains') = Contents \cup {n}
  <2>1. CASE n_chains' = n_chains /\ chains' = cs
    BY <1>2, <2>1 DEF TableOK
  <2>2. CASE /\ n_chains # Primes[Len(Primes)]
             /\ n_chains' = NextPrime /\ chains' = Rehashed(cs, NextPrime)
    <3>1. NextPrime \in ToSet(Primes) /\ NextPrime \in Nat \ {0}
      BY <2>2, NextPrimeIs, SomeChain DEF TableOK
    <3>2. /\ Chained(Rehashed(cs, NextPrime), NextPrime)
          /\ Held(Rehashed(cs, NextPrime), NextPrime) = Held(cs, n_chains)
      BY <1>1, <1>2, <3>1, RehashedAll
    <3> QED BY <1>2, <2>2, <3>1, <3>2
  <2> QED BY <1>3, <2>1, <2>2
<1>5. /\ IsFiniteSet(Contents \cup {n})
      /\ Cardinality(Contents \cup {n}) = Cardinality(Contents) + 1
  BY FS_AddElement DEF TableOK, Contents
<1>6. n_elements = Cardinality(Contents)
  BY DEF TableOK, Contents
<1> QED BY <1>3, <1>4, <1>5, <1>6 DEF TableOK, Contents

\* Taking the i-th node of a chain out.
LEMMA UnlinkStep ==
  ASSUME TableOK, NEW key, NEW i, CHAIN_NO(key, n_chains) \in 0 .. n_chains - 1,
         i \in 1 .. Len(chains[CHAIN_NO(key, n_chains)]), Unlink(key, i)
  PROVE  LET n == chains[CHAIN_NO(key, n_chains)][i]
         IN TableOK' /\ n \in Contents /\ Contents' = Contents \ {n}
<1> DEFINE c == CHAIN_NO(key, n_chains)
           n == chains[c][i]
           ds == TakenFrom(chains, c, i)
<1>1. n_chains \in Nat \ {0} /\ Chained(chains, n_chains)
  BY SomeChain DEF TableOK
<1>2. chains' = ds /\ n_chains' = n_chains /\ n_elements' = n_elements - 1
  BY DEF Unlink, TakenFrom
<1>3. c \in 0 .. n_chains - 1 /\ i \in 1 .. Len(chains[c])
  OBVIOUS
<1>4. n \in Contents
  <2>1. In(n, chains[c])
    BY <1>3 DEF In
  <2> HIDE DEF n, c
  <2> QED BY <1>1, <1>3, <2>1, InHeld DEF Contents
<1> HIDE DEF c
<1>5. Chained(ds, n_chains) /\ Held(ds, n_chains) = Contents \ {n}
  BY <1>1, <1>3, Unlinked DEF Contents
<1> HIDE DEF ds, n
<1>6. /\ IsFiniteSet(Contents \ {n})
      /\ Cardinality(Contents \ {n}) = Cardinality(Contents) - 1
  BY <1>4, FS_RemoveElement DEF TableOK, Contents
<1>7. n_elements = Cardinality(Contents)
  BY DEF TableOK, Contents
<1>8. TableOK' /\ Contents' = Contents \ {n}
  BY <1>2, <1>5, <1>6, <1>7 DEF TableOK, Contents
<1> QED BY <1>4, <1>8 DEF n, c

\* The node found, if one was, is taken out.
LEMMA UnlinkFoundStep ==
  ASSUME TableOK, NEW n \in Nodes, NEW i, UnlinkFound(n.key, i),
         i = 0 \/ i \in 1 .. Len(chains[CHAIN_NO(n.key, n_chains)])
  PROVE  /\ TableOK' /\ iterOK' = FALSE
         /\ Contents' = Contents \/ \E m \in Contents : Contents' = Contents \ {m}
<1> DEFINE c == CHAIN_NO(n.key, n_chains)
<1>1. iterOK' = FALSE
  BY DEF UnlinkFound, IterSpoilt
<1>2. CASE i = 0
  <2>1. n_chains' = n_chains /\ n_elements' = n_elements /\ chains' = chains
    BY <1>2 DEF UnlinkFound
  <2> QED BY <1>1, <2>1 DEF TableOK, Contents
<1>3. CASE i # 0
  <2>1. c \in 0 .. n_chains - 1 /\ i \in 1 .. Len(chains[c])
    BY <1>3, SomeChain, ChainNo DEF TableOK
  <2>2. Unlink(n.key, i)
    BY <1>3 DEF UnlinkFound
  <2>3. TableOK' /\ chains[c][i] \in Contents /\ Contents' = Contents \ {chains[c][i]}
    BY <2>1, <2>2, UnlinkStep
  <2> QED BY <1>1, <2>3
<1> QED BY <1>2, <1>3

\* HT_remove and HT_gen_remove take out a node or leave the table as it is.
LEMMA RemoveStep ==
  ASSUME TableOK, NEW n \in Nodes, HT_remove(n.key) \/ HT_gen_remove(n)
  PROVE  /\ TableOK' /\ iterOK' = FALSE
         /\ Contents' = Contents \/ \E m \in Contents : Contents' = Contents \ {m}
<1>1. CASE HT_remove(n.key)
  <2>1. UnlinkFound(n.key, FirstOfKey(n.key))
    BY <1>1 DEF HT_remove, FirstOfKey
  <2>2. \/ FirstOfKey(n.key) = 0
        \/ FirstOfKey(n.key) \in 1 .. Len(chains[CHAIN_NO(n.key, n_chains)])
    BY FirstOfKeyIs
  <2> QED BY <2>1, <2>2, UnlinkFoundStep
<1>2. CASE HT_gen_remove(n)
  <2>1. UnlinkFound(n.key, PlaceOf(n))
    BY <1>2 DEF HT_gen_remove, PlaceOf
  <2>2. PlaceOf(n) = 0 \/ PlaceOf(n) \in 1 .. Len(chains[CHAIN_NO(n.key, n_chains)])
    BY PlaceOfIs
  <2> QED BY <2>1, <2>2, UnlinkFoundStep
<1> QED BY <1>1, <1>2

\* HT_ResetIter starts with every node due.
LEMMA ResetStep ==
  ASSUME TableOK, HT_ResetIter PROVE TableInv' /\ Contents' = Contents
<1>1. n_chains' = n_chains /\ n_elements' = n_elements /\ chains' = chains
  BY DEF HT_ResetIter
<1>2. n_chains \in Nat \ {0}
  BY SomeChain DEF TableOK
<1>3. TableOK' /\ Contents' = Contents
  BY <1>1 DEF TableOK, Contents
<1>4. due' = From(chains, n_chains, 0)
  BY <1>2, ArrayIs, FromEnd DEF HT_ResetIter
<1>5. Iterating'
  BY <1>1, <1>2, <1>4 DEF HT_ResetIter, Iterating, BeforeChain
<1> QED BY <1>3, <1>5 DEF TableInv

\* HT_Next moves the iterator behind the node it returns.
LEMMA NextStep ==
  ASSUME TableOK, Iterating, HT_Next PROVE TableInv' /\ Contents' = Contents
<1>1. n_chains' = n_chains /\ n_elements' = n_elements /\ chains' = chains
  BY DEF HT_Next
<1>2. TableOK' /\ Contents' = Contents
  BY <1>1 DEF TableOK, Contents
<1>3. CASE NextNode = {} /\ NextChain = {} /\ Behind = {} /\ due = {}
  <2>1. iterNode' = iterNode /\ iterChain' = iterChain /\ due' = due
    BY <1>3 DEF HT_Next
  <2>2. Iterating'
    BY <1>1, <2>1 DEF Iterating, BeforeChain, AtNode
  <2> QED BY <1>2, <2>2 DEF TableInv
<1>4. CASE /\ NextNode # {} /\ NextNode \subseteq due
           /\ \E c \in 0 .. n_chains - 1, p \in Nat :
                StandsAt(NextNode,
                         IF Behind # {} \/ NextChain = {} THEN iterChain
                           ELSE (CHOOSE d \in NextChain : TRUE) + 1,
                         due \ NextNode, c, p)
  <2>1. PICK c \in 0 .. n_chains - 1, p \in Nat : StandsAt(iterNode', iterChain', due', c, p)
    BY <1>4 DEF HT_Next
  <2>2. /\ iterChain' = c + 1 /\ p \in 1 .. Len(chains[c]) /\ iterNode' = {chains[c][p]}
        /\ due' = From(chains, n_chains, iterChain') \cup After(chains[c], p)
    BY <2>1 DEF StandsAt
  <2>3. /\ iterChain' \in 0 .. n_chains /\ iterChain' > 0 /\ iterChain' - 1 = c
    BY <2>2, SomeChain DEF TableOK
  <2>4. Iterating'
    BY <1>1, <2>2, <2>3 DEF Iterating, AtNode
  <2> QED BY <1>2, <2>4 DEF TableInv
<1> QED BY <1>3, <1>4, NextIs

\* What is behind a node stays when the node is taken out.
LEMMA AfterRemoved ==
  ASSUME NEW s \in Seq(Nodes), NEW p \in 1 .. Len(s)
  PROVE  After(RemoveAt(s, p), p - 1) = After(s, p)
<1> DEFINE r == RemoveAt(s, p)
           l == Len(s)
<1>1. /\ l \in Nat /\ p \in 1..l /\ Len(r) = l - 1
      /\ \A j \in 1..l - 1 : r[j] = IF j < p THEN s[j] ELSE s[j + 1]
  BY Removed
<1> HIDE DEF r, l
<1>2. \A j \in p .. l - 1 : r[j] = s[j + 1] /\ j + 1 \in p + 1 .. l
  <2> TAKE j \in p .. l - 1
  <2>1. j \in 1 .. l - 1 /\ ~(j < p) /\ j + 1 \in p + 1 .. l
    BY <1>1
  <2> QED BY <1>1, <2>1
<1>3. \A i \in p + 1 .. l : i - 1 \in p .. l - 1 /\ (i - 1) + 1 = i
  BY <1>1
<1>4. (p - 1) + 1 = p
  BY <1>1
<1>5. After(r, p - 1) = {r[j] : j \in p .. l - 1}
  BY <1>1, <1>4 DEF After
<1>6. After(s, p) = {s[i] : i \in p + 1 .. l}
  BY DEF After, l
<1>7. ASSUME NEW i \in p + 1 .. l PROVE \E j \in p .. l - 1 : r[j] = s[i]
  <2>1. r[i - 1] = s[i]
    BY <1>2, <1>3
  <2> QED BY <1>3, <2>1
<1> QED BY <1>2, <1>5, <1>6, <1>7 DEF r

\* HT_remove_at_Iter takes out the node returned last; what is due stays so.
LEMMA RemoveAtIterStep ==
  ASSUME TableOK, Iterating, HT_remove_at_Iter
  PROVE  TableInv' /\ \E m \in Contents : Contents' = Contents \ {m}
<1> DEFINE c == iterChain - 1
           s == chains[c]
<1>1. n_chains \in Nat \ {0} /\ Chained(chains, n_chains)
  BY SomeChain DEF TableOK
<1>2. PICK n \in iterNode : Unlink(n.key, Place(n)) /\ SteppedBack(n)
  BY DEF HT_remove_at_Iter
<1>3. PICK p \in 1 .. Len(s) : AtNode(p)
  BY <1>2 DEF Iterating, BeforeChain
<1>4. c \in 0 .. n_chains - 1 /\ iterChain \in 1 .. n_chains /\ c + 1 = iterChain
  BY <1>1, <1>2 DEF Iterating, BeforeChain
<1>5. s \in Seq(Nodes) /\ Once(s) /\ Len(s) \in Nat
  BY <1>4, ChainIs
<1>6. n = s[p]
  BY <1>2, <1>3 DEF AtNode
<1>7. CHAIN_NO(n.key, n_chains) = c /\ Place(n) = p
  BY <1>4, <1>6, PlaceIs
<1>8. TableOK' /\ n \in Contents /\ Contents' = Contents \ {n}
  BY <1>2, <1>4, <1>6, <1>7, UnlinkStep
<1>9. /\ n_chains' = n_chains /\ chains' = [chains EXCEPT ![c] = RemoveAt(s, p)]
  BY <1>2, <1>7 DEF Unlink
<1>10. chains'[c] = RemoveAt(s, p)
  BY <1>1, <1>4, <1>9 DEF Chained
<1>11. due' = From(chains, n_chains, iterChain) \cup After(s, p)
  BY <1>3 DEF AtNode, HT_remove_at_Iter
<1>12. From(chains', n_chains', iterChain) = From(chains, n_chains, iterChain)
  <2>1. n \notin From(chains, n_chains, iterChain)
    BY <1>1, <1>4, <1>6, NotFrom
  <2> QED BY <1>8, <1>9, <2>1 DEF From, Contents
<1>13. After(chains'[c], p - 1) = After(s, p)
  BY <1>5, <1>10, AfterRemoved
<1>14. due' = From(chains', n_chains', iterChain) \cup After(chains'[c], p - 1)
  BY <1>11, <1>12, <1>13
<1>15. CASE p = 1
  <2>1. iterNode' = {} /\ iterChain' = c
    BY <1>2, <1>7, <1>15 DEF SteppedBack
  <2>2. Chained(chains', n_chains')
    BY <1>8 DEF TableOK
  <2>3. From(chains', n_chains', c) = From(chains', n_chains', c + 1) \cup After(chains'[c], 0)
    BY <1>1, <1>4, <1>9, <2>2, FromNext
  <2>4. p - 1 = 0
    BY <1>15
  <2>5. due' = From(chains', n_chains', iterChain')
    BY <1>4, <1>14, <2>1, <2>3, <2>4
  <2>6. iterChain' \in 0 .. n_chains'
    BY <1>1, <1>4, <1>9, <2>1
  <2>7. Iterating'
    BY <2>1, <2>5, <2>6 DEF Iterating, BeforeChain
  <2> QED BY <1>8, <2>7 DEF TableInv
<1>16. CASE p # 1
  <2>1. iterNode' = {s[p - 1]} /\ iterChain' = iterChain
    BY <1>2, <1>7, <1>16 DEF SteppedBack
  <2>2. p - 1 \in 1 .. Len(s) - 1 /\ p - 1 < p
    BY <1>3, <1>5, <1>16
  <2>3. Len(chains'[c]) = Len(s) - 1 /\ chains'[c][p - 1] = s[p - 1]
    BY <1>3, <1>5, <1>10, <2>2, Removed
  <2>4. AtNode(p - 1)'
    BY <1>14, <2>1, <2>3 DEF AtNode
  <2>5. iterChain' \in 0 .. n_chains' /\ iterChain' > 0
    BY <1>1, <1>4, <1>9, <2>1
  <2>6. p - 1 \in 1 .. Len(chains'[iterChain' - 1])
    BY <2>1, <2>2, <2>3
  <2>7. Iterating'
    BY <2>4, <2>5, <2>6 DEF Iterating
  <2> QED BY <1>8, <2>7 DEF TableInv
<1> QED BY <1>15, <1>16

\* How a step may change what the table holds: by one node added, by one taken out, or
\* by all of them taken out.
ContentsStep ==
  \/ Contents' = Contents
  \/ \E n \in Nodes : n \notin Contents /\ Contents' = Contents \cup {n}
  \/ \E n \in Contents : Contents' = Contents \ {n}
  \/ Contents' = {}

\* Every step keeps the invariant.
LEMMA StepInv ==
  ASSUME TableInv, [Next]_vars PROVE TableInv' /\ ContentsStep
<1>1. TableOK /\ (iterOK => Iterating)
  BY DEF TableInv
<1>2. NodesIn = Contents
  BY <1>1, ArrayIs DEF Contents
<1>3. ASSUME NEW n \in Nodes \ NodesIn, HT_add_node(n) PROVE TableInv' /\ ContentsStep
  <2>1. TableOK' /\ Contents' = Contents \cup {n}
    BY <1>1, <1>2, <1>3, AddStep
  <2>2. iterOK' = FALSE
    BY <1>3 DEF HT_add_node, IterSpoilt
  <2> QED BY <1>2, <2>1, <2>2 DEF TableInv, ContentsStep
<1>4. ASSUME NEW n \in Nodes, HT_remove(n.key) \/ HT_gen_remove(n)
      PROVE  TableInv' /\ ContentsStep
  <2>1. /\ TableOK' /\ iterOK' = FALSE
        /\ Contents' = Contents \/ \E m \in Contents : Contents' = Contents \ {m}
    BY <1>1, <1>4, RemoveStep
  <2> QED BY <2>1 DEF TableInv, ContentsStep
<1>5. CASE HT_ResetIter
  BY <1>1, <1>5, ResetStep DEF ContentsStep
<1>6. CASE HT_Next
  <2>1. iterOK
    BY <1>6 DEF HT_Next
  <2> QED BY <1>1, <1>6, <2>1, NextStep DEF ContentsStep
<1>7. CASE HT_remove_at_Iter
  <2>1. iterOK
    BY <1>7 DEF HT_remove_at_Iter
  <2> QED BY <1>1, <1>7, <2>1, RemoveAtIterStep DEF ContentsStep
<1>8. CASE HT_destruct
  BY <1>8, DestructStep DEF ContentsStep
<1>9. CASE UNCHANGED vars
  <2>1. /\ n_chains' = n_chains /\ n_elements' = n_elements /\ chains' = chains
        /\ iterNode' = iterNode /\ iterChain' = iterChain /\ iterOK' = iterOK /\ due' = due
    BY <1>9 DEF vars, iterVars
  <2>2. TableOK' /\ Contents' = Contents
    BY <1>1, <2>1 DEF TableOK, Contents
  <2>3. iterOK' => Iterating'
    BY <1>1, <2>1 DEF Iterating, BeforeChain, AtNode
  <2> QED BY <2>2, <2>3 DEF TableInv, ContentsStep
<1> QED BY <1>3, <1>4, <1>5, <1>6, <1>7, <1>8, <1>9 DEF Next

-----------------------------------------------------------------------------
(* The theorems.                                                           *)

\* Whatever is added, removed and iterated over, and however often resize moves the
\* nodes to more chains: every node is in the one chain its key leads to, once,
\* n_elements counts the nodes, and an iteration not spoilt has due what is behind it.
THEOREM TableInvariant == Spec => []TableInv
<1>1. HT_construct => TableInv
  BY InitInv
<1>2. TableInv /\ [Next]_vars => TableInv'
  BY StepInv
<1> QED BY <1>1, <1>2, PTL DEF Spec

\* HT_lookup and HT_gen_lookup find a node exactly when there is one.
THEOREM LookupsComplete == Spec => []LookupComplete
<1>1. TableInv => LookupComplete
  <2> SUFFICES ASSUME TableOK, NEW n \in Nodes
               PROVE  /\ {m.key : m \in HT_lookup(n.key)} = {m.key : m \in NodesIn} \cap {n.key}
                      /\ HT_gen_lookup(n) = NodesIn \cap {n}
    BY DEF LookupComplete, TableInv
  <2> DEFINE c == CHAIN_NO(n.key, n_chains)
             s == chains[c]
             i == FirstOfKey(n.key)
             j == PlaceOf(n)
  <2>1. n_chains \in Nat \ {0} /\ Chained(chains, n_chains) /\ c \in 0 .. n_chains - 1
    BY SomeChain, ChainNo DEF TableOK
  <2>2. NodesIn = Contents
    BY ArrayIs DEF Contents
  <2>3. HT_lookup(n.key) = {s[k] : k \in {i} \ {0}}
    BY DEF HT_lookup, Found, FirstOfKey
  <2>4. HT_gen_lookup(n) = {s[k] : k \in {j} \ {0}}
    BY DEF HT_gen_lookup, Found, PlaceOf
  <2>5. \/ i \in 1 .. Len(s) /\ s[i].key = n.key
        \/ i = 0 /\ \A m : In(m, s) => m.key # n.key
    BY FirstOfKeyIs
  <2>6. \/ j \in 1 .. Len(s) /\ s[j] = n
        \/ j = 0 /\ ~In(n, s)
    BY PlaceOfIs
  <2>7. \A m : In(m, s) => m \in Contents
    BY <2>1, InHeld DEF Contents
  <2>8. \A m \in Contents : m.key = n.key => In(m, s)
    BY DEF Contents, Held
  <2> HIDE DEF s, c, i, j
  <2>9. {m.key : m \in HT_lookup(n.key)} = {m.key : m \in NodesIn} \cap {n.key}
    <3>1. CASE i \in 1 .. Len(s) /\ s[i].key = n.key
      <4>1. HT_lookup(n.key) = {s[i]}
        BY <2>3, <3>1
      <4>2. s[i] \in Contents
        BY <2>7, <3>1 DEF In
      <4> QED BY <2>2, <3>1, <4>1, <4>2
    <3>2. CASE i = 0 /\ \A m : In(m, s) => m.key # n.key
      <4>1. HT_lookup(n.key) = {}
        BY <2>3, <3>2
      <4>2. \A m \in Contents : m.key # n.key
        BY <2>8, <3>2
      <4> QED BY <2>2, <4>1, <4>2
    <3> QED BY <2>5, <3>1, <3>2
  <2>10. HT_gen_lookup(n) = NodesIn \cap {n}
    <3>1. CASE j \in 1 .. Len(s) /\ s[j] = n
      <4>1. HT_gen_lookup(n) = {n} /\ In(n, s)
        BY <2>4, <3>1 DEF In
      <4> QED BY <2>2, <2>7, <4>1
    <3>2. CASE j = 0 /\ ~In(n, s)
      <4>1. HT_gen_lookup(n) = {} /\ n \notin Contents
        BY <2>4, <2>8, <3>2
      <4> QED BY <2>2, <4>1
    <3> QED BY <2>6, <3>1, <3>2
  <2> QED BY <2>9, <2>10
<1> QED BY <1>1, TableInvariant, PTL

\* n_elements is the length of the array of HT_to_array, in which no node is twice.
THEOREM CountExact == Spec => []CountIsExact
<1>1. TableInv => CountIsExact
  BY ArrayIs DEF TableInv, CountIsExact
<1> QED BY <1>1, TableInvariant, PTL

\* An iteration returns what is due and nothing else, until nothing is.
THEOREM IterationsExact == Spec => []IterationExact
<1>1. TableInv => IterationExact
  <2> SUFFICES ASSUME TableOK, Iterating
               PROVE  IF NextNode = {} THEN due = {} ELSE NextNode \subseteq due
    BY DEF TableInv, IterationExact
  <2> QED BY NextIs
<1> QED BY <1>1, TableInvariant, PTL

\* What is in the table is what NodesIn says.
ContentsLaw == NodesIn = Contents

\* The hash table implements the multimap: every operation, resize included, adds one
\* node, takes one out, takes all out or leaves them.
THEOREM TableIsMultimap == Spec => MultimapSpec
<1>1. TableInv => ContentsLaw
  BY ArrayIs DEF TableInv, ContentsLaw, Contents
<1>2. HT_construct => Table!Init
  <2> SUFFICES ASSUME HT_construct PROVE NodesIn = {}
    BY DEF Table!Init
  <2>1. n_chains = Primes[1] /\ chains = Empty(n_chains)
    BY DEF HT_construct, Empty
  <2>2. Contents = {}
    BY <2>1, Constructed DEF Contents
  <2> QED BY <1>1, <2>2, InitInv DEF ContentsLaw
<1>3. TableInv /\ ContentsLaw /\ ContentsLaw' /\ [Next]_vars => [Table!Next]_NodesIn
  <2> SUFFICES ASSUME TableInv, ContentsLaw, ContentsLaw', [Next]_vars
               PROVE  Table!Next \/ NodesIn' = NodesIn
    OBVIOUS
  <2>1. NodesIn = Contents /\ NodesIn' = Contents'
    BY DEF ContentsLaw
  <2>2. ContentsStep
    BY StepInv
  <2>3. Contents \subseteq Nodes
    BY DEF Contents, Held
  <2>4. CASE \E n \in Nodes : n \notin Contents /\ Contents' = Contents \cup {n}
    BY <2>1, <2>4 DEF Table!Next, Table!Add
  <2>5. CASE \E n \in Contents : Contents' = Contents \ {n}
    BY <2>1, <2>3, <2>5 DEF Table!Next, Table!Remove
  <2>6. CASE Contents' = {}
    BY <2>1, <2>6 DEF Table!Next, Table!Clear
  <2> QED BY <2>1, <2>2, <2>4, <2>5, <2>6 DEF ContentsStep
<1> QED BY <1>1, <1>2, <1>3, TableInvariant, PTL DEF Spec, MultimapSpec, Table!Spec

\* HT_remove_at_Iter never takes out a node that the iteration has still to return: what
\* is due is in the table.
THEOREM DueNodesHeld == Spec => [](iterOK => due \subseteq NodesIn)
<1>1. TableInv => (iterOK => due \subseteq NodesIn)
  <2> SUFFICES ASSUME TableOK, Iterating PROVE due \subseteq Contents
    BY ArrayIs DEF TableInv, Contents
  <2>1. n_chains \in Nat \ {0} /\ Chained(chains, n_chains) /\ iterChain \in 0 .. n_chains
    BY SomeChain DEF TableOK, Iterating
  <2>2. From(chains, n_chains, iterChain) \subseteq Contents
    BY DEF From, Contents
  <2>3. CASE BeforeChain
    BY <2>2, <2>3 DEF BeforeChain
  <2>4. CASE iterChain > 0 /\ \E p \in 1 .. Len(chains[iterChain - 1]) : AtNode(p)
    <3> DEFINE c == iterChain - 1
    <3>1. PICK p \in 1 .. Len(chains[c]) : AtNode(p)
      BY <2>4
    <3>2. c \in 0 .. n_chains - 1
      BY <2>1, <2>4
    <3>3. due = From(chains, n_chains, iterChain) \cup After(chains[c], p)
      BY <3>1 DEF AtNode
    <3>4. p \in Nat /\ Len(chains[c]) \in Nat
      BY <3>1, <3>2, ChainIs
    <3> HIDE DEF c
    <3>5. \A m \in After(chains[c], p) : In(m, chains[c])
      <4>1. \A i \in p + 1 .. Len(chains[c]) : i \in 1 .. Len(chains[c])
        BY <3>4
      <4> QED BY <4>1 DEF After, In
    <3>6. After(chains[c], p) \subseteq Contents
      BY <2>1, <3>2, <3>5, InHeld DEF Contents
    <3> QED BY <2>2, <3>3, <3>6
  <2> QED BY <2>3, <2>4 DEF Iterating
<1> QED BY <1>1, TableInvariant, PTL
=============================================================================
