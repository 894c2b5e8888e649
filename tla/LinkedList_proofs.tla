-------------------------- MODULE LinkedList_proofs --------------------------
(***************************************************************************)
(* Proofs about the linked list, for any addresses and items, any sequence  *)
(* of calls and any of them without memory.                                 *)
(*                                                                          *)
(* A list is linked along a chain c: the sequence of its nodes.  Every call *)
(* either puts one node into the chain or takes one out of it, and two      *)
(* lemmas, Inserted and Removed, say once for all places what such a call   *)
(* has to do to the cells next to it.  The rest is to show that the special *)
(* cases of the functions, for the first node, for the last, for one in     *)
(* between and for the only one, are instances of them.                     *)
(***************************************************************************)
EXTENDS LinkedList, FiniteSetTheorems, SequenceTheorems, TLAPS

(* A set of naturals has a least element: induction, for all that a walk    *)
(* along the nodes computes.                                                *)
LEMMA LeastNumber ==
  ASSUME NEW T, T \subseteq Nat, T # {}
  PROVE  \E n \in T : \A m \in T : n <= m
<1> DEFINE R == OpToRel(<, Nat)
<1>1. IsWellFoundedOn(R, Nat)
  BY NatLessThanWellFounded
<1>2. \A x, y \in Nat : <<y, x>> \in R <=> y < x
  BY DEF OpToRel
<1> HIDE DEF R
<1>3. PICK n \in T : \A y \in T : ~ (<<y, n>> \in R)
  BY <1>1, WFMin
<1>4. ASSUME NEW m \in T
      PROVE  n <= m
  <2>1. ~ (m < n)
    BY <1>2, <1>3
  <2> QED
    BY <2>1
<1> QED
  BY <1>4

Cells == [item : Items \cup {NULL}, prev : Nodes \cup {NULL},
          next : Nodes \cup {NULL}]

Lists == [head : Nodes \cup {NULL}, tail : Nodes \cup {NULL}, length : Nat,
          cell : [Nodes -> Cells]]

(* What stands in front of place i of the chain c, and behind it.           *)
Before(c, i) == IF i = 1 THEN NULL ELSE c[i - 1]

Behind(L, c, i) == IF i = L.length THEN NULL ELSE c[i + 1]

(* The list L is linked along c.                                            *)
LinkedAlong(L, c) ==
  /\ c \in [1 .. L.length -> Nodes]
  /\ \A i, j \in 1 .. L.length : c[i] = c[j] => i = j
  /\ \A i \in 1 .. L.length :
       /\ L.cell[c[i]].item \in Items
       /\ L.cell[c[i]].prev = Before(c, i)
       /\ L.cell[c[i]].next = Behind(L, c, i)
  /\ \A n \in Nodes : (\A i \in 1 .. L.length : c[i] # n) => L.cell[n] = Free
  /\ L.head = IF L.length = 0 THEN NULL ELSE c[1]
  /\ L.tail = IF L.length <= 1 THEN NULL ELSE c[L.length]

(* What it stores.                                                          *)
ItemsAlong(L, c) == [i \in 1 .. L.length |-> L.cell[c[i]].item]

-----------------------------------------------------------------------------
(* A walk along next from the head passes the chain in its order.           *)
LEMMA WalkFollowsChain ==
  ASSUME NEW L \in Lists, NEW c, LinkedAlong(L, c), NEW i \in 0 .. L.length - 1
  PROVE  NodeAt(L, i) = c[i + 1]
<1> DEFINE Walks(at) ==
             at = [k \in 0 .. i |-> IF k = 0 THEN L.head
                                             ELSE L.cell[at[k - 1]].next]
           g == [k \in 0 .. i |-> c[k + 1]]
<1>0. L.length \in Nat /\ i + 1 \in 1 .. L.length
  BY DEF Lists
<1>1. Walks(g)
  <2>1. ASSUME NEW k \in 0 .. i
        PROVE  c[k + 1] = IF k = 0 THEN L.head ELSE L.cell[g[k - 1]].next
    <3>1. CASE k = 0
      BY <1>0, <3>1 DEF LinkedAlong
    <3>2. CASE k # 0
      <4>1. k \in 1 .. L.length /\ k # L.length /\ k - 1 \in 0 .. i
        BY <1>0, <3>2
      <4>2. g[k - 1] = c[k]
        BY <4>1
      <4>3. L.cell[c[k]].next = c[k + 1]
        BY <4>1 DEF LinkedAlong, Behind
      <4> QED
        BY <3>2, <4>2, <4>3
    <3> QED
      BY <3>1, <3>2
  <2> QED
    BY <2>1
<1>2. ASSUME NEW f, Walks(f)
      PROVE  f[i] = c[i + 1]
  <2> DEFINE T == {k \in 0 .. i : f[k] # c[k + 1]}
  <2> SUFFICES ASSUME T # {}
               PROVE  FALSE
    BY <1>0
  <2>1. PICK k \in T : \A m \in T : k <= m
    <3>1. T \subseteq Nat
      OBVIOUS
    <3> HIDE DEF T
    <3> QED
      BY <3>1, LeastNumber
  <2>2. f[k] = IF k = 0 THEN L.head ELSE L.cell[f[k - 1]].next
    BY <1>2
  <2>3. k # 0
    BY <1>0, <2>1, <2>2 DEF LinkedAlong
  <2>4. k - 1 \in 0 .. i /\ k - 1 \notin T
    BY <1>0, <2>1, <2>3
  <2>5. f[k - 1] = c[k]
    BY <2>4, <1>0
  <2>6. k \in 1 .. L.length /\ k # L.length
    BY <1>0, <2>1, <2>3
  <2>7. L.cell[c[k]].next = c[k + 1]
    BY <2>6 DEF LinkedAlong, Behind
  <2> QED
    BY <2>1, <2>2, <2>3, <2>5, <2>7
<1>3. Walks(CHOOSE at : Walks(at))
  BY <1>1
<1>4. NodeAt(L, i) = (CHOOSE at : Walks(at))[i]
  BY DEF NodeAt
<1> QED
  BY <1>2, <1>3, <1>4

-----------------------------------------------------------------------------
(* A sequence of length len with v at place p, and without its place p.     *)
With(s, len, p, v) ==
  [i \in 1 .. len + 1 |-> IF i < p THEN s[i] ELSE IF i = p THEN v ELSE s[i - 1]]

Less(s, len, p) == [i \in 1 .. len - 1 |-> IF i < p THEN s[i] ELSE s[i + 1]]

(* What a call does that puts the node n with x at place p of the chain: it *)
(* links n both ways, and its neighbours to it.                             *)
Inserts(L, M, c, p, n, x) ==
  /\ M.length = L.length + 1
  /\ M.head = IF p = 1 THEN n ELSE c[1]
  /\ M.tail = IF L.length = 0 THEN NULL
              ELSE IF p = L.length + 1 THEN n ELSE c[L.length]
  /\ M.cell[n].item = x
  /\ M.cell[n].prev = Before(c, p)
  /\ M.cell[n].next = IF p = L.length + 1 THEN NULL ELSE c[p]
  /\ \A m \in Nodes \ {n} :
       /\ M.cell[m].item = L.cell[m].item
       /\ M.cell[m].prev =
            IF p <= L.length /\ m = c[p] THEN n ELSE L.cell[m].prev
       /\ M.cell[m].next =
            IF p > 1 /\ m = c[p - 1] THEN n ELSE L.cell[m].next

(* A node that is not used is nowhere in the chain.                         *)
LEMMA UnusedNotInChain ==
  ASSUME ListAssumption, NEW L \in Lists, NEW c, LinkedAlong(L, c),
         NEW n \in Nodes \ Used(L)
  PROVE  \A i \in 1 .. L.length : c[i] # n
BY DEF ListAssumption, Used, Free, LinkedAlong

(* After such a call the list is linked along the longer chain.             *)
LEMMA Inserted ==
  ASSUME ListAssumption,
         NEW L \in Lists, NEW c, LinkedAlong(L, c),
         NEW M \in Lists, NEW n \in Nodes \ Used(L), NEW x \in Items,
         NEW p \in 1 .. L.length + 1, Inserts(L, M, c, p, n, x)
  PROVE  /\ LinkedAlong(M, With(c, L.length, p, n))
         /\ ItemsAlong(M, With(c, L.length, p, n))
              = With(ItemsAlong(L, c), L.length, p, x)
<1> DEFINE d == With(c, L.length, p, n)
<1>0. /\ L.length \in Nat /\ M.length \in Nat /\ M.length = L.length + 1
      /\ p \in Nat /\ p >= 1 /\ p <= L.length + 1
  <2>1. L.length \in Nat /\ M.length = L.length + 1
    BY DEF Lists, Inserts
  <2> QED
    BY <2>1
<1>1. \A i \in 1 .. L.length : c[i] \in Nodes /\ c[i] # n
  <2>1. \A i \in 1 .. L.length : c[i] # n
    BY UnusedNotInChain
  <2> QED
    BY <2>1 DEF LinkedAlong
<1>2. /\ d \in [1 .. M.length -> Nodes]
      /\ d[p] = n
      /\ \A i \in 1 .. M.length : i < p => d[i] = c[i] /\ i \in 1 .. L.length
      /\ \A i \in 1 .. M.length : i > p => d[i] = c[i - 1] /\ i - 1 \in 1 .. L.length
  <2>1. ASSUME NEW i \in 1 .. L.length + 1
        PROVE  /\ i < p => i \in 1 .. L.length
               /\ i > p => i - 1 \in 1 .. L.length
               /\ i = p \/ i < p \/ i > p
    BY <1>0
  <2>2. ASSUME NEW i \in 1 .. L.length + 1
        PROVE  (IF i < p THEN c[i] ELSE IF i = p THEN n ELSE c[i - 1]) \in Nodes
    BY <1>1, <2>1
  <2>3. d \in [1 .. L.length + 1 -> Nodes]
    BY <2>2 DEF With
  <2>4. p \in 1 .. L.length + 1
    BY <1>0
  <2>5. d[p] = n
    BY <1>0, <2>4 DEF With
  <2>6. ASSUME NEW i \in 1 .. L.length + 1
        PROVE  (i < p => d[i] = c[i]) /\ (i > p => d[i] = c[i - 1])
    BY <1>0 DEF With
  <2> QED
    BY <1>0, <2>1, <2>3, <2>5, <2>6
<1> HIDE DEF d
<1>3. \A i, j \in 1 .. M.length : d[i] = d[j] => i = j
  <2> SUFFICES ASSUME NEW i \in 1 .. M.length, NEW j \in 1 .. M.length,
                      d[i] = d[j]
               PROVE  i = j
    OBVIOUS
  <2>1. \A a, b \in 1 .. L.length : c[a] = c[b] => a = b
    BY DEF LinkedAlong
  <2>2. CASE i = p \/ j = p
    BY <1>0, <1>1, <1>2, <2>2
  <2>3. CASE i < p /\ j # p
    BY <1>0, <1>2, <2>1, <2>3
  <2>4. CASE i > p /\ j # p
    BY <1>0, <1>2, <2>1, <2>4
  <2> QED
    BY <1>0, <2>2, <2>3, <2>4
<1>4. ASSUME NEW i \in 1 .. M.length
      PROVE  /\ M.cell[d[i]].item = IF i < p THEN L.cell[c[i]].item
                                    ELSE IF i = p THEN x
                                    ELSE L.cell[c[i - 1]].item
             /\ M.cell[d[i]].prev = Before(d, i)
             /\ M.cell[d[i]].next = Behind(M, d, i)
  <2>1. CASE i = p
    <3>1. M.cell[d[i]].prev = Before(d, i)
      BY <1>0, <1>2, <2>1 DEF Inserts, Before
    <3>2. M.cell[d[i]].next = Behind(M, d, i)
      BY <1>0, <1>2, <2>1 DEF Inserts, Behind
    <3> QED
      BY <1>2, <2>1, <3>1, <3>2 DEF Inserts
  <2>2. CASE i < p
    <3>1. d[i] = c[i] /\ i \in 1 .. L.length /\ c[i] \in Nodes \ {n}
      BY <1>1, <1>2, <2>2
    <3>2. ~(p <= L.length /\ c[i] = c[p])
      BY <1>0, <2>2, <3>1 DEF LinkedAlong
    <3>3. M.cell[d[i]].prev = Before(c, i)
      BY <3>1, <3>2 DEF Inserts, LinkedAlong
    <3>4. Before(c, i) = Before(d, i)
      BY <1>0, <1>2, <2>2 DEF Before
    <3>5. M.cell[d[i]].next = Behind(M, d, i)
      <4>1. CASE i = p - 1
        BY <1>0, <1>2, <3>1, <4>1 DEF Inserts, Behind
      <4>2. CASE i < p - 1
        <5>1. c[i] # c[p - 1] /\ i # L.length /\ i + 1 < p
          BY <1>0, <3>1, <4>2 DEF LinkedAlong
        <5>2. M.cell[d[i]].next = c[i + 1]
          BY <3>1, <5>1 DEF Inserts, LinkedAlong, Behind
        <5> QED
          BY <1>0, <1>2, <5>1, <5>2 DEF Behind
      <4> QED
        BY <1>0, <2>2, <4>1, <4>2
    <3> QED
      BY <1>0, <2>2, <3>1, <3>3, <3>4, <3>5 DEF Inserts
  <2>3. CASE i > p
    <3>1. d[i] = c[i - 1] /\ i - 1 \in 1 .. L.length /\ c[i - 1] \in Nodes \ {n}
      BY <1>1, <1>2, <2>3
    <3>2. ~(p > 1 /\ c[i - 1] = c[p - 1])
      BY <1>0, <2>3, <3>1 DEF LinkedAlong
    <3>3. M.cell[d[i]].next = Behind(L, c, i - 1)
      BY <3>1, <3>2 DEF Inserts, LinkedAlong
    <3>4. Behind(L, c, i - 1) = Behind(M, d, i)
      <4>1. i - 1 = L.length <=> i = M.length
        BY <1>0
      <4>2. (i - 1) + 1 = i /\ (i + 1) - 1 = i
        OBVIOUS
      <4>3. i # M.length => d[i + 1] = c[i]
        BY <1>0, <1>2, <2>3, <4>2
      <4> QED
        BY <4>1, <4>2, <4>3 DEF Behind
    <3>5. M.cell[d[i]].prev = Before(d, i)
      <4>1. CASE i = p + 1
        BY <1>0, <1>2, <3>1, <4>1 DEF Inserts, Before
      <4>2. CASE i > p + 1
        <5>1. c[i - 1] # c[p] /\ i - 1 # 1 /\ i - 1 > p
          BY <1>0, <3>1, <4>2 DEF LinkedAlong
        <5>2. M.cell[d[i]].prev = c[i - 2]
          BY <3>1, <5>1 DEF Inserts, LinkedAlong, Before
        <5> QED
          BY <1>0, <1>2, <5>1, <5>2 DEF Before
      <4> QED
        BY <1>0, <2>3, <4>1, <4>2
    <3> QED
      BY <1>0, <2>3, <3>1, <3>3, <3>4, <3>5 DEF Inserts
  <2> QED
    BY <1>0, <2>1, <2>2, <2>3
<1>5. \A i \in 1 .. M.length : M.cell[d[i]].item \in Items
  <2>1. \A j \in 1 .. L.length : L.cell[c[j]].item \in Items
    BY DEF LinkedAlong
  <2> QED
    BY <1>0, <1>2, <1>4, <2>1
<1>6. ASSUME NEW m \in Nodes, \A i \in 1 .. M.length : d[i] # m
      PROVE  M.cell[m] = Free
  <2>1. m # n /\ \A j \in 1 .. L.length : c[j] # m
    <3>1. p \in 1 .. M.length
      BY <1>0
    <3>2. ASSUME NEW j \in 1 .. L.length
          PROVE  c[j] # m
      <4>1. CASE j < p
        BY <1>0, <1>2, <1>6, <4>1
      <4>2. CASE j >= p
        <5>1. j + 1 \in 1 .. M.length /\ j + 1 > p /\ (j + 1) - 1 = j
          BY <1>0, <4>2
        <5>2. d[j + 1] = c[j]
          BY <1>2, <5>1
        <5> QED
          BY <1>6, <5>1, <5>2
      <4> QED
        BY <1>0, <4>1, <4>2
    <3> QED
      BY <1>2, <1>6, <3>1, <3>2
  <2>2. L.cell[m] = Free
    BY <2>1 DEF LinkedAlong
  <2>3. M.cell[m].item = NULL /\ M.cell[m].prev = NULL /\ M.cell[m].next = NULL
    BY <1>0, <2>1, <2>2 DEF Inserts, Free
  <2>4. M.cell[m] \in Cells
    BY DEF Lists
  <2> QED
    BY <2>3, <2>4 DEF Cells, Free
<1>7. /\ M.head = IF M.length = 0 THEN NULL ELSE d[1]
      /\ M.tail = IF M.length <= 1 THEN NULL ELSE d[M.length]
  BY <1>0, <1>2 DEF Inserts
<1>8. LinkedAlong(M, d)
  BY <1>2, <1>3, <1>4, <1>5, <1>6, <1>7 DEF LinkedAlong
<1>9. ItemsAlong(M, d) = With(ItemsAlong(L, c), L.length, p, x)
  <2>1. ASSUME NEW i \in 1 .. L.length + 1
        PROVE  M.cell[d[i]].item = IF i < p THEN ItemsAlong(L, c)[i]
                                   ELSE IF i = p THEN x
                                   ELSE ItemsAlong(L, c)[i - 1]
    BY <1>0, <1>4 DEF ItemsAlong
  <2> QED
    BY <1>0, <2>1 DEF ItemsAlong, With
<1> QED
  BY <1>8, <1>9 DEF d

-----------------------------------------------------------------------------
(* What a call does that takes the node at place p out of the chain: it     *)
(* frees the node and links its neighbours to each other.                   *)
Removes(L, M, c, p) ==
  /\ M.length = L.length - 1
  /\ M.head = IF L.length = 1 THEN NULL ELSE IF p = 1 THEN c[2] ELSE c[1]
  /\ M.tail = IF L.length <= 2 THEN NULL
              ELSE IF p = L.length THEN c[L.length - 1] ELSE c[L.length]
  /\ M.cell[c[p]] = Free
  /\ \A m \in Nodes \ {c[p]} :
       /\ M.cell[m].item = L.cell[m].item
       /\ M.cell[m].prev =
            IF p < L.length /\ m = c[p + 1] THEN Before(c, p) ELSE L.cell[m].prev
       /\ M.cell[m].next =
            IF p > 1 /\ m = c[p - 1] THEN Behind(L, c, p) ELSE L.cell[m].next

(* After such a call the list is linked along the shorter chain.            *)
LEMMA Removed ==
  ASSUME NEW L \in Lists, NEW c, LinkedAlong(L, c),
         NEW M \in Lists, NEW p \in 1 .. L.length, Removes(L, M, c, p)
  PROVE  /\ LinkedAlong(M, Less(c, L.length, p))
         /\ ItemsAlong(M, Less(c, L.length, p)) = Less(ItemsAlong(L, c), L.length, p)
<1> DEFINE d == Less(c, L.length, p)
<1>0. /\ L.length \in Nat /\ M.length \in Nat /\ L.length = M.length + 1
      /\ p \in Nat /\ p >= 1 /\ p <= L.length
  <2>1. L.length \in Nat /\ M.length \in Nat /\ M.length = L.length - 1
    BY DEF Lists, Removes
  <2> QED
    BY <2>1
<1>1. /\ \A i \in 1 .. L.length : c[i] \in Nodes
      /\ \A i, j \in 1 .. L.length : c[i] = c[j] => i = j
  BY DEF LinkedAlong
<1>2. /\ d \in [1 .. M.length -> Nodes]
      /\ \A i \in 1 .. M.length : i < p => d[i] = c[i]
      /\ \A i \in 1 .. M.length : i >= p => d[i] = c[i + 1]
      /\ \A i \in 1 .. M.length : i \in 1 .. L.length /\ i + 1 \in 1 .. L.length
  <2>1. M.length = L.length - 1
    BY <1>0
  <2>2. \A i \in 1 .. M.length : i \in 1 .. L.length /\ i + 1 \in 1 .. L.length
    BY <1>0
  <2>3. \A i \in 1 .. M.length : (IF i < p THEN c[i] ELSE c[i + 1]) \in Nodes
    BY <1>1, <2>2
  <2>4. d = [i \in 1 .. M.length |-> IF i < p THEN c[i] ELSE c[i + 1]]
    BY <2>1 DEF Less
  <2> QED
    BY <1>0, <2>2, <2>3, <2>4
<1> HIDE DEF d
<1>3. \A i, j \in 1 .. M.length : d[i] = d[j] => i = j
  <2> SUFFICES ASSUME NEW i \in 1 .. M.length, NEW j \in 1 .. M.length,
                      d[i] = d[j]
               PROVE  i = j
    OBVIOUS
  <2>1. CASE i < p /\ j < p
    BY <1>1, <1>2, <2>1
  <2>2. CASE i < p /\ j >= p
    <3>1. i = j + 1
      BY <1>1, <1>2, <2>2
    <3> QED
      BY <1>0, <2>2, <3>1
  <2>3. CASE i >= p /\ j < p
    <3>1. i + 1 = j
      BY <1>1, <1>2, <2>3
    <3> QED
      BY <1>0, <2>3, <3>1
  <2>4. CASE i >= p /\ j >= p
    <3>1. i + 1 = j + 1
      BY <1>1, <1>2, <2>4
    <3> QED
      BY <3>1
  <2> QED
    BY <1>0, <2>1, <2>2, <2>3, <2>4
<1>4. ASSUME NEW i \in 1 .. M.length
      PROVE  /\ M.cell[d[i]].item = IF i < p THEN L.cell[c[i]].item
                                    ELSE L.cell[c[i + 1]].item
             /\ M.cell[d[i]].prev = Before(d, i)
             /\ M.cell[d[i]].next = Behind(M, d, i)
  <2>1. CASE i < p
    <3>1. /\ d[i] = c[i] /\ i \in 1 .. L.length /\ i # L.length
          /\ c[i] \in Nodes \ {c[p]}
      BY <1>0, <1>1, <1>2, <2>1
    <3>2. ~(p < L.length /\ c[i] = c[p + 1])
      BY <1>0, <1>1, <2>1, <3>1
    <3>3. M.cell[d[i]].prev = Before(c, i)
      BY <3>1, <3>2 DEF Removes, LinkedAlong
    <3>4. Before(c, i) = Before(d, i)
      BY <1>0, <1>2, <2>1 DEF Before
    <3>5. M.cell[d[i]].next = Behind(M, d, i)
      <4>1. CASE i = p - 1
        <5>1. M.cell[d[i]].next = Behind(L, c, p)
          BY <1>0, <3>1, <4>1 DEF Removes
        <5>2. p = i + 1
          BY <1>0, <4>1
        <5>3. i = M.length <=> p = L.length
          BY <1>0, <5>2
        <5>4. i # M.length => d[i + 1] = c[p + 1]
          BY <1>0, <1>2, <5>2
        <5> QED
          BY <5>1, <5>3, <5>4 DEF Behind
      <4>2. CASE i < p - 1
        <5>1. c[i] # c[p - 1] /\ i + 1 < p /\ i # M.length
          BY <1>0, <1>1, <3>1, <4>2
        <5>2. M.cell[d[i]].next = c[i + 1]
          BY <3>1, <5>1 DEF Removes, LinkedAlong, Behind
        <5> QED
          BY <1>0, <1>2, <5>1, <5>2 DEF Behind
      <4> QED
        BY <1>0, <2>1, <4>1, <4>2
    <3> QED
      BY <2>1, <3>1, <3>3, <3>4, <3>5 DEF Removes
  <2>2. CASE i >= p
    <3>1. /\ d[i] = c[i + 1] /\ i + 1 \in 1 .. L.length /\ i + 1 # 1
          /\ c[i + 1] \in Nodes \ {c[p]}
      BY <1>0, <1>1, <1>2, <2>2
    <3>2. ~(p > 1 /\ c[i + 1] = c[p - 1])
      BY <1>0, <1>1, <2>2, <3>1
    <3>3. M.cell[d[i]].next = Behind(L, c, i + 1)
      BY <3>1, <3>2 DEF Removes, LinkedAlong
    <3>4. Behind(L, c, i + 1) = Behind(M, d, i)
      <4>1. i + 1 = L.length <=> i = M.length
        BY <1>0
      <4>2. i # M.length => d[i + 1] = c[(i + 1) + 1]
        BY <1>0, <1>2, <2>2
      <4> QED
        BY <4>1, <4>2 DEF Behind
    <3>5. M.cell[d[i]].prev = Before(d, i)
      <4>1. CASE i = p
        <5>1. M.cell[d[i]].prev = Before(c, p)
          BY <1>0, <3>1, <4>1 DEF Removes
        <5>2. i # 1 => d[i - 1] = c[p - 1]
          BY <1>0, <1>2, <4>1
        <5> QED
          BY <4>1, <5>1, <5>2 DEF Before
      <4>2. CASE i > p
        <5>1. c[i + 1] # c[p + 1] /\ i # 1 /\ i - 1 >= p /\ p + 1 \in 1 .. L.length
          BY <1>0, <1>1, <3>1, <4>2
        <5>2. M.cell[d[i]].prev = c[(i + 1) - 1]
          BY <3>1, <5>1 DEF Removes, LinkedAlong, Before
        <5>3. (i + 1) - 1 = i /\ (i - 1) + 1 = i /\ i - 1 \in 1 .. M.length
          BY <1>0, <5>1
        <5>4. d[i - 1] = c[i]
          BY <1>2, <5>1, <5>3
        <5> QED
          BY <5>1, <5>2, <5>3, <5>4 DEF Before
      <4> QED
        BY <1>0, <2>2, <4>1, <4>2
    <3> QED
      BY <1>0, <2>2, <3>1, <3>3, <3>4, <3>5 DEF Removes
  <2> QED
    BY <1>0, <2>1, <2>2
<1>5. \A i \in 1 .. M.length : M.cell[d[i]].item \in Items
  <2>1. \A j \in 1 .. L.length : L.cell[c[j]].item \in Items
    BY DEF LinkedAlong
  <2> QED
    BY <1>0, <1>2, <1>4, <2>1
<1>6. ASSUME NEW m \in Nodes, \A i \in 1 .. M.length : d[i] # m
      PROVE  M.cell[m] = Free
  <2>1. CASE m = c[p]
    BY <2>1 DEF Removes
  <2>2. CASE m # c[p]
    <3>1. ASSUME NEW j \in 1 .. L.length
          PROVE  c[j] # m
      <4>1. CASE j < p
        <5>1. j \in 1 .. M.length
          BY <1>0, <4>1
        <5> QED
          BY <1>2, <1>6, <4>1, <5>1
      <4>2. CASE j = p
        BY <2>2, <4>2
      <4>3. CASE j > p
        <5>1. j - 1 \in 1 .. M.length /\ j - 1 >= p /\ (j - 1) + 1 = j
          BY <1>0, <4>3
        <5>2. d[j - 1] = c[j]
          BY <1>2, <5>1
        <5> QED
          BY <1>6, <5>1, <5>2
      <4> QED
        BY <1>0, <4>1, <4>2, <4>3
    <3>2. L.cell[m] = Free
      BY <3>1 DEF LinkedAlong
    <3>3. M.cell[m].item = NULL /\ M.cell[m].prev = NULL /\ M.cell[m].next = NULL
      <4>1. m \in Nodes \ {c[p]}
        BY <2>2
      <4>2. ~(p < L.length /\ m = c[p + 1]) /\ ~(p > 1 /\ m = c[p - 1])
        BY <1>0, <3>1
      <4> QED
        BY <3>2, <4>1, <4>2 DEF Removes, Free
    <3>4. M.cell[m] \in Cells
      BY DEF Lists
    <3> QED
      BY <3>3, <3>4 DEF Cells, Free
  <2> QED
    BY <2>1, <2>2
<1>7. /\ M.head = IF M.length = 0 THEN NULL ELSE d[1]
      /\ M.tail = IF M.length <= 1 THEN NULL ELSE d[M.length]
  <2>1. M.length # 0 => d[1] = IF p = 1 THEN c[2] ELSE c[1]
    BY <1>0, <1>2
  <2>2. M.length # 0 =>
          d[M.length] = IF p = L.length THEN c[L.length - 1] ELSE c[L.length]
    BY <1>0, <1>2
  <2> QED
    BY <1>0, <2>1, <2>2 DEF Removes
<1>8. LinkedAlong(M, d)
  BY <1>2, <1>3, <1>4, <1>5, <1>6, <1>7 DEF LinkedAlong
<1>9. ItemsAlong(M, d) = Less(ItemsAlong(L, c), L.length, p)
  <2>1. ASSUME NEW i \in 1 .. M.length
        PROVE  M.cell[d[i]].item = IF i < p THEN ItemsAlong(L, c)[i]
                                            ELSE ItemsAlong(L, c)[i + 1]
    BY <1>0, <1>2, <1>4 DEF ItemsAlong
  <2>2. M.length = L.length - 1
    BY <1>0
  <2> QED
    BY <2>1, <2>2 DEF ItemsAlong, Less
<1> QED
  BY <1>8, <1>9 DEF d

-----------------------------------------------------------------------------
(* What every proof about a call needs of a list that is linked.            *)
LEMMA ChainFacts ==
  ASSUME ListAssumption, NEW L \in Lists, NEW c, LinkedAlong(L, c)
  PROVE  /\ L.length \in Nat
         /\ \A i \in 1 .. L.length : c[i] \in Nodes /\ L.cell[c[i]] \in Cells
         /\ L.head = NULL <=> L.length = 0
         /\ L.tail = NULL <=> L.length <= 1
         /\ NULL \notin Nodes /\ NULL \notin Items
<1>1. L.length \in Nat /\ L.cell \in [Nodes -> Cells]
  BY DEF Lists
<1>2. \A i \in 1 .. L.length : c[i] \in Nodes
  BY DEF LinkedAlong
<1>3. L.length # 0 => 1 \in 1 .. L.length /\ L.length \in 1 .. L.length
  BY <1>1
<1> QED
  BY <1>1, <1>2, <1>3 DEF ListAssumption, LinkedAlong

(* LinkedList_AddFirst puts the node at the first place.                    *)
LEMMA AddFirstInserts ==
  ASSUME ListAssumption, NEW L \in Lists, NEW c, LinkedAlong(L, c),
         NEW n \in Nodes \ Used(L), NEW x \in Items
  PROVE  /\ AddFirst(L, x, n) \in Lists
         /\ Inserts(L, AddFirst(L, x, n), c, 1, n, x)
<1> DEFINE M == AddFirst(L, x, n)
<1>1. LinkedList_Create(x) \in Cells
  BY DEF LinkedList_Create, Cells
<1>2. n # NULL
  BY DEF ListAssumption
<1>3. CASE L.length = 0
  <2>1. M = [L EXCEPT !.cell[n] = LinkedList_Create(x), !.head = n,
                      !.length = @ + 1]
    BY <1>2, <1>3, ChainFacts DEF AddFirst
  <2>2. M \in Lists
    <3>1. L.length + 1 \in Nat /\ L.tail \in Nodes \cup {NULL}
      BY DEF Lists
    <3>2. [L.cell EXCEPT ![n] = LinkedList_Create(x)] \in [Nodes -> Cells]
      BY <1>1 DEF Lists
    <3>3. M = [head |-> n, tail |-> L.tail, length |-> L.length + 1,
               cell |-> [L.cell EXCEPT ![n] = LinkedList_Create(x)]]
      BY <2>1 DEF Lists
    <3> QED
      BY <3>1, <3>2, <3>3 DEF Lists
  <2>3. /\ M.length = L.length + 1 /\ M.head = n /\ M.tail = L.tail
        /\ M.cell[n] = LinkedList_Create(x)
        /\ \A m \in Nodes \ {n} : M.cell[m] = L.cell[m]
    BY <2>1 DEF Lists
  <2>4. L.tail = NULL
    BY <1>3, ChainFacts
  <2> QED
    BY <1>3, <2>2, <2>3, <2>4 DEF Inserts, LinkedList_Create, Before
<1>4. CASE L.length # 0
  <2> DEFINE h == L.head
             node == [LinkedList_Create(x) EXCEPT !.next = h]
  <2>0. /\ 1 \in 1 .. L.length /\ L.length \in 1 .. L.length
        /\ L.length \in Nat
    BY <1>4, ChainFacts
  <2>1. h = c[1] /\ h \in Nodes /\ h # n
    BY <1>4, <2>0, ChainFacts, UnusedNotInChain DEF LinkedAlong
  <2>2. node \in Cells /\ node = [item |-> x, prev |-> NULL, next |-> h]
    BY <2>1 DEF LinkedList_Create, Cells
  <2>3. M = [L EXCEPT !.cell[n] = node, !.cell[h].prev = n, !.head = n,
                      !.tail = IF @ = NULL THEN h ELSE @, !.length = @ + 1]
    BY <1>2, <1>4, ChainFacts DEF AddFirst
  <2>4. /\ M.length = L.length + 1 /\ M.head = n
        /\ M.tail = (IF L.tail = NULL THEN h ELSE L.tail)
        /\ M.cell = [[L.cell EXCEPT ![n] = node] EXCEPT ![h].prev = n]
    BY <2>3 DEF Lists
  <2> HIDE DEF node
  <2>5. /\ M.cell[n] = node
        /\ M.cell[h] = [L.cell[h] EXCEPT !.prev = n]
        /\ \A m \in Nodes \ {n, h} : M.cell[m] = L.cell[m]
    BY <2>1, <2>4 DEF Lists
  <2>6. M.cell \in [Nodes -> Cells]
    BY <2>1, <2>2, <2>4 DEF Lists, Cells
  <2>7. M \in Lists
    <3>1. M = [head |-> n, tail |-> IF L.tail = NULL THEN h ELSE L.tail,
               length |-> L.length + 1, cell |-> M.cell]
      BY <2>3 DEF Lists
    <3>2. L.length + 1 \in Nat /\ L.tail \in Nodes \cup {NULL}
      BY DEF Lists
    <3> QED
      BY <2>1, <2>6, <3>1, <3>2 DEF Lists
  <2>8. M.tail = c[L.length]
    BY <1>4, <2>0, <2>1, <2>4, ChainFacts DEF LinkedAlong
  <2>9. /\ M.cell[h].item = L.cell[h].item /\ M.cell[h].prev = n
        /\ M.cell[h].next = L.cell[h].next
    BY <2>1, <2>5 DEF Lists, Cells
  <2> QED
    BY <1>4, <2>0, <2>1, <2>2, <2>4, <2>5, <2>7, <2>8, <2>9
    DEF Inserts, Before
<1> QED
  BY <1>3, <1>4

(* LinkedList_AddLast puts it behind the last.                              *)
LEMMA AddLastInserts ==
  ASSUME ListAssumption, NEW L \in Lists, NEW c, LinkedAlong(L, c),
         NEW n \in Nodes \ Used(L), NEW x \in Items
  PROVE  /\ AddLast(L, x, n) \in Lists
         /\ Inserts(L, AddLast(L, x, n), c, L.length + 1, n, x)
<1> DEFINE M == AddLast(L, x, n)
<1>1. LinkedList_Create(x) \in Cells
  BY DEF LinkedList_Create, Cells
<1>2. n # NULL
  BY DEF ListAssumption
<1>3. CASE L.length = 0
  <2>1. M = [L EXCEPT !.cell[n] = LinkedList_Create(x), !.head = n,
                      !.length = @ + 1]
    BY <1>2, <1>3, ChainFacts DEF AddLast
  <2>2. M \in Lists
    <3>1. L.length + 1 \in Nat /\ L.tail \in Nodes \cup {NULL}
      BY DEF Lists
    <3>2. [L.cell EXCEPT ![n] = LinkedList_Create(x)] \in [Nodes -> Cells]
      BY <1>1 DEF Lists
    <3>3. M = [head |-> n, tail |-> L.tail, length |-> L.length + 1,
               cell |-> [L.cell EXCEPT ![n] = LinkedList_Create(x)]]
      BY <2>1 DEF Lists
    <3> QED
      BY <3>1, <3>2, <3>3 DEF Lists
  <2>3. /\ M.length = L.length + 1 /\ M.head = n /\ M.tail = L.tail
        /\ M.cell[n] = LinkedList_Create(x)
        /\ \A m \in Nodes \ {n} : M.cell[m] = L.cell[m]
    BY <2>1 DEF Lists
  <2>4. L.tail = NULL
    BY <1>3, ChainFacts
  <2> QED
    BY <1>3, <2>2, <2>3, <2>4 DEF Inserts, LinkedList_Create, Before
<1>4. CASE L.length # 0
  <2> DEFINE last == IF L.tail = NULL THEN L.head ELSE L.tail
             node == [LinkedList_Create(x) EXCEPT !.prev = last]
  <2>0. /\ 1 \in 1 .. L.length /\ L.length \in 1 .. L.length
        /\ L.length \in Nat /\ (L.length + 1) - 1 = L.length
    BY <1>4, ChainFacts
  <2>1. last = c[L.length] /\ last \in Nodes /\ last # n
    <3>1. last = c[L.length]
      <4>1. CASE L.length = 1
        BY <4>1, ChainFacts DEF LinkedAlong
      <4>2. CASE L.length > 1
        <5>1. L.length \in Nat /\ L.tail # NULL
          BY <4>2, ChainFacts
        <5>2. L.tail = c[L.length]
          BY <4>2, <5>1 DEF LinkedAlong
        <5> QED
          BY <5>1, <5>2
      <4> QED
        BY <1>4, <2>0, <4>1, <4>2
    <3>2. c[L.length] \in Nodes /\ c[L.length] # n
      BY <2>0, ChainFacts, UnusedNotInChain
    <3> QED
      BY <3>1, <3>2
  <2>2. node \in Cells /\ node = [item |-> x, prev |-> last, next |-> NULL]
    BY <2>1 DEF LinkedList_Create, Cells
  <2>3. M = [L EXCEPT !.cell[n] = node, !.cell[last].next = n, !.tail = n,
                      !.length = @ + 1]
    BY <1>2, <1>4, ChainFacts DEF AddLast
  <2> HIDE DEF node, last
  <2>4. /\ M.length = L.length + 1 /\ M.head = L.head /\ M.tail = n
        /\ M.cell = [[L.cell EXCEPT ![n] = node] EXCEPT ![last].next = n]
    BY <2>3 DEF Lists
  <2>5. /\ M.cell[n] = node
        /\ M.cell[last] = [L.cell[last] EXCEPT !.next = n]
        /\ \A m \in Nodes \ {n, last} : M.cell[m] = L.cell[m]
    BY <2>1, <2>4 DEF Lists
  <2>6. M.cell \in [Nodes -> Cells]
    BY <2>1, <2>2, <2>4 DEF Lists, Cells
  <2>7. M \in Lists
    <3>1. M = [head |-> L.head, tail |-> n, length |-> L.length + 1,
               cell |-> M.cell]
      BY <2>3 DEF Lists
    <3>2. L.length + 1 \in Nat /\ L.head \in Nodes \cup {NULL}
      BY DEF Lists
    <3> QED
      BY <2>6, <3>1, <3>2 DEF Lists
  <2>8. M.head = c[1]
    BY <1>4, <2>4 DEF LinkedAlong
  <2>9. /\ M.cell[last].item = L.cell[last].item /\ M.cell[last].next = n
        /\ M.cell[last].prev = L.cell[last].prev
    BY <2>1, <2>5 DEF Lists, Cells
  <2> QED
    BY <1>4, <2>0, <2>1, <2>2, <2>4, <2>5, <2>7, <2>8, <2>9
    DEF Inserts, Before
<1> QED
  BY <1>3, <1>4

(* LinkedList__Internal_InsertBefore puts it in front of the node it was    *)
(* given, as long as that is not the first of several.                      *)
LEMMA InsertBeforeInserts ==
  ASSUME ListAssumption, NEW L \in Lists, NEW c, LinkedAlong(L, c),
         NEW n \in Nodes \ Used(L), NEW x \in Items,
         NEW p \in 1 .. L.length, p > 1 \/ L.length = 1
  PROVE  /\ InsertBefore(L, c[p], x, n) \in Lists
         /\ Inserts(L, InsertBefore(L, c[p], x, n), c, p, n, x)
<1> DEFINE M    == InsertBefore(L, c[p], x, n)
           ref  == c[p]
           prev == L.cell[ref].prev
           node == [item |-> x, prev |-> prev, next |-> ref]
<1>0. /\ L.length \in Nat /\ n # NULL
      /\ ref \in Nodes /\ ref # n /\ L.cell[ref] \in Cells
  <2>1. ref \in Nodes /\ L.cell[ref] \in Cells
    BY ChainFacts
  <2>2. ref # n
    BY UnusedNotInChain
  <2> QED
    BY <2>1, <2>2, ChainFacts DEF ListAssumption
<1>1. prev = Before(c, p)
  BY DEF LinkedAlong
<1>2. node \in Cells
  BY <1>0 DEF Cells
<1>3. CASE p = 1
  <2>1. L.length = 1 /\ prev = NULL
    BY <1>1, <1>3 DEF Before
  <2>2. M = [L EXCEPT !.cell[n] = node, !.cell[ref].prev = n, !.head = n,
                      !.tail = ref, !.length = @ + 1]
    BY <1>0, <2>1 DEF InsertBefore
  <2> HIDE DEF node, prev, ref
  <2>3. /\ M.length = L.length + 1 /\ M.head = n /\ M.tail = ref
        /\ M.cell = [[L.cell EXCEPT ![n] = node] EXCEPT ![ref].prev = n]
        /\ M = [head |-> n, tail |-> ref, length |-> L.length + 1,
                cell |-> M.cell]
    BY <2>2 DEF Lists
  <2>4. /\ M.cell[n] = node
        /\ M.cell[ref] = [L.cell[ref] EXCEPT !.prev = n]
        /\ \A m \in Nodes \ {n, ref} : M.cell[m] = L.cell[m]
    BY <1>0, <2>3 DEF Lists
  <2>5. M.cell \in [Nodes -> Cells]
    BY <1>0, <1>2, <2>3 DEF Lists, Cells
  <2>6. M \in Lists
    BY <1>0, <2>3, <2>5 DEF Lists
  <2>7. /\ M.cell[ref].item = L.cell[ref].item /\ M.cell[ref].prev = n
        /\ M.cell[ref].next = L.cell[ref].next
    BY <1>0, <2>4 DEF Cells
  <2>8. /\ M.cell[n].item = x /\ M.cell[n].prev = NULL /\ M.cell[n].next = ref
    BY <2>1, <2>4 DEF node
  <2>9. ref = c[1] /\ ref = c[L.length]
    BY <1>3, <2>1 DEF ref
  <2> QED
    BY <1>3, <2>1, <2>3, <2>4, <2>6, <2>7, <2>8, <2>9 DEF Inserts, Before
<1>4. CASE p > 1
  <2>1. /\ prev = c[p - 1] /\ prev \in Nodes /\ prev # n /\ prev # ref
        /\ L.cell[prev] \in Cells /\ p - 1 \in 1 .. L.length
    <3>1. prev = c[p - 1] /\ p - 1 \in 1 .. L.length /\ p - 1 # p
      BY <1>0, <1>1, <1>4 DEF Before
    <3>2. c[p - 1] # c[p]
      BY <3>1 DEF LinkedAlong
    <3>3. c[p - 1] # n
      BY <3>1, UnusedNotInChain
    <3>4. c[p - 1] \in Nodes /\ L.cell[c[p - 1]] \in Cells
      BY <3>1, ChainFacts
    <3> QED
      BY <3>1, <3>2, <3>3, <3>4
  <2>2. M = [L EXCEPT !.cell[n] = node, !.cell[ref].prev = n,
                      !.cell[prev].next = n, !.length = @ + 1]
    BY <1>0, <2>1 DEF InsertBefore, ListAssumption
  <2> HIDE DEF node, prev, ref
  <2>3. /\ M.length = L.length + 1 /\ M.head = L.head /\ M.tail = L.tail
        /\ M.cell = [[[L.cell EXCEPT ![n] = node] EXCEPT ![ref].prev = n]
                       EXCEPT ![prev].next = n]
        /\ M = [head |-> L.head, tail |-> L.tail, length |-> L.length + 1,
                cell |-> M.cell]
    BY <2>2 DEF Lists
  <2>4. /\ M.cell[n] = node
        /\ M.cell[ref] = [L.cell[ref] EXCEPT !.prev = n]
        /\ M.cell[prev] = [L.cell[prev] EXCEPT !.next = n]
        /\ \A m \in Nodes \ {n, ref, prev} : M.cell[m] = L.cell[m]
    BY <1>0, <2>1, <2>3 DEF Lists
  <2>5. M.cell \in [Nodes -> Cells]
    BY <1>0, <1>2, <2>1, <2>3 DEF Lists, Cells
  <2>6. M \in Lists
    <3>1. L.length + 1 \in Nat /\ L.head \in Nodes \cup {NULL}
          /\ L.tail \in Nodes \cup {NULL}
      BY DEF Lists
    <3> QED
      BY <2>3, <2>5, <3>1 DEF Lists
  <2>7. /\ M.cell[ref].item = L.cell[ref].item /\ M.cell[ref].prev = n
        /\ M.cell[ref].next = L.cell[ref].next
        /\ M.cell[prev].item = L.cell[prev].item /\ M.cell[prev].next = n
        /\ M.cell[prev].prev = L.cell[prev].prev
    BY <1>0, <2>1, <2>4 DEF Cells
  <2>8. /\ M.cell[n].item = x /\ M.cell[n].prev = prev /\ M.cell[n].next = ref
    BY <2>4 DEF node
  <2>9. ref = c[p]
    BY DEF ref
  <2>10. L.head = c[1] /\ L.tail = c[L.length] /\ L.length > 1
    <3>1. L.length > 1
      BY <1>0, <1>4
    <3> QED
      BY <3>1, <1>0 DEF LinkedAlong
  <2>11. ASSUME NEW m \in Nodes \ {n}
         PROVE  /\ M.cell[m].item = L.cell[m].item
                /\ M.cell[m].prev = IF m = ref THEN n ELSE L.cell[m].prev
                /\ M.cell[m].next = IF m = prev THEN n ELSE L.cell[m].next
    BY <2>1, <2>4, <2>7
  <2>12. p # 1 /\ p # L.length + 1 /\ p <= L.length
    BY <1>0, <1>4
  <2> HIDE DEF M
  <2>13. Inserts(L, M, c, p, n, x)
    <3>1. /\ M.length = L.length + 1 /\ M.head = c[1] /\ M.tail = c[L.length]
          /\ L.length # 0
      BY <2>3, <2>10
    <3>2. /\ M.cell[n].item = x /\ M.cell[n].prev = Before(c, p)
          /\ M.cell[n].next = c[p]
      BY <1>1, <2>8, <2>9
    <3>3. ASSUME NEW m \in Nodes \ {n}
          PROVE  /\ M.cell[m].item = L.cell[m].item
                 /\ M.cell[m].prev = IF p <= L.length /\ m = c[p]
                                       THEN n ELSE L.cell[m].prev
                 /\ M.cell[m].next = IF p > 1 /\ m = c[p - 1]
                                       THEN n ELSE L.cell[m].next
      BY <1>4, <2>1, <2>9, <2>11, <2>12
    <3> QED
      BY <2>12, <3>1, <3>2, <3>3 DEF Inserts
  <2> QED
    BY <2>6, <2>13 DEF M
<1> QED
  BY <1>3, <1>4

(* LinkedList_Add puts it at the index it was given.                        *)
LEMMA AddInserts ==
  ASSUME ListAssumption, NEW L \in Lists, NEW c, LinkedAlong(L, c),
         NEW n \in Nodes \ Used(L), NEW x \in Items, NEW i \in 0 .. L.length
  PROVE  /\ Add(L, x, i, n) \in Lists
         /\ Inserts(L, Add(L, x, i, n), c, i + 1, n, x)
<1>0. L.length \in Nat /\ ~(i > L.length)
  BY ChainFacts
<1>1. CASE i = 0
  <2>1. Add(L, x, i, n) = AddFirst(L, x, n)
    BY <1>0, <1>1 DEF Add
  <2> QED
    BY <1>1, <2>1, AddFirstInserts
<1>2. CASE i # 0 /\ i = L.length
  <2>1. Add(L, x, i, n) = AddLast(L, x, n)
    BY <1>0, <1>2 DEF Add
  <2> QED
    BY <1>2, <2>1, AddLastInserts
<1>3. CASE i # 0 /\ i # L.length
  <2>1. i \in 0 .. L.length - 1 /\ i + 1 \in 1 .. L.length /\ i + 1 > 1
    BY <1>0, <1>3
  <2>2. NodeAt(L, i) = c[i + 1]
    BY <2>1, WalkFollowsChain
  <2>3. Add(L, x, i, n) = InsertBefore(L, c[i + 1], x, n)
    BY <1>0, <1>3, <2>2 DEF Add
  <2> QED
    BY <2>1, <2>3, InsertBeforeInserts
<1> QED
  BY <1>1, <1>2, <1>3

-----------------------------------------------------------------------------
(* LinkedList_RemoveFirst takes the first node out.                         *)
LEMMA RemoveFirstRemoves ==
  ASSUME ListAssumption, NEW L \in Lists, NEW c, LinkedAlong(L, c),
         L.length # 0
  PROVE  /\ RemoveFirst(L) \in Lists
         /\ Removes(L, RemoveFirst(L), c, 1)
<1> DEFINE M      == RemoveFirst(L)
           h      == L.head
           next   == L.cell[h].next
           linked == IF next = NULL THEN L.cell
                                    ELSE [L.cell EXCEPT ![next].prev = NULL]
<1>0. /\ L.length \in Nat /\ 1 \in 1 .. L.length /\ L.length - 1 \in Nat
      /\ h = c[1] /\ h \in Nodes /\ h # NULL /\ Free \in Cells
  <2>1. L.length \in Nat /\ 1 \in 1 .. L.length
    BY ChainFacts
  <2>2. h = c[1] /\ c[1] \in Nodes
    BY <2>1, ChainFacts DEF LinkedAlong
  <2> QED
    BY <2>1, <2>2, ChainFacts DEF Free, Cells
<1>1. M = [head |-> next, tail |-> TailAfter(L.length - 1, L.tail),
           length |-> L.length - 1, cell |-> [linked EXCEPT ![h] = Free]]
  BY <1>0 DEF RemoveFirst
<1>2. next = Behind(L, c, 1)
  BY <1>0 DEF LinkedAlong
<1>3. TailAfter(L.length - 1, L.tail) =
        IF L.length <= 2 THEN NULL ELSE c[L.length]
  BY <1>0 DEF TailAfter, LinkedAlong
<1>4. L.tail \in Nodes \cup {NULL}
  BY DEF Lists
<1>5. CASE L.length = 1
  <2>1. next = NULL
    BY <1>2, <1>5 DEF Behind
  <2>2. M = [head |-> NULL, tail |-> NULL, length |-> L.length - 1,
             cell |-> [L.cell EXCEPT ![h] = Free]]
    BY <1>1, <1>3, <1>5, <2>1
  <2>3. M \in Lists
    BY <1>0, <2>2 DEF Lists
  <2>4. M.cell[h] = Free /\ \A m \in Nodes \ {h} : M.cell[m] = L.cell[m]
    BY <1>0, <2>2 DEF Lists
  <2>5. M.length = L.length - 1 /\ M.head = NULL /\ M.tail = NULL
    BY <2>2
  <2> HIDE DEF M
  <2>6. Removes(L, M, c, 1)
    BY <1>0, <1>5, <2>4, <2>5 DEF Removes
  <2> QED
    BY <2>3, <2>6 DEF M
<1>6. CASE L.length > 1
  <2>1. /\ next = c[2] /\ next \in Nodes /\ next # h /\ next # NULL
        /\ L.cell[next] \in Cells
    <3>1. 2 \in 1 .. L.length
      BY <1>0, <1>6
    <3>2. next = c[2]
      BY <1>2, <1>6 DEF Behind
    <3>3. c[2] \in Nodes /\ c[2] # c[1] /\ L.cell[c[2]] \in Cells
      BY <1>0, <3>1, ChainFacts DEF LinkedAlong
    <3> QED
      BY <1>0, <3>2, <3>3, ChainFacts
  <2>2. M = [head |-> next, tail |-> TailAfter(L.length - 1, L.tail),
             length |-> L.length - 1,
             cell |-> [[L.cell EXCEPT ![next].prev = NULL] EXCEPT ![h] = Free]]
    BY <1>1, <2>1
  <2> HIDE DEF next, h
  <2>3. M.cell \in [Nodes -> Cells]
    BY <1>0, <2>1, <2>2 DEF Lists, Cells
  <2>4. M \in Lists
    <3>1. TailAfter(L.length - 1, L.tail) \in Nodes \cup {NULL}
      BY <1>4 DEF TailAfter
    <3> QED
      BY <1>0, <2>1, <2>2, <2>3, <3>1 DEF Lists
  <2>5. /\ M.cell[h] = Free
        /\ M.cell[next] = [L.cell[next] EXCEPT !.prev = NULL]
        /\ \A m \in Nodes \ {h, next} : M.cell[m] = L.cell[m]
    BY <1>0, <2>1, <2>2 DEF Lists
  <2>6. /\ M.cell[next].item = L.cell[next].item /\ M.cell[next].prev = NULL
        /\ M.cell[next].next = L.cell[next].next
    BY <2>1, <2>5 DEF Cells
  <2>7. ASSUME NEW m \in Nodes \ {c[1]}
        PROVE  /\ M.cell[m].item = L.cell[m].item
               /\ M.cell[m].prev = IF m = c[2] THEN NULL ELSE L.cell[m].prev
               /\ M.cell[m].next = L.cell[m].next
    BY <1>0, <2>1, <2>5, <2>6
  <2>8. /\ M.length = L.length - 1 /\ M.head = c[2]
        /\ M.tail = IF L.length <= 2 THEN NULL ELSE c[L.length]
    BY <1>3, <2>1, <2>2
  <2> HIDE DEF M
  <2>9. Removes(L, M, c, 1)
    BY <1>0, <1>6, <2>5, <2>7, <2>8 DEF Removes, Before
  <2> QED
    BY <2>4, <2>9 DEF M
<1> QED
  BY <1>0, <1>5, <1>6

(* LinkedList_RemoveLast takes the last one out.                            *)
LEMMA RemoveLastRemoves ==
  ASSUME ListAssumption, NEW L \in Lists, NEW c, LinkedAlong(L, c),
         L.length # 0
  PROVE  /\ RemoveLast(L) \in Lists
         /\ Removes(L, RemoveLast(L), c, L.length)
<1> DEFINE M    == RemoveLast(L)
           last == L.tail
           prev == L.cell[last].prev
<1>0. L.length \in Nat /\ L.length \in 1 .. L.length /\ Free \in Cells
  <2>1. L.length \in Nat
    BY ChainFacts
  <2> QED
    BY <2>1 DEF Free, Cells
<1>1. CASE L.length = 1
  <2>1. M = RemoveFirst(L)
    BY <1>1 DEF RemoveLast
  <2> QED
    BY <1>1, <2>1, RemoveFirstRemoves
<1>2. CASE L.length > 1
  <2>1. /\ last = c[L.length] /\ last \in Nodes /\ last # prev
        /\ prev = c[L.length - 1] /\ prev \in Nodes /\ L.cell[prev] \in Cells
    <3>1. L.length - 1 \in 1 .. L.length /\ L.length # 1
      BY <1>0, <1>2
    <3>2. last = c[L.length]
      BY <1>0, <1>2 DEF LinkedAlong
    <3>3. prev = c[L.length - 1]
      BY <1>0, <3>1, <3>2 DEF LinkedAlong, Before
    <3>4. c[L.length] # c[L.length - 1]
      BY <1>0, <3>1 DEF LinkedAlong
    <3>5. /\ c[L.length] \in Nodes /\ c[L.length - 1] \in Nodes
          /\ L.cell[c[L.length - 1]] \in Cells
      BY <1>0, <3>1, ChainFacts
    <3> QED
      BY <3>2, <3>3, <3>4, <3>5
  <2>2. M = [head |-> L.head, tail |-> TailAfter(L.length - 1, prev),
             length |-> L.length - 1,
             cell |-> [[L.cell EXCEPT ![prev].next = NULL] EXCEPT ![last] = Free]]
    BY <1>0, <1>2 DEF RemoveLast
  <2> HIDE DEF prev, last
  <2>3. M.cell \in [Nodes -> Cells]
    BY <1>0, <2>1, <2>2 DEF Lists, Cells
  <2>4. M \in Lists
    <3>1. TailAfter(L.length - 1, prev) \in Nodes \cup {NULL}
      BY <2>1 DEF TailAfter
    <3>2. L.head \in Nodes \cup {NULL} /\ L.length - 1 \in Nat
      BY <1>0, <1>2 DEF Lists
    <3> QED
      BY <2>2, <2>3, <3>1, <3>2 DEF Lists
  <2>5. /\ M.cell[last] = Free
        /\ M.cell[prev] = [L.cell[prev] EXCEPT !.next = NULL]
        /\ \A m \in Nodes \ {last, prev} : M.cell[m] = L.cell[m]
    BY <1>0, <2>1, <2>2 DEF Lists
  <2>6. /\ M.cell[prev].item = L.cell[prev].item /\ M.cell[prev].next = NULL
        /\ M.cell[prev].prev = L.cell[prev].prev
    BY <2>1, <2>5 DEF Cells
  <2>7. ASSUME NEW m \in Nodes \ {c[L.length]}
        PROVE  /\ M.cell[m].item = L.cell[m].item
               /\ M.cell[m].prev = L.cell[m].prev
               /\ M.cell[m].next =
                    IF m = c[L.length - 1] THEN NULL ELSE L.cell[m].next
    BY <2>1, <2>5, <2>6
  <2>8. /\ M.length = L.length - 1 /\ M.head = c[1]
        /\ M.tail = IF L.length <= 2 THEN NULL ELSE c[L.length - 1]
    <3>1. L.head = c[1]
      BY <1>0, <1>2 DEF LinkedAlong
    <3> QED
      BY <1>0, <2>1, <2>2, <3>1 DEF TailAfter
  <2> HIDE DEF M
  <2>9. Removes(L, M, c, L.length)
    BY <1>0, <1>2, <2>1, <2>5, <2>7, <2>8 DEF Removes, Behind
  <2> QED
    BY <2>4, <2>9 DEF M
<1> QED
  BY <1>0, <1>1, <1>2

(* The rest of LinkedList_RemoveAt takes out one in between.                *)
LEMMA UnlinkRemoves ==
  ASSUME ListAssumption, NEW L \in Lists, NEW c, LinkedAlong(L, c),
         NEW p \in 2 .. L.length - 1
  PROVE  /\ Unlink(L, c[p]) \in Lists
         /\ Removes(L, Unlink(L, c[p]), c, p)
<1> DEFINE M == Unlink(L, c[p])
           n == c[p]
           a == L.cell[n].prev
           b == L.cell[n].next
<1>0. /\ L.length \in Nat /\ L.length - 1 \in Nat /\ L.length > 2
      /\ p \in 1 .. L.length /\ p - 1 \in 1 .. L.length /\ p + 1 \in 1 .. L.length
      /\ p # 1 /\ p > 1 /\ p # L.length /\ p < L.length /\ Free \in Cells
  <2>1. L.length \in Nat
    BY ChainFacts
  <2> QED
    BY <2>1 DEF Free, Cells
<1>1. /\ a = c[p - 1] /\ a = Before(c, p) /\ b = c[p + 1] /\ b = Behind(L, c, p)
      /\ n \in Nodes /\ a \in Nodes /\ b \in Nodes
      /\ L.cell[a] \in Cells /\ L.cell[b] \in Cells
      /\ a # n /\ b # n /\ a # b
  <2>1. a = Before(c, p) /\ b = Behind(L, c, p)
    BY <1>0 DEF LinkedAlong
  <2>2. a = c[p - 1] /\ b = c[p + 1]
    BY <1>0, <2>1 DEF Before, Behind
  <2>3. p - 1 # p /\ p + 1 # p /\ p - 1 # p + 1
    OBVIOUS
  <2>4. c[p - 1] # c[p] /\ c[p + 1] # c[p] /\ c[p - 1] # c[p + 1]
    BY <1>0, <2>3 DEF LinkedAlong
  <2>5. /\ c[p] \in Nodes /\ c[p - 1] \in Nodes /\ c[p + 1] \in Nodes
        /\ L.cell[c[p - 1]] \in Cells /\ L.cell[c[p + 1]] \in Cells
    BY <1>0, ChainFacts
  <2> QED
    BY <2>1, <2>2, <2>4, <2>5
<1>2. M = [L EXCEPT !.cell = [@ EXCEPT ![a].next = b, ![b].prev = a, ![n] = Free],
                    !.length = @ - 1]
  BY DEF Unlink
<1> HIDE DEF a, b, n
<1>3. /\ M = [head |-> L.head, tail |-> L.tail, length |-> L.length - 1,
              cell |-> M.cell]
      /\ M.cell = [[[L.cell EXCEPT ![a].next = b] EXCEPT ![b].prev = a]
                     EXCEPT ![n] = Free]
  BY <1>2 DEF Lists
<1>4. M.cell \in [Nodes -> Cells]
  BY <1>0, <1>1, <1>3 DEF Lists, Cells
<1>5. M \in Lists
  <2>1. L.head \in Nodes \cup {NULL} /\ L.tail \in Nodes \cup {NULL}
    BY DEF Lists
  <2> QED
    BY <1>0, <1>3, <1>4, <2>1 DEF Lists
<1>6. /\ M.cell[n] = Free
      /\ M.cell[a] = [L.cell[a] EXCEPT !.next = b]
      /\ M.cell[b] = [L.cell[b] EXCEPT !.prev = a]
      /\ \A m \in Nodes \ {n, a, b} : M.cell[m] = L.cell[m]
  BY <1>1, <1>3 DEF Lists
<1>7. /\ M.cell[a].item = L.cell[a].item /\ M.cell[a].next = b
      /\ M.cell[a].prev = L.cell[a].prev
      /\ M.cell[b].item = L.cell[b].item /\ M.cell[b].prev = a
      /\ M.cell[b].next = L.cell[b].next
  BY <1>1, <1>6 DEF Cells
<1>8. ASSUME NEW m \in Nodes \ {n}
      PROVE  /\ M.cell[m].item = L.cell[m].item
             /\ M.cell[m].prev = IF m = c[p + 1] THEN a ELSE L.cell[m].prev
             /\ M.cell[m].next = IF m = c[p - 1] THEN b ELSE L.cell[m].next
  BY <1>1, <1>6, <1>7
<1>9. L.head = c[1] /\ L.tail = c[L.length]
  BY <1>0 DEF LinkedAlong
<1> HIDE DEF M
<1>10. Removes(L, M, c, p)
  <2>1. n = c[p]
    BY DEF n
  <2>2. L.length # 1 /\ ~(L.length <= 2)
    BY <1>0
  <2>3. M.length = L.length - 1 /\ M.head = c[1] /\ M.tail = c[L.length]
    BY <1>3, <1>9
  <2>4. M.cell[c[p]] = Free
    BY <1>6, <2>1
  <2>5. ASSUME NEW m \in Nodes \ {c[p]}
        PROVE  /\ M.cell[m].item = L.cell[m].item
               /\ M.cell[m].prev =
                    IF m = c[p + 1] THEN Before(c, p) ELSE L.cell[m].prev
               /\ M.cell[m].next =
                    IF m = c[p - 1] THEN Behind(L, c, p) ELSE L.cell[m].next
    BY <1>1, <1>8, <2>1
  <2> QED
    BY <1>0, <2>2, <2>3, <2>4, <2>5 DEF Removes
<1> QED
  BY <1>5, <1>10 DEF M

(* LinkedList_RemoveAt takes out the node at the index it was given.        *)
LEMMA RemoveAtRemoves ==
  ASSUME ListAssumption, NEW L \in Lists, NEW c, LinkedAlong(L, c),
         NEW i \in 0 .. L.length - 1
  PROVE  /\ RemoveAtIndex(L, i) \in Lists
         /\ Removes(L, RemoveAtIndex(L, i), c, i + 1)
<1>0. L.length \in Nat /\ L.length # 0 /\ ~(i >= L.length)
  BY ChainFacts
<1>1. CASE i = 0
  <2>1. RemoveAtIndex(L, i) = RemoveFirst(L)
    BY <1>0, <1>1 DEF RemoveAtIndex
  <2> QED
    BY <1>0, <1>1, <2>1, RemoveFirstRemoves
<1>2. CASE i # 0 /\ i + 1 = L.length
  <2>1. RemoveAtIndex(L, i) = RemoveLast(L)
    BY <1>0, <1>2 DEF RemoveAtIndex
  <2> QED
    BY <1>0, <1>2, <2>1, RemoveLastRemoves
<1>3. CASE i # 0 /\ i + 1 # L.length
  <2>1. i + 1 \in 2 .. L.length - 1
    BY <1>0, <1>3
  <2>2. NodeAt(L, i) = c[i + 1]
    BY WalkFollowsChain
  <2>3. RemoveAtIndex(L, i) = Unlink(L, c[i + 1])
    BY <1>0, <1>3, <2>2 DEF RemoveAtIndex
  <2> QED
    BY <2>1, <2>3, UnlinkRemoves
<1> QED
  BY <1>1, <1>2, <1>3

-----------------------------------------------------------------------------
(* What the nodes of a linked list hold is a sequence of items, read by     *)
(* walking to each of them.                                                 *)
LEMMA StoredIsRead ==
  ASSUME ListAssumption, NEW L \in Lists, NEW c, LinkedAlong(L, c)
  PROVE  /\ ItemsAlong(L, c) \in [1 .. L.length -> Items]
         /\ [i \in 1 .. L.length |-> L.cell[NodeAt(L, i - 1)].item] = ItemsAlong(L, c)
<1>0. L.length \in Nat
  BY ChainFacts
<1>1. ASSUME NEW i \in 1 .. L.length
      PROVE  NodeAt(L, i - 1) = c[i] /\ L.cell[c[i]].item \in Items
  <2>1. i - 1 \in 0 .. L.length - 1 /\ (i - 1) + 1 = i
    BY <1>0
  <2>2. NodeAt(L, i - 1) = c[(i - 1) + 1]
    BY <2>1, WalkFollowsChain
  <2> QED
    BY <2>1, <2>2 DEF LinkedAlong
<1> QED
  BY <1>1 DEF ItemsAlong

(* LinkedList_IndexOf finds the first place of an item.                     *)
LEMMA IndexOfFindsFirst ==
  ASSUME ListAssumption, NEW L \in Lists, NEW c, LinkedAlong(L, c), NEW x
  PROVE  \/ /\ LinkedList_IndexOf(L, x) = -1
            /\ \A k \in 1 .. L.length : ItemsAlong(L, c)[k] # x
         \/ /\ LinkedList_IndexOf(L, x) \in 0 .. L.length - 1
            /\ ItemsAlong(L, c)[LinkedList_IndexOf(L, x) + 1] = x
            /\ \A k \in 1 .. L.length :
                 ItemsAlong(L, c)[k] = x => LinkedList_IndexOf(L, x) + 1 <= k
<1> DEFINE places == {i \in 0 .. L.length - 1 : L.cell[NodeAt(L, i)].item = x}
           least  == CHOOSE i \in places : \A j \in places : i <= j
<1>0. L.length \in Nat
  BY ChainFacts
<1>1. \A i \in 0 .. L.length - 1 :
        i + 1 \in 1 .. L.length /\ L.cell[NodeAt(L, i)].item = ItemsAlong(L, c)[i + 1]
  <2> SUFFICES ASSUME NEW i \in 0 .. L.length - 1
               PROVE  i + 1 \in 1 .. L.length
                      /\ L.cell[NodeAt(L, i)].item = ItemsAlong(L, c)[i + 1]
    OBVIOUS
  <2>1. i + 1 \in 1 .. L.length
    BY <1>0
  <2>2. NodeAt(L, i) = c[i + 1]
    BY WalkFollowsChain
  <2> QED
    BY <2>1, <2>2 DEF ItemsAlong
<1>2. \A k \in 1 .. L.length : k - 1 \in 0 .. L.length - 1 /\ (k - 1) + 1 = k
  BY <1>0
<1>3. \A k \in 1 .. L.length : ItemsAlong(L, c)[k] = x => k - 1 \in places
  BY <1>1, <1>2
<1>4. CASE places = {}
  <2>1. LinkedList_IndexOf(L, x) = -1
    BY <1>4 DEF LinkedList_IndexOf
  <2> QED
    BY <1>3, <1>4, <2>1
<1>5. CASE places # {}
  <2>1. places \subseteq Nat
    BY <1>0
  <2>2. LinkedList_IndexOf(L, x) = least
    BY <1>5 DEF LinkedList_IndexOf
  <2> HIDE DEF places
  <2>3. \E i \in places : \A j \in places : i <= j
    BY <1>5, <2>1, LeastNumber
  <2>4. least \in places /\ \A j \in places : least <= j
    BY <2>3
  <2> HIDE DEF least
  <2>5. least \in 0 .. L.length - 1 /\ ItemsAlong(L, c)[least + 1] = x
    BY <1>1, <2>4 DEF places
  <2>6. ASSUME NEW k \in 1 .. L.length, ItemsAlong(L, c)[k] = x
        PROVE  least + 1 <= k
    BY <1>3, <2>4, <2>5, <2>6
  <2> QED
    BY <2>2, <2>5, <2>6
<1> QED
  BY <1>4, <1>5

(* What LinkedList_Get returns: from the tail for the last of several, from *)
(* a walk for all others.                                                   *)
LEMMA GetReturnsItem ==
  ASSUME ListAssumption, NEW L \in Lists, NEW c, LinkedAlong(L, c), NEW i \in Nat
  PROVE  Get(L, i) = IF i < L.length THEN ItemsAlong(L, c)[i + 1] ELSE NULL
<1>0. L.length \in Nat
  BY ChainFacts
<1>1. CASE ~ (i < L.length)
  BY <1>0, <1>1 DEF Get
<1>2. CASE i < L.length
  <2>1. i \in 0 .. L.length - 1 /\ i + 1 \in 1 .. L.length
    BY <1>0, <1>2
  <2>2. NodeAt(L, i) = c[i + 1]
    BY <2>1, WalkFollowsChain
  <2>3. i + 1 = L.length /\ L.length > 1 => L.tail = c[i + 1]
    BY <1>0 DEF LinkedAlong
  <2>4. ~ (L.length = 0 \/ i >= L.length)
    BY <1>0, <1>2
  <2>5. Get(L, i) = L.cell[c[i + 1]].item
    BY <2>2, <2>3, <2>4 DEF Get
  <2> QED
    BY <1>2, <2>1, <2>5 DEF ItemsAlong
<1> QED
  BY <1>1, <1>2

(* What it returns is an item or NULL.                                      *)
LEMMA GetType ==
  ASSUME ListAssumption, NEW L \in Lists, NEW c, LinkedAlong(L, c), NEW i \in Nat
  PROVE  Get(L, i) \in Items \cup {NULL} /\ GetLast(L) \in Items \cup {NULL}
<1>0. L.length \in Nat
  BY ChainFacts
<1>1. ASSUME NEW k \in Nat
      PROVE  Get(L, k) \in Items \cup {NULL}
  <2>1. Get(L, k) = IF k < L.length THEN ItemsAlong(L, c)[k + 1] ELSE NULL
    BY GetReturnsItem
  <2>2. k < L.length => k + 1 \in 1 .. L.length
    BY <1>0
  <2>3. ItemsAlong(L, c) \in [1 .. L.length -> Items]
    BY StoredIsRead
  <2> QED
    BY <2>1, <2>2, <2>3
<1>2. L.length # 0 => L.length - 1 \in Nat
  BY <1>0
<1> QED
  BY <1>1, <1>2 DEF GetLast

-----------------------------------------------------------------------------
(* A list is determined by its chain and by what it stores.                 *)
LEMMA SameList ==
  ASSUME NEW L \in Lists, NEW M \in Lists, NEW c, LinkedAlong(L, c),
         LinkedAlong(M, c), L.length = M.length, ItemsAlong(L, c) = ItemsAlong(M, c)
  PROVE  L = M
<1>1. L.head = M.head /\ L.tail = M.tail
  BY DEF LinkedAlong
<1>2. ASSUME NEW n \in Nodes
      PROVE  L.cell[n] = M.cell[n]
  <2>1. CASE \A i \in 1 .. L.length : c[i] # n
    BY <2>1 DEF LinkedAlong
  <2>2. CASE \E i \in 1 .. L.length : c[i] = n
    <3>1. PICK i \in 1 .. L.length : c[i] = n
      BY <2>2
    <3>2. L.cell[n].item = ItemsAlong(L, c)[i] /\ M.cell[n].item = ItemsAlong(M, c)[i]
      BY <3>1 DEF ItemsAlong
    <3>3. L.cell[n].prev = M.cell[n].prev /\ L.cell[n].next = M.cell[n].next
      BY <3>1 DEF LinkedAlong, Behind
    <3>4. L.cell[n] \in Cells /\ M.cell[n] \in Cells
      BY DEF Lists
    <3> QED
      BY <3>2, <3>3, <3>4 DEF Cells
  <2> QED
    BY <2>1, <2>2
<1>3. L.cell = M.cell
  <2>1. L.cell \in [Nodes -> Cells] /\ M.cell \in [Nodes -> Cells]
    BY DEF Lists
  <2> QED
    BY <1>2, <2>1
<1> QED
  BY <1>1, <1>3 DEF Lists

(* What is left of a list after its first k nodes.                          *)
From(s, len, k) == [i \in 1 .. len - k |-> s[i + k]]

IsRest(L, c, M, k) ==
  /\ M \in Lists
  /\ M.length = L.length - k
  /\ LinkedAlong(M, From(c, L.length, k))
  /\ ItemsAlong(M, From(c, L.length, k)) = From(ItemsAlong(L, c), L.length, k)

(* What is left after the first node is what LinkedList_RemoveFirst leaves. *)
LEMMA RestIsRest ==
  ASSUME ListAssumption, NEW L \in Lists, NEW c, LinkedAlong(L, c)
  PROVE  /\ IsRest(L, c, L, 0)
         /\ \A M, N : \A k \in 0 .. L.length :
              IsRest(L, c, M, k) /\ IsRest(L, c, N, k) => M = N
         /\ \A M : \A k \in 0 .. L.length - 1 :
              IsRest(L, c, M, k) => IsRest(L, c, RemoveFirst(M), k + 1)
<1>0. L.length \in Nat
  BY ChainFacts
<1>1. IsRest(L, c, L, 0)
  <2>1. c \in [1 .. L.length -> Nodes]
    BY DEF LinkedAlong
  <2>2. From(c, L.length, 0) = c
    BY <1>0, <2>1 DEF From
  <2>3. From(ItemsAlong(L, c), L.length, 0) = ItemsAlong(L, c)
    BY <1>0 DEF From, ItemsAlong
  <2> QED
    BY <1>0, <2>2, <2>3 DEF IsRest
<1>2. ASSUME NEW M, NEW N, NEW k \in 0 .. L.length,
             IsRest(L, c, M, k), IsRest(L, c, N, k)
      PROVE  M = N
  BY <1>2, SameList DEF IsRest
<1>3. ASSUME NEW M, NEW k \in 0 .. L.length - 1, IsRest(L, c, M, k)
      PROVE  IsRest(L, c, RemoveFirst(M), k + 1)
  <2> DEFINE d == From(c, L.length, k)
             s == From(ItemsAlong(L, c), L.length, k)
             R == RemoveFirst(M)
  <2>1. /\ M \in Lists /\ LinkedAlong(M, d) /\ ItemsAlong(M, d) = s
        /\ M.length = L.length - k /\ M.length # 0 /\ 1 \in 1 .. M.length
        /\ M.length \in Nat
    BY <1>0, <1>3 DEF IsRest
  <2>2. R \in Lists /\ Removes(M, R, d, 1)
    <3> HIDE DEF d
    <3> QED
      BY <2>1, RemoveFirstRemoves
  <2>3. R.length = L.length - (k + 1)
    BY <1>0, <2>1, <2>2 DEF Removes
  <2>4. LinkedAlong(R, Less(d, M.length, 1)) /\ ItemsAlong(R, Less(d, M.length, 1))
          = Less(s, M.length, 1)
    <3> HIDE DEF d, R, s
    <3> QED
      BY <2>1, <2>2, Removed
  <2>5. ASSUME NEW q
        PROVE  Less(From(q, L.length, k), M.length, 1) = From(q, L.length, k + 1)
    <3>1. M.length - 1 = L.length - (k + 1)
      BY <1>0, <2>1
    <3>2. ASSUME NEW i \in 1 .. L.length - (k + 1)
          PROVE  /\ i + 1 \in 1 .. L.length - k /\ ~ (i < 1)
                 /\ (i + 1) + k = i + (k + 1)
      BY <1>0
    <3> QED
      BY <3>1, <3>2 DEF Less, From
  <2> QED
    BY <2>2, <2>3, <2>4, <2>5 DEF IsRest
<1> QED
  BY <1>1, <1>2, <1>3

(* LinkedList_Clear takes every node out and frees it.                      *)
LEMMA ClearEmpties ==
  ASSUME ListAssumption, NEW L \in Lists, NEW c, LinkedAlong(L, c)
  PROVE  Clear(L) = Empty
<1> DEFINE Clears(f) ==
             f = [k \in 0 .. L.length |-> IF k = 0 THEN L
                                                   ELSE RemoveFirst(f[k - 1])]
           g == [k \in 0 .. L.length |-> CHOOSE M : IsRest(L, c, M, k)]
<1>0. L.length \in Nat
  BY ChainFacts
<1>1. \A k \in 0 .. L.length : \E M : IsRest(L, c, M, k)
  <2> DEFINE T == {k \in 0 .. L.length : ~ \E M : IsRest(L, c, M, k)}
  <2> SUFFICES ASSUME T # {}
               PROVE  FALSE
    OBVIOUS
  <2>1. PICK k \in T : \A m \in T : k <= m
    <3>1. T \subseteq Nat
      OBVIOUS
    <3> HIDE DEF T
    <3> QED
      BY <3>1, LeastNumber
  <2>2. k # 0
    BY <2>1, RestIsRest
  <2>3. k - 1 \in 0 .. L.length - 1 /\ k - 1 \in 0 .. L.length /\ ~ (k <= k - 1)
        /\ (k - 1) + 1 = k
    BY <1>0, <2>1, <2>2
  <2>4. k - 1 \notin T
    BY <2>1, <2>3
  <2>5. PICK M : IsRest(L, c, M, k - 1)
    BY <2>3, <2>4
  <2>6. IsRest(L, c, RemoveFirst(M), k)
    BY <2>3, <2>5, RestIsRest
  <2> QED
    BY <2>1, <2>6
<1>2. Clears(g)
  <2>1. \A k \in 0 .. L.length : IsRest(L, c, g[k], k)
    BY <1>1
  <2>2. ASSUME NEW k \in 0 .. L.length
        PROVE  g[k] = IF k = 0 THEN L ELSE RemoveFirst(g[k - 1])
    <3> HIDE DEF g
    <3>1. CASE k = 0
      BY <2>1, <3>1, RestIsRest
    <3>2. CASE k # 0
      <4>1. k - 1 \in 0 .. L.length - 1 /\ k - 1 \in 0 .. L.length /\ (k - 1) + 1 = k
        BY <1>0, <3>2
      <4>2. IsRest(L, c, RemoveFirst(g[k - 1]), k)
        BY <2>1, <4>1, RestIsRest
      <4>3. g[k] = RemoveFirst(g[k - 1])
        BY <2>1, <4>2, RestIsRest
      <4> QED
        BY <3>2, <4>3
    <3> QED
      BY <3>1, <3>2
  <2>3. g = [k \in 0 .. L.length |-> g[k]]
    OBVIOUS
  <2> HIDE DEF g
  <2> QED
    BY <2>2, <2>3
<1>3. ASSUME NEW f, Clears(f)
      PROVE  \A k \in 0 .. L.length : IsRest(L, c, f[k], k)
  <2> DEFINE T == {k \in 0 .. L.length : ~ IsRest(L, c, f[k], k)}
  <2> SUFFICES ASSUME T # {}
               PROVE  FALSE
    OBVIOUS
  <2>1. PICK k \in T : \A m \in T : k <= m
    <3>1. T \subseteq Nat
      OBVIOUS
    <3> HIDE DEF T
    <3> QED
      BY <3>1, LeastNumber
  <2>2. f[k] = IF k = 0 THEN L ELSE RemoveFirst(f[k - 1])
    BY <1>3
  <2>3. k # 0
    BY <2>1, <2>2, RestIsRest
  <2>4. k - 1 \in 0 .. L.length - 1 /\ k - 1 \in 0 .. L.length /\ ~ (k <= k - 1)
        /\ (k - 1) + 1 = k
    BY <1>0, <2>1, <2>3
  <2>5. IsRest(L, c, f[k - 1], k - 1)
    BY <2>1, <2>4
  <2>6. IsRest(L, c, RemoveFirst(f[k - 1]), k)
    BY <2>4, <2>5, RestIsRest
  <2> QED
    BY <2>1, <2>2, <2>3, <2>6
<1>4. Clears(CHOOSE f : Clears(f))
  BY <1>2
<1>5. Clear(L) = (CHOOSE f : Clears(f))[L.length]
  BY DEF Clear
<1>6. IsRest(L, c, Clear(L), L.length)
  <2> HIDE DEF Clears
  <2> QED
    BY <1>0, <1>3, <1>4, <1>5
<1>7. /\ Clear(L).length = 0 /\ Clear(L).head = NULL /\ Clear(L).tail = NULL
      /\ Clear(L) \in Lists
      /\ \A n \in Nodes : Clear(L).cell[n] = Free
  <2> HIDE DEF Clears
  <2>1. Clear(L).length = 0
    BY <1>0, <1>6 DEF IsRest
  <2> QED
    BY <1>6, <2>1 DEF IsRest, LinkedAlong
<1> QED
  BY <1>7 DEF Lists, Empty

-----------------------------------------------------------------------------
(* A sequence with an item more, and with one less, in the words of         *)
(* ItemList.                                                                *)
LEMMA SequenceWith ==
  ASSUME NEW n \in Nat, NEW s \in [1 .. n -> Items], NEW p \in 1 .. n + 1,
         NEW x \in Items
  PROVE  Sequence!InsertAt(s, p, x) = With(s, n, p, x)
<1> DEFINE front == SubSeq(s, 1, p - 1)
           back  == SubSeq(s, p, n)
           head  == front \o <<x>>
           whole == head \o back
<1>0. Len(s) = n
  OBVIOUS
<1>1. Sequence!InsertAt(s, p, x) = whole
  BY <1>0 DEF Sequence!InsertAt
<1>2. /\ front \in Seq(Items) /\ Len(front) = p - 1
      /\ \A i \in 1 .. p - 1 : front[i] = s[i]
  OBVIOUS
<1>3. /\ back \in Seq(Items) /\ Len(back) = n - p + 1
      /\ \A i \in 1 .. n - p + 1 : back[i] = s[p + i - 1]
  OBVIOUS
<1>4. <<x>> \in Seq(Items) /\ Len(<<x>>) = 1 /\ <<x>>[1] = x
  OBVIOUS
<1> HIDE DEF front, back
<1>5. /\ head \in Seq(Items) /\ Len(head) = p
      /\ \A i \in 1 .. p : head[i] = IF i < p THEN s[i] ELSE x
  <2>1. /\ head \in Seq(Items) /\ Len(head) = Len(front) + Len(<<x>>)
        /\ \A i \in 1 .. Len(front) + Len(<<x>>) :
             head[i] = IF i <= Len(front) THEN front[i] ELSE <<x>>[i - Len(front)]
    BY <1>2, <1>4, ConcatProperties
  <2>2. Len(front) + Len(<<x>>) = p
    BY <1>2, <1>4
  <2> HIDE DEF head
  <2>3. ASSUME NEW i \in 1 .. p
        PROVE  head[i] = IF i < p THEN s[i] ELSE x
    <3>1. CASE i < p
      BY <1>2, <2>1, <2>2, <3>1
    <3>2. CASE i = p
      <4>1. i - Len(front) = 1 /\ ~ (i <= Len(front))
        BY <1>2, <3>2
      <4>2. head[i] = <<x>>[1]
        BY <2>1, <2>2, <4>1
      <4> QED
        BY <1>4, <3>2, <4>2
    <3> QED
      BY <3>1, <3>2
  <2> QED
    BY <2>1, <2>2, <2>3
<1> HIDE DEF head
<1>6. /\ whole \in Seq(Items) /\ Len(whole) = n + 1
      /\ \A i \in 1 .. n + 1 :
           whole[i] = IF i <= p THEN head[i] ELSE back[i - p]
  <2>1. /\ whole \in Seq(Items) /\ Len(whole) = Len(head) + Len(back)
        /\ \A i \in 1 .. Len(head) + Len(back) :
             whole[i] = IF i <= Len(head) THEN head[i] ELSE back[i - Len(head)]
    BY <1>3, <1>5, ConcatProperties
  <2>2. Len(head) + Len(back) = n + 1 /\ Len(head) = p
    BY <1>3, <1>5
  <2> HIDE DEF whole
  <2> QED
    BY <2>1, <2>2
<1> HIDE DEF whole
<1>7. ASSUME NEW i \in 1 .. n + 1
      PROVE  whole[i] = IF i < p THEN s[i] ELSE IF i = p THEN x ELSE s[i - 1]
  <2>1. CASE i <= p
    <3>1. i \in 1 .. p
      BY <2>1
    <3> QED
      BY <1>5, <1>6, <2>1, <3>1
  <2>2. CASE i > p
    <3>1. i - p \in 1 .. n - p + 1 /\ p + (i - p) - 1 = i - 1
      BY <2>2
    <3>2. back[i - p] = s[i - 1]
      BY <1>3, <3>1
    <3> QED
      BY <1>6, <2>2, <3>2
  <2> QED
    BY <2>1, <2>2
<1>8. whole = [i \in 1 .. n + 1 |-> whole[i]]
  BY <1>6, LenProperties
<1> QED
  BY <1>1, <1>7, <1>8 DEF With

(* What is in front of a place and what is behind it, of any sequence.      *)
LEMMA PartsAreLess ==
  ASSUME NEW D, NEW n \in Nat, NEW s \in [1 .. n -> D], NEW p \in 1 .. n
  PROVE  SubSeq(s, 1, p - 1) \o SubSeq(s, p + 1, n) = Less(s, n, p)
<1> DEFINE front == SubSeq(s, 1, p - 1)
           back  == SubSeq(s, p + 1, n)
           whole == front \o back
<1>1. /\ front \in Seq(D) /\ Len(front) = p - 1
      /\ \A i \in 1 .. p - 1 : front[i] = s[i]
  OBVIOUS
<1>2. /\ back \in Seq(D) /\ Len(back) = n - p
      /\ \A i \in 1 .. n - p : back[i] = s[(p + 1) + i - 1]
  OBVIOUS
<1> HIDE DEF front, back
<1>3. /\ whole \in Seq(D) /\ Len(whole) = n - 1
      /\ \A i \in 1 .. n - 1 :
           whole[i] = IF i <= p - 1 THEN front[i] ELSE back[i - (p - 1)]
  <2>1. /\ whole \in Seq(D) /\ Len(whole) = Len(front) + Len(back)
        /\ \A i \in 1 .. Len(front) + Len(back) :
             whole[i] = IF i <= Len(front) THEN front[i] ELSE back[i - Len(front)]
    BY <1>1, <1>2, ConcatProperties
  <2>2. Len(front) + Len(back) = n - 1 /\ Len(front) = p - 1
    BY <1>1, <1>2
  <2> HIDE DEF whole
  <2> QED
    BY <2>1, <2>2
<1> HIDE DEF whole
<1>4. ASSUME NEW i \in 1 .. n - 1
      PROVE  whole[i] = IF i < p THEN s[i] ELSE s[i + 1]
  <2>1. CASE i < p
    <3>1. i \in 1 .. p - 1 /\ i <= p - 1
      BY <2>1
    <3> QED
      BY <1>1, <1>3, <2>1, <3>1
  <2>2. CASE ~ (i < p)
    <3>1. /\ i - (p - 1) \in 1 .. n - p /\ ~ (i <= p - 1)
          /\ (p + 1) + (i - (p - 1)) - 1 = i + 1
      BY <2>2
    <3>2. back[i - (p - 1)] = s[i + 1]
      BY <1>2, <3>1
    <3> QED
      BY <1>3, <2>2, <3>1, <3>2
  <2> QED
    BY <2>1, <2>2
<1>5. whole = [i \in 1 .. n - 1 |-> whole[i]]
  BY <1>3, LenProperties
<1> QED
  BY <1>4, <1>5 DEF whole, front, back, Less

LEMMA SequenceLess ==
  ASSUME NEW n \in Nat, NEW s \in [1 .. n -> Items], NEW p \in 1 .. n
  PROVE  Sequence!RemoveAt(s, p) = Less(s, n, p)
<1>1. Len(s) = n
  OBVIOUS
<1>2. Sequence!RemoveAt(s, p) = SubSeq(s, 1, p - 1) \o SubSeq(s, p + 1, n)
  BY <1>1 DEF Sequence!RemoveAt
<1>3. PICK D : D = Items
  OBVIOUS
<1>4. s \in [1 .. n -> D]
  BY <1>3
<1>5. SubSeq(s, 1, p - 1) \o SubSeq(s, p + 1, n) = Less(s, n, p)
  BY <1>4, PartsAreLess
<1> QED
  BY <1>2, <1>5

Sound(L) == L \in Lists /\ \E c : LinkedAlong(L, c)

Reads(L) == [i \in 1 .. L.length |-> L.cell[NodeAt(L, i - 1)].item]

(* A sound list reads as a sequence of items, its first item x where        *)
(* LinkedList_IndexOf finds it.                                             *)
LEMMA ReadsItems ==
  ASSUME ListAssumption, NEW L, Sound(L)
  PROVE  /\ L.length \in Nat
         /\ Reads(L) \in [1 .. L.length -> Items]
         /\ Reads(L) \in Seq(Items)
         /\ Len(Reads(L)) = L.length
<1>1. PICK c : L \in Lists /\ LinkedAlong(L, c)
  BY DEF Sound
<1>2. L.length \in Nat /\ Reads(L) \in [1 .. L.length -> Items]
  BY <1>1, ChainFacts, StoredIsRead DEF Reads
<1> HIDE DEF Reads
<1> QED
  BY <1>2

(* LinkedList_IndexOf finds what a search of the sequence finds.            *)
LEMMA FirstIsIndexOf ==
  ASSUME ListAssumption, Sound(list), NEW x
  PROVE  \/ /\ LinkedList_IndexOf(list, x) = -1
            /\ Sequence!FirstOf(x) = 0
         \/ /\ LinkedList_IndexOf(list, x) \in 0 .. list.length - 1
            /\ Sequence!FirstOf(x) = LinkedList_IndexOf(list, x) + 1
<1> DEFINE i == LinkedList_IndexOf(list, x)
           s == Reads(list)
           I == {k \in 1 .. Len(s) : s[k] = x}
<1>1. list.length \in Nat /\ Len(s) = list.length
  BY ReadsItems
<1>2. \/ i = -1 /\ \A k \in 1 .. list.length : s[k] # x
      \/ /\ i \in 0 .. list.length - 1 /\ s[i + 1] = x
         /\ \A k \in 1 .. list.length : s[k] = x => i + 1 <= k
  <2>1. PICK c : list \in Lists /\ LinkedAlong(list, c)
    BY DEF Sound
  <2>2. s = ItemsAlong(list, c)
    BY <2>1, StoredIsRead DEF Reads
  <2> HIDE DEF s
  <2> QED
    BY <2>1, <2>2, IndexOfFindsFirst
<1>3. Sequence!FirstOf(x) = IF I # {} THEN CHOOSE k \in I : \A m \in I : k <= m ELSE 0
  BY DEF Sequence!FirstOf, Sequence!SelectInSeq, Sequence!Min, Reads
<1> HIDE DEF i, s
<1>4. CASE i = -1 /\ \A k \in 1 .. list.length : s[k] # x
  <2>1. I = {}
    BY <1>1, <1>4
  <2> QED
    BY <1>3, <1>4, <2>1 DEF i
<1>5. CASE /\ i \in 0 .. list.length - 1 /\ s[i + 1] = x
           /\ \A k \in 1 .. list.length : s[k] = x => i + 1 <= k
  <2>1. i + 1 \in I /\ \A m \in I : i + 1 <= m
    BY <1>1, <1>5
  <2>2. I \subseteq Int
    BY <1>1
  <2> DEFINE least == CHOOSE k \in I : \A m \in I : k <= m
  <2>3. least \in I /\ \A m \in I : least <= m
    BY <2>1
  <2> HIDE DEF least, I
  <2>4. least = i + 1
    BY <1>5, <2>1, <2>2, <2>3
  <2> QED
    BY <1>3, <1>5, <2>1, <2>4 DEF i, least
<1> QED
  BY <1>2, <1>4, <1>5

-----------------------------------------------------------------------------
(* M is the list L with x at place p, if there was memory for a node, and   *)
(* L without the item at place p.                                           *)
GainsAt(L, M, p, x) ==
  Sound(M) /\ Reads(M) \in {Reads(L), With(Reads(L), L.length, p, x)}

LosesAt(L, M, p) ==
  /\ Sound(M) /\ M.length = L.length - 1
  /\ Reads(M) = Less(Reads(L), L.length, p)

(* A call that inserts a node at a place adds an item there.                *)
LEMMA InsertGains ==
  ASSUME ListAssumption,
         NEW L \in Lists, NEW c, LinkedAlong(L, c),
         NEW M \in Lists, NEW n \in Nodes \ Used(L), NEW x \in Items,
         NEW p \in 1 .. L.length + 1, Inserts(L, M, c, p, n, x)
  PROVE  GainsAt(L, M, p, x)
<1> DEFINE d == With(c, L.length, p, n)
<1>1. LinkedAlong(M, d) /\ ItemsAlong(M, d) = With(ItemsAlong(L, c), L.length, p, x)
  BY Inserted
<1> HIDE DEF d
<1>2. Reads(L) = ItemsAlong(L, c) /\ Reads(M) = ItemsAlong(M, d)
  BY <1>1, StoredIsRead DEF Reads
<1> QED
  BY <1>1, <1>2 DEF GainsAt, Sound

(* A call that takes the node at a place out removes the item there.        *)
LEMMA RemoveLoses ==
  ASSUME ListAssumption,
         NEW L \in Lists, NEW c, LinkedAlong(L, c),
         NEW M \in Lists, NEW p \in 1 .. L.length, Removes(L, M, c, p)
  PROVE  LosesAt(L, M, p)
<1> DEFINE d == Less(c, L.length, p)
<1>1. LinkedAlong(M, d) /\ ItemsAlong(M, d) = Less(ItemsAlong(L, c), L.length, p)
  BY Removed
<1> HIDE DEF d
<1>2. Reads(L) = ItemsAlong(L, c) /\ Reads(M) = ItemsAlong(M, d)
  BY <1>1, StoredIsRead DEF Reads
<1>3. M.length = L.length - 1
  BY DEF Removes
<1> QED
  BY <1>1, <1>2, <1>3 DEF LosesAt, Sound

(* Every call that adds an item adds it at the place that its name or its   *)
(* index says.                                                              *)
LEMMA AddCalls ==
  ASSUME ListAssumption, NEW L, Sound(L), NEW x \in Items, NEW n \in Malloc(L)
  PROVE  /\ GainsAt(L, AddFirst(L, x, n), 1, x)
         /\ GainsAt(L, AddLast(L, x, n), L.length + 1, x)
         /\ \A i \in 0 .. L.length : GainsAt(L, Add(L, x, i, n), i + 1, x)
         /\ \A i \in 0 .. L.length - 1 :
              i > 0 \/ L.length = 1 =>
                GainsAt(L, InsertBefore(L, NodeAt(L, i), x, n), i + 1, x)
<1>1. PICK c : L \in Lists /\ LinkedAlong(L, c)
  BY DEF Sound
<1>2. L.length \in Nat
  BY <1>1, ChainFacts
<1>3. CASE n = NULL
  <2>1. \A p : GainsAt(L, L, p, x)
    BY DEF GainsAt
  <2>2. AddFirst(L, x, n) = L /\ AddLast(L, x, n) = L
    BY <1>3 DEF AddFirst, AddLast
  <2>3. \A i \in 0 .. L.length : Add(L, x, i, n) = L
    BY <1>3 DEF Add, AddFirst, AddLast, InsertBefore
  <2>4. \A r : InsertBefore(L, r, x, n) = L
    BY <1>3 DEF InsertBefore
  <2> QED
    BY <2>1, <2>2, <2>3, <2>4
<1>4. CASE n # NULL
  <2>1. n \in Nodes \ Used(L)
    BY <1>4 DEF Malloc
  <2>2. 1 \in 1 .. L.length + 1 /\ L.length + 1 \in 1 .. L.length + 1
    BY <1>2
  <2>3. GainsAt(L, AddFirst(L, x, n), 1, x)
    <3>1. /\ AddFirst(L, x, n) \in Lists
          /\ Inserts(L, AddFirst(L, x, n), c, 1, n, x)
      BY <1>1, <2>1, AddFirstInserts
    <3> QED
      BY <1>1, <2>1, <2>2, <3>1, InsertGains
  <2>4. GainsAt(L, AddLast(L, x, n), L.length + 1, x)
    <3>1. /\ AddLast(L, x, n) \in Lists
          /\ Inserts(L, AddLast(L, x, n), c, L.length + 1, n, x)
      BY <1>1, <2>1, AddLastInserts
    <3> QED
      BY <1>1, <2>1, <2>2, <3>1, InsertGains
  <2>5. ASSUME NEW i \in 0 .. L.length
        PROVE  GainsAt(L, Add(L, x, i, n), i + 1, x)
    <3>1. /\ Add(L, x, i, n) \in Lists
          /\ Inserts(L, Add(L, x, i, n), c, i + 1, n, x)
      BY <1>1, <2>1, AddInserts
    <3>2. i + 1 \in 1 .. L.length + 1
      BY <1>2
    <3> QED
      BY <1>1, <2>1, <3>1, <3>2, InsertGains
  <2>6. ASSUME NEW i \in 0 .. L.length - 1, i > 0 \/ L.length = 1
        PROVE  GainsAt(L, InsertBefore(L, NodeAt(L, i), x, n), i + 1, x)
    <3>1. /\ i + 1 \in 1 .. L.length + 1 /\ i + 1 \in 1 .. L.length
          /\ i + 1 > 1 \/ L.length = 1
      BY <1>2, <2>6
    <3>2. NodeAt(L, i) = c[i + 1]
      BY <1>1, WalkFollowsChain
    <3>3. /\ InsertBefore(L, NodeAt(L, i), x, n) \in Lists
          /\ Inserts(L, InsertBefore(L, NodeAt(L, i), x, n), c, i + 1, n, x)
      BY <1>1, <2>1, <3>1, <3>2, InsertBeforeInserts
    <3> QED
      BY <1>1, <2>1, <3>1, <3>3, InsertGains
  <2> QED
    BY <2>3, <2>4, <2>5, <2>6
<1> QED
  BY <1>3, <1>4

(* Every call that removes one removes it from the place that it says, and  *)
(* nothing from a list that has no such place.                              *)
LEMMA RemoveCalls ==
  ASSUME ListAssumption, NEW L, Sound(L)
  PROVE  /\ \A i \in 0 .. L.length - 1 : LosesAt(L, RemoveAtIndex(L, i), i + 1)
         /\ L.length # 0 => /\ LosesAt(L, RemoveFirst(L), 1)
                            /\ LosesAt(L, RemoveLast(L), L.length)
         /\ L.length = 0 => RemoveFirst(L) = L /\ RemoveLast(L) = L
<1>1. PICK c : L \in Lists /\ LinkedAlong(L, c)
  BY DEF Sound
<1>2. L.length \in Nat /\ (L.head = NULL <=> L.length = 0)
  BY <1>1, ChainFacts
<1>3. ASSUME NEW i \in 0 .. L.length - 1
      PROVE  LosesAt(L, RemoveAtIndex(L, i), i + 1)
  <2>1. i + 1 \in 1 .. L.length
    BY <1>2
  <2>2. RemoveAtIndex(L, i) \in Lists /\ Removes(L, RemoveAtIndex(L, i), c, i + 1)
    BY <1>1, RemoveAtRemoves
  <2> QED
    BY <1>1, <2>1, <2>2, RemoveLoses
<1>4. ASSUME L.length # 0
      PROVE  LosesAt(L, RemoveFirst(L), 1) /\ LosesAt(L, RemoveLast(L), L.length)
  <2>1. 1 \in 1 .. L.length /\ L.length \in 1 .. L.length
    BY <1>2, <1>4
  <2>2. RemoveFirst(L) \in Lists /\ Removes(L, RemoveFirst(L), c, 1)
    BY <1>1, <1>4, RemoveFirstRemoves
  <2>3. RemoveLast(L) \in Lists /\ Removes(L, RemoveLast(L), c, L.length)
    BY <1>1, <1>4, RemoveLastRemoves
  <2> QED
    BY <1>1, <2>1, <2>2, <2>3, RemoveLoses
<1>5. L.length = 0 => RemoveFirst(L) = L /\ RemoveLast(L) = L
  BY <1>2 DEF RemoveFirst, RemoveLast
<1> QED
  BY <1>3, <1>4, <1>5

(* A new list is sound and empty.                                           *)
LEMMA EmptySound ==
  ASSUME ListAssumption
  PROVE  Sound(Empty) /\ Reads(Empty) = <<>>
<1>1. Empty \in Lists
  BY DEF Empty, Lists, Cells, Free
<1>2. Empty.length = 0
  BY DEF Empty
<1>3. LinkedAlong(Empty, <<>>)
  BY <1>2 DEF LinkedAlong, Empty
<1>4. Reads(Empty) = <<>>
  <2>1. Reads(Empty) \in Seq(Items) /\ Len(Reads(Empty)) = 0
    BY <1>1, <1>2, <1>3, ReadsItems DEF Sound
  <2> HIDE DEF Reads
  <2> QED
    BY <2>1, EmptySeq
<1> QED
  BY <1>1, <1>3, <1>4 DEF Sound

-----------------------------------------------------------------------------
(* The invariant: some chain links the list, and the last result is an item *)
(* or NULL.                                                                 *)
ListInv == Sound(list) /\ result \in Items \cup {NULL}

(* A step as ItemList allows it.                                            *)
AsSequence == Sequence!Effect(call'.f, call'.x, call'.i)

Step == ListInv' /\ AsSequence

(* With one item more the list reads as the sequence with that item.        *)
LEMMA GainIsAllowed ==
  ASSUME ListAssumption, Sound(list), NEW x \in Items,
         NEW i \in 0 .. list.length, GainsAt(list, list', i + 1, x),
         UNCHANGED result
  PROVE  Sequence!Adds(i, x)
<1>1. /\ list.length \in Nat /\ Reads(list) \in [1 .. list.length -> Items]
      /\ i + 1 \in 1 .. list.length + 1
  BY ReadsItems
<1>2. Sequence!InsertAt(Reads(list), i + 1, x)
        = With(Reads(list), list.length, i + 1, x)
  <2> HIDE DEF Reads
  <2> QED
    BY <1>1, SequenceWith
<1>3. Reads(list)' \in {Reads(list), Sequence!InsertAt(Reads(list), i + 1, x)}
  BY <1>2 DEF GainsAt, Reads
<1> QED
  BY <1>3 DEF Sequence!Adds, Reads

(* Without the item at a place the list reads as the sequence without it.   *)
LEMMA LossIsAllowed ==
  ASSUME ListAssumption, Sound(list), NEW i \in 0 .. list.length - 1,
         LosesAt(list, list', i + 1)
  PROVE  Reads(list)' = Sequence!Without(i)
<1>1. /\ list.length \in Nat /\ Reads(list) \in [1 .. list.length -> Items]
      /\ Len(Reads(list)) = list.length /\ i + 1 \in 1 .. list.length
  BY ReadsItems
<1>2. Sequence!RemoveAt(Reads(list), i + 1) = Less(Reads(list), list.length, i + 1)
  <2> HIDE DEF Reads
  <2> QED
    BY <1>1, SequenceLess
<1>3. Reads(list)' = Sequence!RemoveAt(Reads(list), i + 1)
  BY <1>2 DEF LosesAt, Reads
<1>4. i \in Sequence!Places
  BY <1>1 DEF Sequence!Places, Reads
<1> QED
  BY <1>3, <1>4 DEF Sequence!Without, Reads

(* LinkedList_Get and GetLast return what the sequence has at that place.   *)
LEMMA ItemIsGot ==
  ASSUME ListAssumption, Sound(list)
  PROVE  /\ \A i \in Nat : Get(list, i) = Sequence!Item(i)
         /\ GetLast(list) = Sequence!Item(list.length - 1)
         /\ \A i \in Nat : Get(list, i) \in Items \cup {NULL}
         /\ GetLast(list) \in Items \cup {NULL}
<1>1. PICK c : list \in Lists /\ LinkedAlong(list, c)
  BY DEF Sound
<1>2. list.length \in Nat /\ Len(Reads(list)) = list.length
  BY ReadsItems
<1>3. Reads(list) = ItemsAlong(list, c)
  BY <1>1, StoredIsRead DEF Reads
<1>4. \A i \in Int : Sequence!Item(i) =
        IF i \in 0 .. list.length - 1 THEN Reads(list)[i + 1] ELSE NULL
  BY <1>2 DEF Sequence!Item, Sequence!Places, Reads
<1>5. ASSUME NEW i \in Nat
      PROVE  Get(list, i) = Sequence!Item(i) /\ Get(list, i) \in Items \cup {NULL}
  <2>1. Get(list, i) = IF i < list.length THEN ItemsAlong(list, c)[i + 1] ELSE NULL
    BY <1>1, GetReturnsItem
  <2>2. Get(list, i) \in Items \cup {NULL}
    BY <1>1, GetType
  <2>3. i < list.length <=> i \in 0 .. list.length - 1
    BY <1>2
  <2> HIDE DEF Reads
  <2> QED
    BY <1>3, <1>4, <2>1, <2>2, <2>3
<1>6. GetLast(list) = Sequence!Item(list.length - 1)
  <2>1. CASE list.length = 0
    <3>1. list.length - 1 \in Int /\ list.length - 1 \notin 0 .. list.length - 1
      BY <2>1
    <3> QED
      BY <1>4, <2>1, <3>1 DEF GetLast
  <2>2. CASE list.length # 0
    <3>1. list.length - 1 \in Nat
      BY <1>2, <2>2
    <3> QED
      BY <1>5, <2>2, <3>1 DEF GetLast
  <2> QED
    BY <2>1, <2>2
<1>7. GetLast(list) \in Items \cup {NULL}
  BY <1>1, GetType
<1> QED
  BY <1>5, <1>6, <1>7

(* Every call keeps the list linked and does what it does to a sequence.    *)
LEMMA AddSteps ==
  ASSUME ListAssumption, ~ HeadInserts, ListInv, NEW x \in Items
  PROVE  /\ LinkedList_AddFirst(x) => Step
         /\ LinkedList_AddLast(x) => Step
         /\ \A i \in Nat : LinkedList_Add(x, i) => Step
         /\ \A i \in Nat : LinkedList_InsertBefore(x, i) => Step
<1>1. /\ list.length \in Nat /\ Len(Reads(list)) = list.length /\ Sound(list)
  BY ReadsItems DEF ListInv
<1>2. ASSUME NEW i \in 0 .. list.length, GainsAt(list, list', i + 1, x),
             UNCHANGED result
      PROVE  ListInv' /\ Sequence!Adds(i, x)
  BY <1>1, <1>2, GainIsAllowed DEF ListInv, GainsAt
<1>3. LinkedList_AddFirst(x) => Step
  <2> SUFFICES ASSUME LinkedList_AddFirst(x)
               PROVE  Step
    OBVIOUS
  <2>1. GainsAt(list, list', 0 + 1, x) /\ UNCHANGED result
    BY <1>1, AddCalls DEF LinkedList_AddFirst, Becomes
  <2>2. ListInv' /\ Sequence!Adds(0, x)
    BY <1>1, <1>2, <2>1
  <2>3. call' = [f |-> "AddFirst", x |-> x, i |-> 0]
    BY DEF LinkedList_AddFirst, CallIs
  <2> QED
    BY <2>2, <2>3 DEF Step, AsSequence, Sequence!Effect
<1>4. LinkedList_AddLast(x) => Step
  <2> SUFFICES ASSUME LinkedList_AddLast(x)
               PROVE  Step
    OBVIOUS
  <2>1. GainsAt(list, list', list.length + 1, x) /\ UNCHANGED result
    BY <1>1, AddCalls DEF LinkedList_AddLast, Becomes
  <2>2. ListInv' /\ Sequence!Adds(list.length, x)
    BY <1>1, <1>2, <2>1
  <2>3. call' = [f |-> "AddLast", x |-> x, i |-> 0]
    BY DEF LinkedList_AddLast, CallIs
  <2>4. Sequence!Adds(Len(Reads(list)), x)
    <3> HIDE DEF Reads
    <3> QED
      BY <1>1, <2>2
  <2> QED
    BY <2>2, <2>3, <2>4 DEF Step, AsSequence, Sequence!Effect, Reads
<1>5. ASSUME NEW i \in Nat, LinkedList_Add(x, i)
      PROVE  Step
  <2>1. call' = [f |-> "Add", x |-> x, i |-> i]
    BY <1>5 DEF LinkedList_Add, CallIs
  <2>2. CASE i <= list.length
    <3>1. i \in 0 .. list.length /\ i <= Len(Reads(list))
      BY <1>1, <2>2
    <3>2. GainsAt(list, list', i + 1, x) /\ UNCHANGED result
      BY <1>1, <1>5, <3>1, AddCalls DEF LinkedList_Add, Becomes
    <3>3. ListInv' /\ Sequence!Adds(i, x)
      BY <1>2, <3>1, <3>2
    <3> QED
      BY <2>1, <3>1, <3>3 DEF Step, AsSequence, Sequence!Effect, Reads
  <2>3. CASE ~ (i <= list.length)
    <3>1. i > list.length /\ i > Len(Reads(list))
      BY <1>1, <2>3
    <3>2. UNCHANGED <<list, result>>
      BY <1>5, <3>1 DEF LinkedList_Add, Becomes, Add
    <3>3. ListInv' /\ UNCHANGED Reads(list)
      BY <3>2 DEF ListInv, Reads
    <3> QED
      BY <2>1, <3>1, <3>2, <3>3 DEF Step, AsSequence, Sequence!Effect, Reads
  <2> QED
    BY <2>2, <2>3
<1>6. ASSUME NEW i \in Nat, LinkedList_InsertBefore(x, i)
      PROVE  Step
  <2>1. call' = [f |-> "InsertBefore", x |-> x, i |-> i]
    BY <1>6 DEF LinkedList_InsertBefore, CallIs
  <2>2. /\ i \in 0 .. list.length - 1 /\ i \in 0 .. list.length
        /\ i > 0 \/ list.length = 1
    BY <1>1, <1>6 DEF LinkedList_InsertBefore
  <2>3. GainsAt(list, list', i + 1, x) /\ UNCHANGED result
    BY <1>1, <1>6, <2>2, AddCalls DEF LinkedList_InsertBefore, Becomes
  <2>4. ListInv' /\ Sequence!Adds(i, x)
    BY <1>2, <2>2, <2>3
  <2>5. i \in Sequence!Places
    BY <1>1, <2>2 DEF Sequence!Places, Reads
  <2> QED
    BY <2>1, <2>4, <2>5 DEF Step, AsSequence, Sequence!Effect
<1> QED
  BY <1>3, <1>4, <1>5, <1>6

-----------------------------------------------------------------------------
(* The same for the calls that only look.                                   *)
LEMMA GetSteps ==
  ASSUME ListAssumption, ListInv
  PROVE  /\ \A i \in Nat : LinkedList_Get(i) => Step
         /\ LinkedList_GetLast => Step
<1>1. /\ list.length \in Nat /\ Len(Reads(list)) = list.length /\ Sound(list)
  BY ReadsItems DEF ListInv
<1>2. ASSUME NEW i \in Nat, LinkedList_Get(i)
      PROVE  Step
  <2>1. call' = [f |-> "Get", x |-> NULL, i |-> i]
    BY <1>2 DEF LinkedList_Get, CallIs
  <2>2. result' = Get(list, i) /\ UNCHANGED list /\ UNCHANGED Reads(list)
    BY <1>2 DEF LinkedList_Get, Returns, Reads
  <2>3. ListInv' /\ result' = Sequence!Item(i)
    BY <1>1, <2>2, ItemIsGot DEF ListInv
  <2> QED
    BY <2>1, <2>2, <2>3 DEF Step, AsSequence, Sequence!Effect, Reads
<1>3. ASSUME LinkedList_GetLast
      PROVE  Step
  <2>1. call' = [f |-> "GetLast", x |-> NULL, i |-> 0]
    BY <1>3 DEF LinkedList_GetLast, CallIs
  <2>2. result' = GetLast(list) /\ UNCHANGED list /\ UNCHANGED Reads(list)
    BY <1>3 DEF LinkedList_GetLast, Returns, Reads
  <2>3. ListInv' /\ result' = Sequence!Item(list.length - 1)
    BY <1>1, <2>2, ItemIsGot DEF ListInv
  <2>4. result' = Sequence!Item(Len(Reads(list)) - 1)
    <3> HIDE DEF Reads
    <3> QED
      BY <1>1, <2>3
  <2> QED
    BY <2>1, <2>2, <2>3, <2>4 DEF Step, AsSequence, Sequence!Effect, Reads
<1> QED
  BY <1>2, <1>3

(* A removal with its result, from a place that the list may not have.      *)
LEMMA TakeIsAllowed ==
  ASSUME ListAssumption, ListInv, NEW i \in Int,
         i \in 0 .. list.length - 1 => LosesAt(list, list', i + 1),
         i \notin 0 .. list.length - 1 => UNCHANGED list,
         result' = Sequence!Item(i)
  PROVE  Sequence!Takes(i) /\ Sound(list)'
<1>1. /\ list.length \in Nat /\ Len(Reads(list)) = list.length /\ Sound(list)
  BY ReadsItems DEF ListInv
<1>2. CASE i \in 0 .. list.length - 1
  <2>1. Reads(list)' = Sequence!Without(i)
    BY <1>1, <1>2, LossIsAllowed
  <2>2. Sound(list)'
    BY <1>2 DEF LosesAt
  <2> QED
    BY <2>1, <2>2 DEF Sequence!Takes, Reads
<1>3. CASE i \notin 0 .. list.length - 1
  <2>1. i \notin Sequence!Places
    BY <1>1, <1>3 DEF Sequence!Places, Reads
  <2>2. UNCHANGED Reads(list) /\ Sound(list)'
    BY <1>1, <1>3 DEF Reads
  <2> QED
    BY <2>1, <2>2 DEF Sequence!Takes, Sequence!Without, Reads
<1> QED
  BY <1>2, <1>3

(* The same for the calls that remove an item from a place.                 *)
LEMMA RemoveSteps ==
  ASSUME ListAssumption, ListInv
  PROVE  /\ \A i \in Nat : LinkedList_RemoveAt(i) => Step
         /\ LinkedList_RemoveFirst => Step
         /\ LinkedList_RemoveLast => Step
<1>1. /\ list.length \in Nat /\ Len(Reads(list)) = list.length /\ Sound(list)
  BY ReadsItems DEF ListInv
<1>2. ASSUME NEW i \in Nat, LinkedList_RemoveAt(i)
      PROVE  Step
  <2>1. call' = [f |-> "RemoveAt", x |-> NULL, i |-> i]
    BY <1>2 DEF LinkedList_RemoveAt, CallIs
  <2>2. list' = RemoveAtIndex(list, i) /\ result' = Get(list, i)
    BY <1>2 DEF LinkedList_RemoveAt
  <2>3. i \in 0 .. list.length - 1 => LosesAt(list, list', i + 1)
    BY <1>1, <2>2, RemoveCalls
  <2>4. i \notin 0 .. list.length - 1 => UNCHANGED list
    <3>1. i \notin 0 .. list.length - 1 => i >= list.length
      BY <1>1
    <3> QED
      BY <2>2, <3>1 DEF RemoveAtIndex
  <2>5. result' = Sequence!Item(i) /\ result' \in Items \cup {NULL}
    BY <1>1, <2>2, ItemIsGot
  <2>6. Sequence!Takes(i) /\ Sound(list)'
    BY <2>3, <2>4, <2>5, TakeIsAllowed
  <2> QED
    BY <2>1, <2>5, <2>6 DEF Step, ListInv, AsSequence, Sequence!Effect
<1>3. ASSUME LinkedList_RemoveFirst
      PROVE  Step
  <2>1. call' = [f |-> "RemoveFirst", x |-> NULL, i |-> 0]
    BY <1>3 DEF LinkedList_RemoveFirst, CallIs
  <2>2. list' = RemoveFirst(list) /\ result' = Get(list, 0)
    BY <1>3 DEF LinkedList_RemoveFirst
  <2>3. 0 \in 0 .. list.length - 1 <=> list.length # 0
    BY <1>1
  <2>4. 0 \in 0 .. list.length - 1 => LosesAt(list, list', 0 + 1)
    BY <1>1, <2>2, <2>3, RemoveCalls
  <2>5. 0 \notin 0 .. list.length - 1 => UNCHANGED list
    BY <1>1, <2>2, <2>3, RemoveCalls
  <2>6. result' = Sequence!Item(0) /\ result' \in Items \cup {NULL}
    BY <1>1, <2>2, ItemIsGot
  <2>7. Sequence!Takes(0) /\ Sound(list)'
    BY <2>4, <2>5, <2>6, TakeIsAllowed
  <2> QED
    BY <2>1, <2>6, <2>7 DEF Step, ListInv, AsSequence, Sequence!Effect
<1>4. ASSUME LinkedList_RemoveLast
      PROVE  Step
  <2> DEFINE i == list.length - 1
  <2>1. call' = [f |-> "RemoveLast", x |-> NULL, i |-> 0]
    BY <1>4 DEF LinkedList_RemoveLast, CallIs
  <2>2. list' = RemoveLast(list) /\ result' = GetLast(list)
    BY <1>4 DEF LinkedList_RemoveLast
  <2>3. /\ i \in 0 .. list.length - 1 <=> list.length # 0
        /\ i \in Int /\ i + 1 = list.length
    BY <1>1
  <2>4. i \in 0 .. list.length - 1 => LosesAt(list, list', i + 1)
    BY <1>1, <2>2, <2>3, RemoveCalls
  <2>5. i \notin 0 .. list.length - 1 => UNCHANGED list
    BY <1>1, <2>2, <2>3, RemoveCalls
  <2>6. result' = Sequence!Item(i) /\ result' \in Items \cup {NULL}
    BY <1>1, <2>2, ItemIsGot
  <2>7. Sequence!Takes(i) /\ Sound(list)'
    <3> HIDE DEF i
    <3> QED
      BY <2>3, <2>4, <2>5, <2>6, TakeIsAllowed
  <2>8. Sequence!Takes(Len(Reads(list)) - 1)
    <3> HIDE DEF Reads
    <3> QED
      BY <1>1, <2>7
  <2> QED
    BY <2>1, <2>6, <2>7, <2>8 DEF Step, ListInv, AsSequence, Sequence!Effect, Reads
<1> QED
  BY <1>2, <1>3, <1>4

(* The same for LinkedList_Remove, which looks for the item first.          *)
LEMMA RemoveItemSteps ==
  ASSUME ListAssumption, ListInv, NEW x \in Items, LinkedList_Remove(x)
  PROVE  Step
<1> DEFINE i == LinkedList_IndexOf(list, x)
<1>0. /\ list.length \in Nat /\ Sound(list)
  BY ReadsItems DEF ListInv
<1>1. call' = [f |-> "Remove", x |-> x, i |-> 0]
  BY DEF LinkedList_Remove, CallIs
<1>2. CASE i = -1 /\ Sequence!FirstOf(x) = 0
  <2>1. list' = list /\ result' = NULL
    BY <1>2 DEF LinkedList_Remove, Remove
  <2>2. ListInv' /\ UNCHANGED Reads(list)
    BY <2>1 DEF ListInv, Reads
  <2> QED
    BY <1>1, <1>2, <2>1, <2>2 DEF Step, AsSequence, Sequence!Effect, Reads
<1>3. CASE i \in 0 .. list.length - 1 /\ Sequence!FirstOf(x) = i + 1
  <2>1. ~ (i < 0) /\ (i + 1) - 1 = i /\ i + 1 # 0 /\ i \in Int
        /\ i + 1 \in 1 .. list.length
    BY <1>0, <1>3
  <2>2. list' = RemoveAtIndex(list, i) /\ result' = x
    BY <2>1 DEF LinkedList_Remove, Remove
  <2>3. LosesAt(list, list', i + 1)
    BY <1>0, <1>3, <2>2, RemoveCalls
  <2>4. Sequence!Item(i) = x
    <3>1. PICK c : list \in Lists /\ LinkedAlong(list, c)
      BY <1>0 DEF Sound
    <3>2. ItemsAlong(list, c)[i + 1] = x
      BY <1>3, <2>1, <3>1, IndexOfFindsFirst
    <3>3. Reads(list)[i + 1] = x
      BY <3>1, <3>2, StoredIsRead DEF Reads
    <3>4. i \in Sequence!Places
      <4>1. Len(Reads(list)) = list.length
        BY <1>0, ReadsItems
      <4> QED
        BY <1>3, <4>1 DEF Sequence!Places, Reads
    <3> QED
      BY <3>3, <3>4 DEF Sequence!Item, Reads
  <2>5. Sequence!Takes(i) /\ Sound(list)'
    <3> HIDE DEF i
    <3> QED
      BY <1>3, <2>1, <2>2, <2>3, <2>4, TakeIsAllowed
  <2>6. Sequence!Takes(Sequence!FirstOf(x) - 1) /\ Sequence!FirstOf(x) # 0
    <3> HIDE DEF i
    <3> QED
      BY <1>3, <2>1, <2>5
  <2> QED
    BY <1>1, <2>2, <2>5, <2>6 DEF Step, ListInv, AsSequence, Sequence!Effect
<1> QED
  BY <1>0, <1>2, <1>3, FirstIsIndexOf

-----------------------------------------------------------------------------
(* What is moved is taken out first and then, if there is memory for a      *)
(* node, put in again at an end of what is left.                            *)
LEMMA MoveSteps ==
  ASSUME ListAssumption, ListInv, NEW x \in Items
  PROVE  /\ LinkedList_MoveToStart(x) => Step
         /\ LinkedList_MoveToEnd(x) => Step
<1> DEFINE i == LinkedList_IndexOf(list, x)
           M == Remove(list, x)
<1>0. /\ list.length \in Nat /\ Sound(list) /\ Len(Reads(list)) = list.length
      /\ Reads(list) \in [1 .. list.length -> Items]
  BY ReadsItems DEF ListInv
<1>1. LinkedList_MoveToStart(x) =>
        call' = [f |-> "MoveToStart", x |-> x, i |-> 0] /\ UNCHANGED result
  BY DEF LinkedList_MoveToStart, CallIs, Becomes
<1>2. LinkedList_MoveToEnd(x) =>
        call' = [f |-> "MoveToEnd", x |-> x, i |-> 0] /\ UNCHANGED result
  BY DEF LinkedList_MoveToEnd, CallIs, Becomes
<1>3. CASE i = -1 /\ Sequence!FirstOf(x) = 0
  <2>1. LinkedList_MoveToStart(x) \/ LinkedList_MoveToEnd(x) => UNCHANGED list
    BY <1>3 DEF LinkedList_MoveToStart, LinkedList_MoveToEnd, Becomes
  <2>2. UNCHANGED <<list, result>> => ListInv' /\ UNCHANGED Reads(list)
    BY DEF ListInv, Reads
  <2> QED
    BY <1>1, <1>2, <1>3, <2>1, <2>2 DEF Step, AsSequence, Sequence!Effect, Reads
<1>4. CASE i \in 0 .. list.length - 1 /\ Sequence!FirstOf(x) = i + 1
  <2> DEFINE F == Sequence!FirstOf(x)
  <2>1. /\ ~ (i < 0) /\ F - 1 = i /\ F # 0 /\ F \in 1 .. list.length
        /\ i + 1 \in 1 .. list.length
    BY <1>0, <1>4
  <2>2. LosesAt(list, M, F)
    <3>1. M = RemoveAtIndex(list, i)
      BY <2>1 DEF Remove
    <3> QED
      BY <1>0, <1>4, <3>1, RemoveCalls
  <2>3. Reads(M) = Sequence!Without(F - 1)
    <3>1. Sequence!RemoveAt(Reads(list), F) = Less(Reads(list), list.length, F)
      <4> HIDE DEF Reads, F
      <4> QED
        BY <1>0, <2>1, SequenceLess
    <3>2. F - 1 \in Sequence!Places /\ (F - 1) + 1 = F
      <4>1. F - 1 \in 0 .. Len(Reads(list)) - 1
        <5> HIDE DEF F, Reads
        <5> QED
          BY <1>0, <2>1
      <4>2. F - 1 \in Sequence!Places
        BY <4>1 DEF Sequence!Places, Reads
      <4>3. (F - 1) + 1 = F
        <5> HIDE DEF F
        <5> QED
          BY <2>1
      <4> QED
        BY <4>2, <4>3
    <3>3. Reads(M) = Sequence!RemoveAt(Reads(list), F)
      BY <2>2, <3>1 DEF LosesAt
    <3> QED
      BY <3>2, <3>3 DEF Sequence!Without, Reads
  <2>4. /\ Sound(M) /\ M.length = list.length - 1 /\ M.length \in Nat
        /\ Reads(M) \in [1 .. M.length -> Items]
    <3>1. Sound(M) /\ M.length = list.length - 1
      BY <2>2 DEF LosesAt
    <3> HIDE DEF M
    <3> QED
      BY <3>1, ReadsItems
  <2> HIDE DEF M
  <2>5. ASSUME NEW k \in 0 .. M.length, GainsAt(M, list', k + 1, x)
        PROVE  Reads(list)' \in {Reads(M), Sequence!InsertAt(Reads(M), k + 1, x)}
    <3>1. k + 1 \in 1 .. M.length + 1
      BY <2>4
    <3>2. Sequence!InsertAt(Reads(M), k + 1, x) = With(Reads(M), M.length, k + 1, x)
      <4> HIDE DEF Reads
      <4> QED
        BY <2>4, <3>1, SequenceWith
    <3> QED
      BY <2>5, <3>2 DEF GainsAt, Reads
  <2>6. ASSUME NEW k \in 0 .. M.length, GainsAt(M, list', k + 1, x),
               UNCHANGED result
        PROVE  ListInv' /\ Sequence!Moves(x, k)
    <3>1. Sound(list)'
      BY <2>6 DEF GainsAt
    <3>2. ListInv'
      BY <2>6, <3>1 DEF ListInv
    <3>3. Reads(list)' \in {Sequence!Without(F - 1),
                            Sequence!InsertAt(Sequence!Without(F - 1), k + 1, x)}
      BY <2>3, <2>5, <2>6
    <3> QED
      BY <2>6, <3>2, <3>3 DEF Sequence!Moves, Reads
  <2>7. ASSUME LinkedList_MoveToStart(x)
        PROVE  Step
    <3>1. GainsAt(M, list', 0 + 1, x)
      BY <2>1, <2>4, <2>7, AddCalls DEF LinkedList_MoveToStart, Becomes, M
    <3>2. ListInv' /\ Sequence!Moves(x, 0)
      BY <1>1, <2>4, <2>6, <2>7, <3>1
    <3> QED
      BY <1>1, <2>1, <2>7, <3>2 DEF Step, AsSequence, Sequence!Effect
  <2>8. ASSUME LinkedList_MoveToEnd(x)
        PROVE  Step
    <3>1. GainsAt(M, list', M.length + 1, x)
      BY <2>1, <2>4, <2>8, AddCalls DEF LinkedList_MoveToEnd, Becomes, M
    <3>2. ListInv' /\ Sequence!Moves(x, M.length)
      BY <1>2, <2>4, <2>6, <2>8, <3>1
    <3>3. Sequence!Moves(x, Len(Reads(list)) - 1)
      <4> HIDE DEF Reads
      <4> QED
        BY <1>0, <2>4, <3>2
    <3>4. call' = [f |-> "MoveToEnd", x |-> x, i |-> 0] /\ Sequence!FirstOf(x) # 0
      BY <1>2, <2>1, <2>8
    <3>5. AsSequence
      BY <3>3, <3>4 DEF AsSequence, Sequence!Effect, Reads
    <3> QED
      BY <3>2, <3>5 DEF Step
  <2> QED
    BY <2>7, <2>8
<1> QED
  BY <1>0, <1>3, <1>4, FirstIsIndexOf

(* The same for the calls that leave nothing.                               *)
LEMMA ClearSteps ==
  ASSUME ListAssumption, ListInv
  PROVE  /\ LinkedList_Clear => Step
         /\ LinkedList_Dispose => Step
<1>1. Clear(list) = Empty
  BY ClearEmpties DEF ListInv, Sound
<1>2. [Empty EXCEPT !.head = NULL, !.tail = NULL, !.length = 0] = Empty
  <2>1. Empty \in Lists
    BY EmptySound DEF Sound
  <2>2. Empty.head = NULL /\ Empty.tail = NULL /\ Empty.length = 0
    BY DEF Empty
  <2> QED
    BY <2>1, <2>2 DEF Lists
<1>3. list' = Empty => Sound(list)' /\ Reads(list)' = <<>>
  BY EmptySound DEF Reads
<1>4. ASSUME LinkedList_Clear \/ LinkedList_Dispose
      PROVE  Step
  <2>1. list' = Empty /\ UNCHANGED result
    BY <1>1, <1>2, <1>4 DEF LinkedList_Clear, LinkedList_Dispose, Becomes
  <2>2. call'.f \in {"Clear", "Dispose"}
    BY <1>4 DEF LinkedList_Clear, LinkedList_Dispose, CallIs
  <2>3. ListInv'
    BY <1>3, <2>1 DEF ListInv
  <2> QED
    BY <1>3, <2>1, <2>2, <2>3 DEF Step, AsSequence, Sequence!Effect, Reads
<1> QED
  BY <1>4

(* Every step of the list keeps the invariant and is one of the sequence.   *)
LEMMA ListSteps ==
  ASSUME ListAssumption, ~ HeadInserts, ListInv, [Next]_vars
  PROVE  ListInv' /\ [AsSequence]_(Sequence!lvars)
<1>1. CASE UNCHANGED vars
  <2>1. UNCHANGED Reads(list) /\ UNCHANGED <<result, call>> /\ ListInv'
    BY <1>1 DEF vars, ListInv, Reads
  <2> QED
    BY <2>1 DEF Sequence!lvars, Reads
<1>2. Indices \subseteq Nat
  BY ReadsItems DEF Indices, ListInv
<1>3. CASE Next
  <2>1. Step
    BY <1>2, <1>3, AddSteps, GetSteps, RemoveSteps, RemoveItemSteps, MoveSteps,
       ClearSteps DEF Next
  <2> QED
    BY <2>1 DEF Step
<1> QED
  BY <1>1, <1>3

(* The list is sound in every state that calls can bring it to.             *)
THEOREM ListInvariant ==
  ASSUME ListAssumption, ~ HeadInserts
  PROVE  Spec => []ListInv
<1>1. Init => ListInv
  BY EmptySound DEF Init, ListInv
<1>2. ListInv /\ [Next]_vars => ListInv'
  BY ListSteps
<1> QED
  BY <1>1, <1>2, PTL DEF Spec

(* The types: no length without as many nodes, no pointer that is not one.  *)
THEOREM ListTypes ==
  ASSUME ListAssumption, ~ HeadInserts
  PROVE  Spec => []TypeOK
<1>1. ListInv => TypeOK
  <2> SUFFICES ASSUME ListInv
               PROVE  TypeOK
    OBVIOUS
  <2>1. PICK c : list \in Lists /\ LinkedAlong(list, c)
    BY DEF ListInv, Sound
  <2>2. list.length \in Nat
    BY <2>1, ChainFacts
  <2>3. c \in Injection(1 .. list.length, Nodes)
    BY <2>1 DEF LinkedAlong, Injection, IsInjective
  <2>4. Cardinality(1 .. list.length) <= Cardinality(Nodes)
    BY <2>3, FS_Injection DEF ListAssumption
  <2>5. Cardinality(1 .. list.length) = list.length
    BY <2>2, FS_Interval
  <2>6. Cardinality(Nodes) \in Nat
    BY FS_CardinalityType DEF ListAssumption
  <2>7. list.length \in 0 .. Cardinality(Nodes)
    BY <2>2, <2>4, <2>5, <2>6
  <2> QED
    BY <2>1, <2>7 DEF TypeOK, ListInv, Lists, Cells
<1> QED
  BY <1>1, ListInvariant, PTL

(* The two ways through the list agree, and no node is lost.                *)
THEOREM ListWellLinked ==
  ASSUME ListAssumption, ~ HeadInserts
  PROVE  Spec => []WellLinked
<1>1. ListInv => WellLinked
  <2> SUFFICES ASSUME ListInv
               PROVE  WellLinked
    OBVIOUS
  <2>1. PICK c : list \in Lists /\ LinkedAlong(list, c)
    BY DEF ListInv, Sound
  <2>2. list.length \in Nat /\ (list.head = NULL <=> list.length = 0)
        /\ NULL \notin Items
    BY <2>1, ChainFacts
  <2>3. Chain = c
    <3>1. ASSUME NEW i \in 1 .. list.length
          PROVE  NodeAt(list, i - 1) = c[i]
      <4>1. i - 1 \in 0 .. list.length - 1 /\ (i - 1) + 1 = i
        BY <2>2
      <4>2. NodeAt(list, i - 1) = c[(i - 1) + 1]
        BY <2>1, <4>1, WalkFollowsChain
      <4> QED
        BY <4>1, <4>2
    <3> QED
      BY <2>1, <3>1 DEF Chain, LinkedAlong
  <2>4. \A i \in 1 .. list.length : c[i] \in Used(list)
    BY <2>1, <2>2 DEF LinkedAlong, Used, Free
  <2>5. \A n \in Used(list) : \E i \in 1 .. list.length : c[i] = n
    BY <2>1 DEF LinkedAlong, Used
  <2>6. Cardinality(Used(list)) = list.length
    <3>1. c \in Bijection(1 .. list.length, Used(list))
      BY <2>1, <2>4, <2>5
         DEF LinkedAlong, Bijection, Injection, Surjection, IsInjective
    <3>2. ExistsBijection(1 .. list.length, Used(list))
      BY <3>1 DEF ExistsBijection
    <3>3. IsFiniteSet(1 .. list.length) /\ Cardinality(1 .. list.length) = list.length
      BY <2>2, FS_Interval
    <3> QED
      BY <3>2, <3>3, FS_Bijection
  <2>7. IsInjective(c)
    BY <2>1 DEF LinkedAlong, IsInjective
  <2> QED
    BY <2>1, <2>2, <2>3, <2>4, <2>6, <2>7
       DEF WellLinked, LinkedAlong, Before, Behind
<1> QED
  BY <1>1, ListInvariant, PTL

(* Every call does to the nodes what it promises to do to a sequence.       *)
THEOREM ListIsSequence ==
  ASSUME ListAssumption, ~ HeadInserts
  PROVE  Spec => ImplementsSequence
<1>1. Init => Sequence!ListInit
  <2> SUFFICES ASSUME Init
               PROVE  Sequence!ListInit
    OBVIOUS
  <2>1. Reads(list) = <<>> /\ result = NULL /\ call.f = "Initialize"
    BY EmptySound DEF Init
  <2> QED
    BY <2>1 DEF Sequence!ListInit, Reads
<1>2. ListInv /\ [Next]_vars =>
        [Sequence!Effect(call'.f, call'.x, call'.i)]_(Sequence!lvars)
  BY ListSteps DEF AsSequence
<1> QED
  BY <1>1, <1>2, ListInvariant, PTL
     DEF Spec, ImplementsSequence, Sequence!ListSpec

=============================================================================
