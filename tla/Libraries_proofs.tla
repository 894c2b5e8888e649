---------------------------- MODULE Libraries_proofs ----------------------------
(***************************************************************************)
(* Proofs about the hash table of jansson, for any keys, values and hashes, *)
(* and any number of calls, growths and failures; and about the HTTP        *)
(* client, for any number of clients, slots and descriptors, and for        *)
(* requests, buffers and answers of any length.                             *)
(*                                                                          *)
(* What a ring of the table holds is an order: a number n of entries, and   *)
(* the function that gives the entry at each of the places 1 .. n.  HEAD    *)
(* stands at all the other places.                                          *)
(***************************************************************************)
EXTENDS Libraries, LinkedList_proofs

-----------------------------------------------------------------------------
(* Induction, for a set that is given by what holds of its numbers.         *)
LEMMA AllNumbers ==
  ASSUME NEW T, 0 \in T, \A j \in Nat : j \in T => j + 1 \in T
  PROVE  Nat \subseteq T
<1> SUFFICES ASSUME NEW k \in Nat, k \notin T
             PROVE  FALSE
  OBVIOUS
<1> DEFINE bad == Nat \ T
<1>1. PICK j \in bad : \A i \in bad : j <= i
  <2>1. bad \subseteq Nat /\ k \in bad
    OBVIOUS
  <2> HIDE DEF bad
  <2> QED
    BY <2>1, LeastNumber
<1>2. j \in Nat /\ j \notin T /\ j # 0
  BY <1>1
<1>3. j - 1 \in Nat /\ ~ (j <= j - 1) /\ (j - 1) + 1 = j
  BY <1>2
<1>4. j - 1 \in T
  BY <1>1, <1>3
<1> QED
  BY <1>2, <1>3, <1>4

(* A function that is defined by what follows each of its values exists.    *)
Follows(g, base, F, S) ==
  g = [j \in S |-> IF j = 0 THEN base ELSE F[g[j - 1]]]

LEMMA RecursionUpTo ==
  ASSUME NEW base, NEW F, NEW m \in Nat
  PROVE  \E g : Follows(g, base, F, 0 .. m)
<1> DEFINE T == {n \in Nat : \E g : Follows(g, base, F, 0 .. n)}
<1>1. 0 \in T
  <2> DEFINE g == [j \in 0 .. 0 |-> base]
  <2>1. g = [j \in 0 .. 0 |-> IF j = 0 THEN base ELSE F[g[j - 1]]]
    OBVIOUS
  <2> QED
    BY <2>1 DEF Follows
<1>2. ASSUME NEW n \in Nat, n \in T
      PROVE  n + 1 \in T
  <2>1. PICK h : Follows(h, base, F, 0 .. n)
    BY <1>2
  <2> DEFINE g == [j \in 0 .. n + 1 |-> IF j = 0 THEN base ELSE F[h[j - 1]]]
  <2>2. ASSUME NEW j \in 0 .. n
        PROVE  g[j] = h[j]
    BY <2>1 DEF Follows
  <2>3. ASSUME NEW j \in 0 .. n + 1
        PROVE  g[j] = IF j = 0 THEN base ELSE F[g[j - 1]]
    <3>1. j # 0 => j - 1 \in 0 .. n
      OBVIOUS
    <3> QED
      BY <2>2, <3>1
  <2>4. Follows(g, base, F, 0 .. n + 1)
    BY <2>3 DEF Follows
  <2> QED
    BY <2>4
<1> HIDE DEF T
<1>3. m \in T
  BY <1>1, <1>2, AllNumbers
<1> QED
  BY <1>3 DEF T

(* Two of them agree as far as both go.                                     *)
LEMMA RecursionUnique ==
  ASSUME NEW base, NEW F, NEW m \in Nat, NEW k \in Nat, NEW g, NEW h,
         Follows(g, base, F, 0 .. m), Follows(h, base, F, 0 .. k),
         NEW i \in Nat, i <= m, i <= k
  PROVE  g[i] = h[i]
<1> DEFINE T == {j \in Nat : j <= i => g[j] = h[j]}
<1>1. 0 \in T
  BY DEF Follows
<1>2. ASSUME NEW j \in Nat, j \in T
      PROVE  j + 1 \in T
  <2> SUFFICES ASSUME j + 1 <= i
               PROVE  g[j + 1] = h[j + 1]
    OBVIOUS
  <2>1. j + 1 \in 0 .. m /\ j + 1 \in 0 .. k /\ j + 1 # 0 /\ (j + 1) - 1 = j
    OBVIOUS
  <2>2. g[j + 1] = F[g[j]] /\ h[j + 1] = F[h[j]]
    BY <2>1 DEF Follows
  <2>3. g[j] = h[j]
    BY <1>2
  <2> QED
    BY <2>2, <2>3
<1> HIDE DEF T
<1>3. i \in T
  BY <1>1, <1>2, AllNumbers
<1> QED
  BY <1>3 DEF T

LEMMA Recursion ==
  ASSUME NEW base, NEW F
  PROVE  \E g : Follows(g, base, F, Nat)
<1> DEFINE part(n) == CHOOSE g : Follows(g, base, F, 0 .. n)
           g == [n \in Nat |-> part(n)[n]]
<1>1. ASSUME NEW n \in Nat
      PROVE  Follows(part(n), base, F, 0 .. n)
  BY RecursionUpTo
<1> HIDE DEF part
<1>2. ASSUME NEW n \in Nat
      PROVE  g[n] = IF n = 0 THEN base ELSE F[g[n - 1]]
  <2>1. CASE n = 0
    BY <1>1, <2>1 DEF Follows
  <2>2. CASE n # 0
    <3>1. n - 1 \in Nat /\ n - 1 <= n
      BY <2>2
    <3>2. part(n)[n] = F[part(n)[n - 1]]
      BY <1>1, <2>2 DEF Follows
    <3>3. part(n)[n - 1] = part(n - 1)[n - 1]
      BY <1>1, <3>1, RecursionUnique
    <3> QED
      BY <2>2, <3>1, <3>2, <3>3
  <2> QED
    BY <2>1, <2>2
<1> QED
  BY <1>2 DEF Follows

(* With F a function from D to D, it has its values in D.                   *)
LEMMA Iterates ==
  ASSUME NEW D, NEW base \in D, NEW F \in [D -> D]
  PROVE  \E g \in [Nat -> D] :
           g[0] = base /\ \A j \in Nat : g[j + 1] = F[g[j]]
<1>0. PICK g : Follows(g, base, F, Nat)
  BY Recursion
<1>1. g[0] = base /\ \A j \in Nat : g[j + 1] = F[g[j]]
  <2>1. \A j \in Nat : j + 1 \in Nat /\ j + 1 # 0 /\ (j + 1) - 1 = j
    OBVIOUS
  <2> QED
    BY <1>0, <2>1 DEF Follows
<1> DEFINE T == {j \in Nat : g[j] \in D}
<1>2. 0 \in T /\ \A j \in Nat : j \in T => j + 1 \in T
  BY <1>1
<1>3. \A j \in Nat : g[j] \in D
  <2> HIDE DEF T
  <2>1. Nat \subseteq T
    BY <1>2, AllNumbers
  <2> QED
    BY <2>1 DEF T
<1>4. g = [j \in Nat |-> g[j]]
  BY <1>0 DEF Follows
<1> QED
  BY <1>1, <1>3, <1>4

(* The number of buckets.                                                   *)
LEMMA HashsizeDoubles ==
  ASSUME NEW order \in Nat
  PROVE  /\ hashsize[order] \in Nat \ {0}
         /\ hashsize[order + 1] = 2 * hashsize[order]
<1> DEFINE F == [m \in Nat |-> 2 * m]
           Doubling(h) == h = [j \in Nat |-> IF j = 0 THEN 1 ELSE 2 * h[j - 1]]
<1>1. \E g : Doubling(g)
  <2>0. PICK N : N = Nat
    OBVIOUS
  <2>1. PICK one \in N : one = 1 /\ F \in [N -> N]
    BY <2>0
  <2>2. \E g \in [Nat -> N] :
          g[0] = one /\ \A j \in Nat : g[j + 1] = F[g[j]]
    <3> HIDE DEF F
    <3>1. one \in N /\ F \in [N -> N]
      BY <2>1
    <3> QED
      BY <3>1, Iterates
  <2>3. PICK g \in [Nat -> Nat] :
          g[0] = 1 /\ \A j \in Nat : g[j + 1] = F[g[j]]
    BY <2>0, <2>1, <2>2
  <2>4. ASSUME NEW j \in Nat
        PROVE  g[j] = IF j = 0 THEN 1 ELSE 2 * g[j - 1]
    <3>1. CASE j = 0
      BY <2>3, <3>1
    <3>2. CASE j # 0
      <4>1. j - 1 \in Nat /\ (j - 1) + 1 = j
        BY <3>2
      <4>2. g[j] = F[g[j - 1]] /\ g[j - 1] \in Nat
        BY <2>3, <4>1
      <4> QED
        BY <3>2, <4>2
    <3> QED
      BY <3>1, <3>2
  <2>5. Doubling(g)
    BY <2>3, <2>4
  <2> QED
    BY <2>5
<1>2. hashsize = CHOOSE h : Doubling(h)
  BY DEF hashsize
<1> HIDE DEF Doubling
<1>3. Doubling(hashsize)
  BY <1>1, <1>2
<1>4. \A j \in Nat : hashsize[j] = IF j = 0 THEN 1 ELSE 2 * hashsize[j - 1]
  BY <1>3 DEF Doubling
<1> DEFINE T == {j \in Nat : hashsize[j] \in Nat \ {0}}
<1>5. 0 \in T
  BY <1>4
<1>6. ASSUME NEW j \in Nat
      PROVE  hashsize[j + 1] = 2 * hashsize[j]
  BY <1>4
<1>7. \A j \in Nat : j \in T => j + 1 \in T
  BY <1>6
<1>8. order \in T
  <2> HIDE DEF T
  <2> QED
    BY <1>5, <1>7, AllNumbers
<1> QED
  BY <1>6, <1>8

-----------------------------------------------------------------------------
(* The entry at a place of an order.                                        *)
At(s, n, i) == IF i \in 1 .. n THEN s[i] ELSE HEAD

Order(s, n) ==
  /\ n \in Nat
  /\ s \in [1 .. n -> Keys]
  /\ \A i, j \in 1 .. n : s[i] = s[j] => i = j

Holds(s, n, k) == \E i \in 1 .. n : s[i] = k

Rings == [next : [ListNodes -> ListNodes], prev : [ListNodes -> ListNodes]]

(* A ring that passes the entries of an order, both ways.                   *)
Linked(ring, s, n) ==
  /\ Order(s, n)
  /\ ring \in Rings
  /\ \A i \in 0 .. n :
       /\ ring.next[At(s, n, i)] = At(s, n, i + 1)
       /\ ring.prev[At(s, n, i + 1)] = At(s, n, i)

(* All other entries point to themselves.                                   *)
Loose(ring, s, n) ==
  \A k \in Keys : ~ Holds(s, n, k) => ring.next[k] = k /\ ring.prev[k] = k

(* Entries are told apart by their places.                                  *)
LEMMA PlacesDiffer ==
  ASSUME HashtableAssumption, NEW s, NEW n, Order(s, n)
  PROVE  /\ At(s, n, 0) = HEAD /\ At(s, n, n + 1) = HEAD
         /\ \A i \in Int : At(s, n, i) \in ListNodes
         /\ \A i \in 1 .. n : At(s, n, i) = s[i] /\ s[i] \in Keys
         /\ \A i, j \in 0 .. n : At(s, n, i) = At(s, n, j) => i = j
         /\ \A i, j \in 1 .. n + 1 : At(s, n, i) = At(s, n, j) => i = j
  BY DEF HashtableAssumption, Order, At, ListNodes

(* An order with one entry more.                                            *)
LEMMA OrderWith ==
  ASSUME HashtableAssumption, NEW s, NEW n, Order(s, n),
         NEW k \in Keys, ~ Holds(s, n, k), NEW p \in 1 .. n + 1
  PROVE  /\ Order(With(s, n, p, k), n + 1)
         /\ \A i \in 0 .. n + 2 :
              At(With(s, n, p, k), n + 1, i) =
                IF i < p THEN At(s, n, i)
                ELSE IF i = p THEN k ELSE At(s, n, i - 1)
         /\ \A l : Holds(With(s, n, p, k), n + 1, l) <=> l = k \/ Holds(s, n, l)
<1> DEFINE w == With(s, n, p, k)
<1>0. n \in Nat /\ s \in [1 .. n -> Keys]
  BY DEF Order
<1>1. \A i \in 1 .. n + 1 :
        w[i] = IF i < p THEN s[i] ELSE IF i = p THEN k ELSE s[i - 1]
  BY DEF With
<1>2. w \in [1 .. n + 1 -> Keys]
  BY <1>0 DEF With
<1>3. ASSUME NEW i \in 1 .. n + 1, NEW j \in 1 .. n + 1, w[i] = w[j]
      PROVE  i = j
  BY <1>0, <1>1, <1>3 DEF Order, Holds
<1>4. Order(w, n + 1)
  BY <1>0, <1>2, <1>3 DEF Order
<1>5. ASSUME NEW i \in 0 .. n + 2
      PROVE  At(w, n + 1, i) = IF i < p THEN At(s, n, i)
                               ELSE IF i = p THEN k ELSE At(s, n, i - 1)
  BY <1>0, <1>1 DEF At
<1>6. ASSUME NEW l
      PROVE  Holds(w, n + 1, l) <=> l = k \/ Holds(s, n, l)
  <2>1. ASSUME NEW i \in 1 .. n, s[i] = l
        PROVE  \E j \in 1 .. n + 1 : w[j] = l
    <3>1. CASE i < p
      BY <1>0, <1>1, <2>1, <3>1
    <3>2. CASE i >= p
      <4>1. i + 1 \in 1 .. n + 1 /\ w[i + 1] = s[(i + 1) - 1]
        BY <1>0, <1>1, <3>2
      <4> QED
        BY <2>1, <4>1
    <3> QED
      BY <1>0, <3>1, <3>2
  <2>2. w[p] = k
    BY <1>0, <1>1
  <2>3. ASSUME NEW i \in 1 .. n + 1, w[i] = l, l # k
        PROVE  \E j \in 1 .. n : s[j] = l
    <3>1. CASE i < p
      BY <1>0, <1>1, <2>3, <3>1
    <3>2. CASE i > p
      <4>1. i - 1 \in 1 .. n /\ w[i] = s[i - 1]
        BY <1>0, <1>1, <3>2
      <4> QED
        BY <2>3, <4>1
    <3> QED
      BY <1>0, <1>1, <2>3, <3>1, <3>2
  <2> QED
    BY <2>1, <2>2, <2>3 DEF Holds
<1> HIDE DEF w
<1> QED
  BY <1>4, <1>5, <1>6 DEF w

(* An order with one entry less.                                            *)
LEMMA OrderLess ==
  ASSUME HashtableAssumption, NEW s, NEW n, Order(s, n), NEW p \in 1 .. n
  PROVE  /\ Order(Less(s, n, p), n - 1)
         /\ \A i \in 0 .. n :
              At(Less(s, n, p), n - 1, i) =
                IF i < p THEN At(s, n, i) ELSE At(s, n, i + 1)
         /\ \A l : Holds(Less(s, n, p), n - 1, l) <=> l # s[p] /\ Holds(s, n, l)
<1> DEFINE w == Less(s, n, p)
<1>0. n \in Nat /\ n - 1 \in Nat /\ s \in [1 .. n -> Keys]
  BY DEF Order
<1>1. \A i \in 1 .. n - 1 : w[i] = IF i < p THEN s[i] ELSE s[i + 1]
  BY DEF Less
<1>2. w \in [1 .. n - 1 -> Keys]
  BY <1>0 DEF Less
<1>3. ASSUME NEW i \in 1 .. n - 1, NEW j \in 1 .. n - 1, w[i] = w[j]
      PROVE  i = j
  BY <1>0, <1>1, <1>3 DEF Order
<1>4. Order(w, n - 1)
  BY <1>0, <1>2, <1>3 DEF Order
<1>5. ASSUME NEW i \in 0 .. n
      PROVE  At(w, n - 1, i) = IF i < p THEN At(s, n, i) ELSE At(s, n, i + 1)
  BY <1>0, <1>1 DEF At
<1>6. ASSUME NEW l
      PROVE  Holds(w, n - 1, l) <=> l # s[p] /\ Holds(s, n, l)
  <2>1. ASSUME NEW i \in 1 .. n, s[i] = l, l # s[p]
        PROVE  \E j \in 1 .. n - 1 : w[j] = l
    <3>1. CASE i < p
      BY <1>0, <1>1, <2>1, <3>1
    <3>2. CASE i > p
      <4>1. i - 1 \in 1 .. n - 1 /\ w[i - 1] = s[(i - 1) + 1]
        BY <1>0, <1>1, <3>2
      <4> QED
        BY <2>1, <4>1
    <3> QED
      BY <1>0, <2>1, <3>1, <3>2
  <2>2. ASSUME NEW i \in 1 .. n - 1, w[i] = l
        PROVE  l # s[p] /\ \E j \in 1 .. n : s[j] = l
    <3>1. CASE i < p
      BY <1>0, <1>1, <2>2, <3>1 DEF Order
    <3>2. CASE i >= p
      <4>1. i + 1 \in 1 .. n /\ w[i] = s[i + 1] /\ i + 1 # p
        BY <1>0, <1>1, <3>2
      <4> QED
        BY <2>2, <4>1 DEF Order
    <3> QED
      BY <1>0, <3>1, <3>2
  <2> QED
    BY <2>1, <2>2 DEF Holds
<1> HIDE DEF w
<1> QED
  BY <1>4, <1>5, <1>6 DEF w

(* list_insert puts an entry in front of the one at place p.                *)
LEMMA InsertLinks ==
  ASSUME HashtableAssumption, NEW ring, NEW s, NEW n, Linked(ring, s, n),
         NEW k \in Keys, ~ Holds(s, n, k), NEW p \in 1 .. n + 1
  PROVE  /\ Linked(list_insert(ring, At(s, n, p), k), With(s, n, p, k), n + 1)
         /\ Loose(ring, s, n) =>
              Loose(list_insert(ring, At(s, n, p), k), With(s, n, p, k), n + 1)
         /\ \A l \in Keys :
              ~ Holds(With(s, n, p, k), n + 1, l) =>
                /\ list_insert(ring, At(s, n, p), k).next[l] = ring.next[l]
                /\ list_insert(ring, At(s, n, p), k).prev[l] = ring.prev[l]
<1> DEFINE node == At(s, n, p)
           before == At(s, n, p - 1)
           w == With(s, n, p, k)
           new == list_insert(ring, node, k)
<1>0. /\ n \in Nat /\ Order(s, n) /\ k \in ListNodes
      /\ ring.next \in [ListNodes -> ListNodes]
      /\ ring.prev \in [ListNodes -> ListNodes]
  BY DEF Linked, Order, Rings, ListNodes
<1>1. /\ node \in ListNodes /\ before \in ListNodes
      /\ ring.prev[node] = before /\ ring.next[before] = node
      /\ k # node /\ k # before
  <2>1. p - 1 \in 0 .. n /\ (p - 1) + 1 = p
    BY <1>0
  <2>2. ring.prev[node] = before /\ ring.next[before] = node
    BY <2>1 DEF Linked
  <2>3. k # HEAD
    BY DEF HashtableAssumption
  <2> QED
    BY <1>0, <2>1, <2>2, <2>3, PlacesDiffer DEF At, Holds
<1>2. /\ new.next = [ring.next EXCEPT ![k] = node, ![before] = k]
      /\ new.prev = [ring.prev EXCEPT ![k] = before, ![node] = k]
      /\ new \in Rings
  BY <1>0, <1>1 DEF list_insert, Rings
<1>3. /\ new.next[k] = node /\ new.next[before] = k
      /\ new.prev[k] = before /\ new.prev[node] = k
      /\ \A l \in ListNodes \ {k, before} : new.next[l] = ring.next[l]
      /\ \A l \in ListNodes \ {k, node} : new.prev[l] = ring.prev[l]
  BY <1>0, <1>1, <1>2
<1>4. /\ Order(w, n + 1)
      /\ \A i \in 0 .. n + 2 :
           At(w, n + 1, i) = IF i < p THEN At(s, n, i)
                             ELSE IF i = p THEN k ELSE At(s, n, i - 1)
      /\ \A l : Holds(w, n + 1, l) <=> l = k \/ Holds(s, n, l)
  BY <1>0, OrderWith
<1> HIDE DEF new, w
<1>5. ASSUME NEW i \in 0 .. n + 1
      PROVE  /\ new.next[At(w, n + 1, i)] = At(w, n + 1, i + 1)
             /\ new.prev[At(w, n + 1, i + 1)] = At(w, n + 1, i)
  <2>1. CASE i < p - 1
    <3>1. /\ At(w, n + 1, i) = At(s, n, i)
          /\ At(w, n + 1, i + 1) = At(s, n, i + 1)
      BY <1>0, <1>4, <2>1
    <3>2. /\ i \in 0 .. n /\ p - 1 \in 0 .. n /\ i # p - 1
          /\ i + 1 \in 1 .. n + 1 /\ p \in 1 .. n + 1 /\ i + 1 # p
      BY <1>0, <2>1
    <3>3. At(s, n, i) # before /\ At(s, n, i + 1) # node
      BY <1>0, <3>2, PlacesDiffer
    <3>4. At(s, n, i) # k /\ At(s, n, i + 1) # k
      BY <1>0 DEF At, Holds, HashtableAssumption
    <3>5. At(s, n, i) \in ListNodes /\ At(s, n, i + 1) \in ListNodes
      BY <1>0, PlacesDiffer
    <3>6. /\ ring.next[At(s, n, i)] = At(s, n, i + 1)
          /\ ring.prev[At(s, n, i + 1)] = At(s, n, i)
      BY <3>2 DEF Linked
    <3> QED
      BY <1>3, <3>1, <3>3, <3>4, <3>5, <3>6
  <2>2. CASE i = p - 1
    BY <1>0, <1>3, <1>4, <2>2
  <2>3. CASE i = p
    <3>1. At(w, n + 1, i) = k /\ At(w, n + 1, i + 1) = At(s, n, (i + 1) - 1)
      BY <1>0, <1>4, <2>3
    <3> QED
      BY <1>3, <2>3, <3>1
  <2>4. CASE i > p
    <3>1. /\ At(w, n + 1, i) = At(s, n, i - 1)
          /\ At(w, n + 1, i + 1) = At(s, n, i)
      BY <1>0, <1>4, <2>4
    <3>2. /\ i - 1 \in 0 .. n /\ p - 1 \in 0 .. n /\ i - 1 # p - 1
          /\ i \in 1 .. n + 1 /\ p \in 1 .. n + 1 /\ i # p
          /\ (i - 1) + 1 = i
      BY <1>0, <2>4
    <3>3. At(s, n, i - 1) # before /\ At(s, n, i) # node
      BY <1>0, <3>2, PlacesDiffer
    <3>4. At(s, n, i - 1) # k /\ At(s, n, i) # k
      BY <1>0 DEF At, Holds, HashtableAssumption
    <3>5. At(s, n, i - 1) \in ListNodes /\ At(s, n, i) \in ListNodes
      BY <1>0, PlacesDiffer
    <3>6. /\ ring.next[At(s, n, i - 1)] = At(s, n, i)
          /\ ring.prev[At(s, n, i)] = At(s, n, i - 1)
      BY <3>2 DEF Linked
    <3> QED
      BY <1>3, <3>1, <3>3, <3>4, <3>5, <3>6
  <2> QED
    BY <1>0, <2>1, <2>2, <2>3, <2>4
<1>6. Linked(new, w, n + 1)
  BY <1>2, <1>4, <1>5 DEF Linked
<1>7. ASSUME NEW l \in Keys, ~ Holds(w, n + 1, l)
      PROVE  new.next[l] = ring.next[l] /\ new.prev[l] = ring.prev[l]
  <2>1. l # k /\ ~ Holds(s, n, l) /\ l \in ListNodes /\ l # HEAD
    BY <1>4, <1>7 DEF ListNodes, HashtableAssumption
  <2>2. l # before /\ l # node
    BY <2>1 DEF At, Holds
  <2> QED
    BY <1>3, <2>1, <2>2
<1>8. Loose(ring, s, n) => Loose(new, w, n + 1)
  BY <1>4, <1>7 DEF Loose
<1> QED
  BY <1>6, <1>7, <1>8 DEF new, w

(* list_remove takes out the entry at place p.                              *)
LEMMA RemoveLinks ==
  ASSUME HashtableAssumption, NEW ring, NEW s, NEW n, Linked(ring, s, n),
         Loose(ring, s, n), NEW p \in 1 .. n
  PROVE  /\ Linked(list_remove(ring, s[p]), Less(s, n, p), n - 1)
         /\ Loose(list_remove(ring, s[p]), Less(s, n, p), n - 1)
<1> DEFINE k == s[p]
           before == At(s, n, p - 1)
           after == At(s, n, p + 1)
           w == Less(s, n, p)
           new == list_remove(ring, k)
<1>0. /\ n \in Nat /\ Order(s, n) /\ k \in Keys /\ k \in ListNodes
      /\ ring.next \in [ListNodes -> ListNodes]
      /\ ring.prev \in [ListNodes -> ListNodes]
  BY DEF Linked, Order, Rings, ListNodes
<1>1. /\ after \in ListNodes /\ before \in ListNodes
      /\ ring.prev[k] = before /\ ring.next[k] = after
      /\ k # after /\ k # before
  <2>1. p - 1 \in 0 .. n /\ (p - 1) + 1 = p /\ p \in 0 .. n
    BY <1>0
  <2>2. At(s, n, p) = k
    BY DEF At
  <2>3. ring.prev[k] = before /\ ring.next[k] = after
    BY <2>1, <2>2 DEF Linked
  <2>4. k # HEAD
    BY <1>0 DEF HashtableAssumption
  <2>5. k # before
    BY <1>0, <2>1, <2>2, PlacesDiffer
  <2>6. k # after
    <3>1. p + 1 \in 1 .. n + 1 /\ p \in 1 .. n + 1 /\ p + 1 # p
      BY <1>0
    <3> QED
      BY <1>0, <2>2, <3>1, PlacesDiffer
  <2> QED
    BY <1>0, <2>1, <2>3, <2>5, <2>6, PlacesDiffer
<1>2. /\ new.next = [ring.next EXCEPT ![before] = after, ![k] = k]
      /\ new.prev = [ring.prev EXCEPT ![after] = before, ![k] = k]
      /\ new \in Rings
  BY <1>0, <1>1 DEF list_remove, Rings
<1>3. /\ new.next[k] = k /\ new.next[before] = after
      /\ new.prev[k] = k /\ new.prev[after] = before
      /\ \A l \in ListNodes \ {k, before} : new.next[l] = ring.next[l]
      /\ \A l \in ListNodes \ {k, after} : new.prev[l] = ring.prev[l]
  BY <1>0, <1>1, <1>2
<1>4. /\ Order(w, n - 1)
      /\ \A i \in 0 .. n :
           At(w, n - 1, i) = IF i < p THEN At(s, n, i) ELSE At(s, n, i + 1)
      /\ \A l : Holds(w, n - 1, l) <=> l # k /\ Holds(s, n, l)
  BY <1>0, OrderLess
<1> HIDE DEF new, w
<1>5. ASSUME NEW i \in 0 .. n - 1
      PROVE  /\ new.next[At(w, n - 1, i)] = At(w, n - 1, i + 1)
             /\ new.prev[At(w, n - 1, i + 1)] = At(w, n - 1, i)
  <2>1. CASE i < p - 1
    <3>1. /\ At(w, n - 1, i) = At(s, n, i)
          /\ At(w, n - 1, i + 1) = At(s, n, i + 1)
      BY <1>0, <1>4, <2>1
    <3>2. /\ i \in 0 .. n /\ p - 1 \in 0 .. n /\ i # p - 1 /\ p \in 0 .. n
          /\ i + 1 \in 1 .. n + 1 /\ p + 1 \in 1 .. n + 1 /\ i + 1 # p + 1
          /\ i # p /\ i + 1 # p /\ i + 1 \in 0 .. n
      BY <1>0, <2>1
    <3>3. At(s, n, i) # before /\ At(s, n, i + 1) # after
      BY <1>0, <3>2, PlacesDiffer
    <3>4. At(s, n, i) # k /\ At(s, n, i + 1) # k
      <4>1. At(s, n, p) = k
        BY DEF At
      <4> QED
        BY <1>0, <3>2, <4>1, PlacesDiffer
    <3>5. At(s, n, i) \in ListNodes /\ At(s, n, i + 1) \in ListNodes
      BY <1>0, PlacesDiffer
    <3>6. /\ ring.next[At(s, n, i)] = At(s, n, i + 1)
          /\ ring.prev[At(s, n, i + 1)] = At(s, n, i)
      BY <3>2 DEF Linked
    <3> QED
      BY <1>3, <3>1, <3>3, <3>4, <3>5, <3>6
  <2>2. CASE i = p - 1
    <3>1. /\ At(w, n - 1, i) = At(s, n, p - 1)
          /\ At(w, n - 1, i + 1) = At(s, n, p + 1)
      BY <1>0, <1>4, <2>2
    <3> QED
      BY <1>3, <3>1
  <2>3. CASE i > p - 1
    <3>1. /\ At(w, n - 1, i) = At(s, n, i + 1)
          /\ At(w, n - 1, i + 1) = At(s, n, (i + 1) + 1)
      BY <1>0, <1>4, <2>3
    <3>2. /\ i + 1 \in 0 .. n /\ p - 1 \in 0 .. n /\ i + 1 # p - 1 /\ p \in 0 .. n
          /\ (i + 1) + 1 \in 1 .. n + 1 /\ p + 1 \in 1 .. n + 1
          /\ (i + 1) + 1 # p + 1 /\ i + 1 # p /\ (i + 1) + 1 # p
          /\ p \in 1 .. n + 1
      BY <1>0, <2>3
    <3>3. At(s, n, i + 1) # before /\ At(s, n, (i + 1) + 1) # after
      BY <1>0, <3>2, PlacesDiffer
    <3>4. At(s, n, i + 1) # k /\ At(s, n, (i + 1) + 1) # k
      <4>1. At(s, n, p) = k
        BY DEF At
      <4> QED
        BY <1>0, <3>2, <4>1, PlacesDiffer
    <3>5. At(s, n, i + 1) \in ListNodes /\ At(s, n, (i + 1) + 1) \in ListNodes
      BY <1>0, PlacesDiffer
    <3>6. /\ ring.next[At(s, n, i + 1)] = At(s, n, (i + 1) + 1)
          /\ ring.prev[At(s, n, (i + 1) + 1)] = At(s, n, i + 1)
      BY <3>2 DEF Linked
    <3> QED
      BY <1>3, <3>1, <3>3, <3>4, <3>5, <3>6
  <2> QED
    BY <1>0, <2>1, <2>2, <2>3
<1>6. Linked(new, w, n - 1)
  BY <1>2, <1>4, <1>5 DEF Linked
<1>7. ASSUME NEW l \in Keys, ~ Holds(w, n - 1, l)
      PROVE  new.next[l] = l /\ new.prev[l] = l
  <2>1. CASE l = k
    BY <1>3, <2>1
  <2>2. CASE l # k
    <3>1. ~ Holds(s, n, l) /\ l \in ListNodes /\ l # HEAD
      BY <1>4, <1>7, <2>2 DEF ListNodes, HashtableAssumption
    <3>2. l # before /\ l # after
      BY <3>1 DEF At, Holds
    <3> QED
      BY <1>3, <2>2, <3>1, <3>2 DEF Loose
  <2> QED
    BY <2>1, <2>2
<1>8. Loose(new, w, n - 1)
  BY <1>7 DEF Loose
<1> QED
  BY <1>6, <1>8 DEF new, w

-----------------------------------------------------------------------------
(* The fields of a table.                                                   *)
Tables(order) ==
  [size : Nat, order : Nat, list : Rings, ordered_list : Rings,
   buckets : [Buckets(order) -> [first : ListNodes, last : ListNodes]],
   value : [Keys -> Values \cup {NULL}]]

Shape(table) == table \in Tables(table.order)

HashesOK == hash \in [Keys -> 0 .. MaxHash] /\ MaxHash \in Nat

(* The entries of bucket i stand at the places from a to c.                 *)
Stretch(table, s, n, i, a, c) ==
  /\ a <= c
  /\ table.buckets[i].first = s[a]
  /\ table.buckets[i].last = s[c]
  /\ \A q \in 1 .. n : BucketOf(table, s[q]) = i <=> a <= q /\ q <= c

NoStretch(table, s, n, i) ==
  /\ table.buckets[i].first = HEAD
  /\ table.buckets[i].last = HEAD
  /\ \A q \in 1 .. n : BucketOf(table, s[q]) # i

Filed(table, s, n) ==
  \A i \in Buckets(table.order) :
    \/ NoStretch(table, s, n, i)
    \/ \E a, c \in 1 .. n : Stretch(table, s, n, i, a, c)

LEMMA BucketExists ==
  ASSUME HashesOK, NEW table, table.order \in Nat, NEW k \in Keys
  PROVE  BucketOf(table, k) \in Buckets(table.order)
<1>1. hashsize[table.order] \in Nat \ {0}
  BY HashsizeDoubles
<1>2. hash[k] \in Nat
  BY DEF HashesOK
<1>3. hash[k] % hashsize[table.order] \in 0 .. hashsize[table.order] - 1
  BY <1>1, <1>2
<1> QED
  BY <1>3 DEF BucketOf, Buckets

(* Only an empty bucket looks like one.                                     *)
LEMMA EmptyBucket ==
  ASSUME HashtableAssumption, NEW table, NEW s, NEW n, Order(s, n),
         NEW i \in Buckets(table.order), Filed(table, s, n)
  PROVE  bucket_is_empty(table.buckets[i]) <=> NoStretch(table, s, n, i)
<1>1. ASSUME NEW a \in 1 .. n, NEW c \in 1 .. n, Stretch(table, s, n, i, a, c)
      PROVE  table.buckets[i].first # HEAD
  BY <1>1 DEF Stretch, Order, HashtableAssumption
<1> QED
  BY <1>1 DEF Filed, NoStretch, bucket_is_empty

(* What insert_to_bucket does to the fields.                                *)
LEMMA InsertFields ==
  ASSUME HashtableAssumption, HashesOK, NEW table, Shape(table), NEW k \in Keys
  PROVE  /\ Shape(insert_to_bucket(table, k))
         /\ insert_to_bucket(table, k).size = table.size
         /\ insert_to_bucket(table, k).order = table.order
         /\ insert_to_bucket(table, k).ordered_list = table.ordered_list
         /\ insert_to_bucket(table, k).value = table.value
         /\ bucket_is_empty(table.buckets[BucketOf(table, k)]) =>
              /\ insert_to_bucket(table, k).list = list_insert(table.list, HEAD, k)
              /\ insert_to_bucket(table, k).buckets =
                   [table.buckets EXCEPT
                      ![BucketOf(table, k)] = [first |-> k, last |-> k]]
         /\ ~ bucket_is_empty(table.buckets[BucketOf(table, k)]) =>
              /\ insert_to_bucket(table, k).list =
                   list_insert(table.list, table.buckets[BucketOf(table, k)].first, k)
              /\ insert_to_bucket(table, k).buckets =
                   [table.buckets EXCEPT
                      ![BucketOf(table, k)] =
                        [first |-> k,
                         last |-> table.buckets[BucketOf(table, k)].last]]
<1> DEFINE i == BucketOf(table, k)
           b == table.buckets[i]
           only == [first |-> k, last |-> k]
           more == [first |-> k, last |-> b.last]
<1>1. /\ i \in Buckets(table.order) /\ k \in ListNodes /\ HEAD \in ListNodes
      /\ table.order \in Nat
  BY BucketExists DEF Shape, Tables, ListNodes
<1>a. i = BucketOf(table, k)
  OBVIOUS
<1>b. insert_to_bucket(table, k) =
        IF bucket_is_empty(b)
          THEN [table EXCEPT !.list = list_insert(@, HEAD, k),
                             !.buckets[i] = only]
          ELSE [table EXCEPT !.list = list_insert(@, b.first, k),
                             !.buckets[i].first = k]
  BY DEF insert_to_bucket
<1> HIDE DEF i
<1>2. b \in [first : ListNodes, last : ListNodes]
  BY <1>1 DEF Shape, Tables
<1>3. /\ only \in [first : ListNodes, last : ListNodes]
      /\ more \in [first : ListNodes, last : ListNodes]
      /\ more = [b EXCEPT !.first = k]
  BY <1>1, <1>2
<1>4. ASSUME NEW l \in ListNodes
      PROVE  list_insert(table.list, l, k) \in Rings
  BY <1>1 DEF list_insert, Rings, Shape, Tables
<1>5. PICK new : new = insert_to_bucket(table, k)
  OBVIOUS
<1>6. CASE bucket_is_empty(b)
  <2>1. PICK ring \in Rings : ring = list_insert(table.list, HEAD, k)
    BY <1>1, <1>4
  <2>2. new = [table EXCEPT !.list = ring, !.buckets[i] = only]
    BY <1>5, <1>6, <1>b, <2>1
  <2> HIDE DEF only
  <2>3. /\ new.size = table.size /\ new.order = table.order
        /\ new.ordered_list = table.ordered_list /\ new.value = table.value
        /\ new.list = ring /\ new.buckets = [table.buckets EXCEPT ![i] = only]
    BY <2>2 DEF Shape, Tables
  <2>4. new \in Tables(table.order)
    BY <1>1, <1>3, <2>2, <2>3 DEF Shape, Tables
  <2>5. Shape(new)
    BY <2>3, <2>4 DEF Shape
  <2> QED
    BY <1>5, <1>6, <1>a, <2>1, <2>3, <2>5 DEF only
<1>7. CASE ~ bucket_is_empty(b)
  <2>1. PICK ring \in Rings : ring = list_insert(table.list, b.first, k)
    BY <1>2, <1>4
  <2>2. new = [table EXCEPT !.list = ring, !.buckets[i].first = k]
    BY <1>5, <1>7, <1>b, <2>1
  <2> HIDE DEF only
  <2>3. /\ new.size = table.size /\ new.order = table.order
        /\ new.ordered_list = table.ordered_list /\ new.value = table.value
        /\ new.list = ring
        /\ new.buckets = [table.buckets EXCEPT ![i] = [b EXCEPT !.first = k]]
    BY <2>2 DEF Shape, Tables
  <2>4. new.buckets = [table.buckets EXCEPT ![i] = more]
    BY <1>3, <2>3
  <2> HIDE DEF more
  <2>5. new \in Tables(table.order)
    BY <1>1, <1>3, <2>2, <2>3, <2>4 DEF Shape, Tables
  <2>6. Shape(new)
    BY <2>3, <2>5 DEF Shape
  <2> QED
    BY <1>5, <1>7, <1>a, <2>1, <2>3, <2>4, <2>6 DEF more
<1> QED
  BY <1>6, <1>7

(* insert_to_bucket keeps every bucket a stretch of the ring: at its end    *)
(* for a bucket that was empty, in front of the bucket otherwise.           *)
LEMMA InsertFiles ==
  ASSUME HashtableAssumption, HashesOK, NEW table, Shape(table),
         NEW s, NEW n, Order(s, n), Filed(table, s, n),
         NEW k \in Keys, ~ Holds(s, n, k)
  PROVE  \E p \in 1 .. n + 1 :
           /\ insert_to_bucket(table, k).list = list_insert(table.list, At(s, n, p), k)
           /\ Filed(insert_to_bucket(table, k), With(s, n, p, k), n + 1)
<1> DEFINE i == BucketOf(table, k)
           new == insert_to_bucket(table, k)
<1>0. /\ i \in Buckets(table.order) /\ n \in Nat /\ s \in [1 .. n -> Keys]
      /\ DOMAIN table.buckets = Buckets(table.order)
  BY BucketExists DEF Shape, Tables, Order
<1>1. /\ new.order = table.order
      /\ \A l : BucketOf(new, l) = BucketOf(table, l)
  BY InsertFields DEF BucketOf
<1>2. ASSUME NEW p \in 1 .. n + 1, NEW q \in 1 .. n + 1
      PROVE  With(s, n, p, k)[q] =
               IF q < p THEN s[q] ELSE IF q = p THEN k ELSE s[q - 1]
  BY DEF With
<1>3. CASE bucket_is_empty(table.buckets[i])
  <2> DEFINE p == n + 1
             w == With(s, n, p, k)
  <2>1. p \in 1 .. n + 1 /\ At(s, n, p) = HEAD
    BY <1>0 DEF At
  <2>2. new.list = list_insert(table.list, HEAD, k)
        /\ new.buckets = [table.buckets EXCEPT ![i] = [first |-> k, last |-> k]]
    BY <1>3, InsertFields
  <2>3. w[n + 1] = k /\ \A q \in 1 .. n : w[q] = s[q]
    BY <1>0, <1>2
  <2>4. NoStretch(table, s, n, i)
    BY <1>0, <1>3, EmptyBucket
  <2> HIDE DEF new, w, i
  <2>5. ASSUME NEW j \in Buckets(new.order)
        PROVE  \/ NoStretch(new, w, n + 1, j)
               \/ \E a, c \in 1 .. n + 1 : Stretch(new, w, n + 1, j, a, c)
    <3>1. CASE j = i
      <4>1. new.buckets[i].first = k /\ new.buckets[i].last = k
        BY <1>0, <2>2
      <4>2. ASSUME NEW q \in 1 .. n + 1
            PROVE  BucketOf(new, w[q]) = i <=> n + 1 <= q /\ q <= n + 1
        <5>1. CASE q = n + 1
          BY <1>0, <1>1, <2>3, <5>1 DEF i
        <5>2. CASE q # n + 1
          <6>1. q \in 1 .. n
            BY <1>0, <5>2
          <6> QED
            BY <1>0, <1>1, <2>3, <2>4, <6>1 DEF NoStretch
        <5> QED
          BY <5>1, <5>2
      <4>3. Stretch(new, w, n + 1, i, n + 1, n + 1)
        BY <1>0, <2>3, <4>1, <4>2 DEF Stretch
      <4>4. n + 1 \in 1 .. n + 1
        BY <1>0
      <4> QED
        BY <3>1, <4>3, <4>4
    <3>2. CASE j # i
      <4>1. j \in Buckets(table.order) /\ new.buckets[j] = table.buckets[j]
        BY <1>0, <1>1, <2>2, <3>2
      <4>2. CASE NoStretch(table, s, n, j)
        <5>1. ASSUME NEW q \in 1 .. n + 1
              PROVE  BucketOf(new, w[q]) # j
          <6>1. CASE q = n + 1
            BY <1>0, <1>1, <2>3, <3>2, <6>1 DEF i
          <6>2. CASE q # n + 1
            <7>1. q \in 1 .. n
              BY <1>0, <6>2
            <7> QED
              BY <1>1, <2>3, <4>2, <7>1 DEF NoStretch
          <6> QED
            BY <6>1, <6>2
        <5> QED
          BY <4>1, <4>2, <5>1 DEF NoStretch
      <4>3. ASSUME NEW a \in 1 .. n, NEW c \in 1 .. n, Stretch(table, s, n, j, a, c)
            PROVE  \E x, y \in 1 .. n + 1 : Stretch(new, w, n + 1, j, x, y)
        <5>1. ASSUME NEW q \in 1 .. n + 1
              PROVE  BucketOf(new, w[q]) = j <=> a <= q /\ q <= c
          <6>1. CASE q = n + 1
            BY <1>0, <1>1, <2>3, <3>2, <6>1 DEF i
          <6>2. CASE q # n + 1
            <7>1. q \in 1 .. n
              BY <1>0, <6>2
            <7> QED
              BY <1>1, <2>3, <4>3, <7>1 DEF Stretch
          <6> QED
            BY <6>1, <6>2
        <5>2. Stretch(new, w, n + 1, j, a, c)
          BY <2>3, <4>1, <4>3, <5>1 DEF Stretch
        <5>3. a \in 1 .. n + 1 /\ c \in 1 .. n + 1
          BY <1>0
        <5> QED
          BY <5>2, <5>3
      <4> QED
        BY <4>1, <4>2, <4>3 DEF Filed
    <3> QED
      BY <3>1, <3>2
  <2>6. Filed(new, w, n + 1)
    BY <2>5 DEF Filed
  <2> QED
    BY <2>1, <2>2, <2>6 DEF new, w
<1>4. CASE ~ bucket_is_empty(table.buckets[i])
  <2>1. PICK p \in 1 .. n, z \in 1 .. n : Stretch(table, s, n, i, p, z)
    BY <1>0, <1>4, EmptyBucket DEF Filed
  <2> DEFINE w == With(s, n, p, k)
  <2>2. p \in 1 .. n + 1 /\ z + 1 \in 1 .. n + 1 /\ p <= z + 1
        /\ At(s, n, p) = table.buckets[i].first
    BY <1>0, <2>1 DEF At, Stretch
  <2>3. /\ new.list = list_insert(table.list, At(s, n, p), k)
        /\ new.buckets = [table.buckets EXCEPT
                            ![i] = [first |-> k, last |-> table.buckets[i].last]]
    <3>1. new.list = list_insert(table.list, table.buckets[i].first, k)
          /\ new.buckets = [table.buckets EXCEPT
                              ![i] = [first |-> k, last |-> table.buckets[i].last]]
      BY <1>4, InsertFields
    <3> QED
      BY <2>2, <3>1
  <2>4. \A q \in 1 .. n + 1 :
          w[q] = IF q < p THEN s[q] ELSE IF q = p THEN k ELSE s[q - 1]
    BY <1>2, <2>2
  <2> HIDE DEF new, w, i
  <2>5. ASSUME NEW j \in Buckets(new.order)
        PROVE  \/ NoStretch(new, w, n + 1, j)
               \/ \E a, c \in 1 .. n + 1 : Stretch(new, w, n + 1, j, a, c)
    <3>1. CASE j = i
      <4>1. new.buckets[i].first = k /\ new.buckets[i].last = s[z]
        BY <1>0, <2>1, <2>3 DEF Stretch
      <4>2. ASSUME NEW q \in 1 .. n + 1
            PROVE  BucketOf(new, w[q]) = i <=> p <= q /\ q <= z + 1
        <5>1. CASE q < p
          <6>1. q \in 1 .. n /\ w[q] = s[q]
            BY <1>0, <2>4, <5>1
          <6> QED
            BY <1>1, <2>1, <5>1, <6>1 DEF Stretch
        <5>2. CASE q = p
          BY <1>0, <1>1, <2>1, <2>4, <5>2 DEF i, Stretch
        <5>3. CASE q > p
          <6>1. q - 1 \in 1 .. n /\ w[q] = s[q - 1]
            BY <1>0, <2>4, <5>3
          <6>2. BucketOf(table, s[q - 1]) = i <=> p <= q - 1 /\ q - 1 <= z
            BY <2>1, <6>1 DEF Stretch
          <6> QED
            BY <1>0, <1>1, <5>3, <6>1, <6>2
        <5> QED
          BY <1>0, <5>1, <5>2, <5>3
      <4>3. w[p] = k /\ w[z + 1] = s[z]
        <5>1. ~ (z + 1 < p) /\ z + 1 # p /\ (z + 1) - 1 = z
          BY <1>0, <2>1 DEF Stretch
        <5> QED
          BY <2>2, <2>4, <5>1
      <4>4. Stretch(new, w, n + 1, i, p, z + 1)
        BY <2>2, <4>1, <4>2, <4>3 DEF Stretch
      <4> QED
        BY <2>2, <3>1, <4>4
    <3>2. CASE j # i
      <4>1. j \in Buckets(table.order) /\ new.buckets[j] = table.buckets[j]
        BY <1>0, <1>1, <2>3, <3>2
      <4>2. CASE NoStretch(table, s, n, j)
        <5>1. ASSUME NEW q \in 1 .. n + 1
              PROVE  BucketOf(new, w[q]) # j
          <6>1. CASE q < p
            <7>1. q \in 1 .. n /\ w[q] = s[q]
              BY <1>0, <2>4, <6>1
            <7> QED
              BY <1>1, <4>2, <7>1 DEF NoStretch
          <6>2. CASE q = p
            BY <1>1, <2>4, <3>2, <6>2 DEF i
          <6>3. CASE q > p
            <7>1. q - 1 \in 1 .. n /\ w[q] = s[q - 1]
              BY <1>0, <2>4, <6>3
            <7> QED
              BY <1>1, <4>2, <7>1 DEF NoStretch
          <6> QED
            BY <1>0, <6>1, <6>2, <6>3
        <5> QED
          BY <4>1, <4>2, <5>1 DEF NoStretch
      <4>3. ASSUME NEW a \in 1 .. n, NEW c \in 1 .. n, Stretch(table, s, n, j, a, c)
            PROVE  \E x, y \in 1 .. n + 1 : Stretch(new, w, n + 1, j, x, y)
        <5>0. BucketOf(table, s[p]) = i /\ BucketOf(table, s[p]) # j
          BY <2>1, <3>2 DEF Stretch
        <5>1. c < p \/ p < a
          BY <1>0, <4>3, <5>0 DEF Stretch
        <5>2. CASE c < p
          <6>1. ASSUME NEW q \in 1 .. n + 1
                PROVE  BucketOf(new, w[q]) = j <=> a <= q /\ q <= c
            <7>1. CASE q < p
              <8>1. q \in 1 .. n /\ w[q] = s[q]
                BY <1>0, <2>4, <7>1
              <8> QED
                BY <1>1, <4>3, <8>1 DEF Stretch
            <7>2. CASE q = p
              BY <1>0, <1>1, <2>4, <3>2, <5>2, <7>2 DEF i
            <7>3. CASE q > p
              <8>1. q - 1 \in 1 .. n /\ w[q] = s[q - 1]
                BY <1>0, <2>4, <7>3
              <8>2. ~ (q - 1 <= c) /\ ~ (q <= c)
                BY <1>0, <5>2, <7>3
              <8> QED
                BY <1>1, <4>3, <8>1, <8>2 DEF Stretch
            <7> QED
              BY <1>0, <7>1, <7>2, <7>3
          <6>2. a \in 1 .. n + 1 /\ c \in 1 .. n + 1 /\ w[a] = s[a] /\ w[c] = s[c]
            BY <1>0, <2>4, <4>3, <5>2 DEF Stretch
          <6>3. Stretch(new, w, n + 1, j, a, c)
            BY <4>1, <4>3, <6>1, <6>2 DEF Stretch
          <6> QED
            BY <6>2, <6>3
        <5>3. CASE p < a
          <6>1. ASSUME NEW q \in 1 .. n + 1
                PROVE  BucketOf(new, w[q]) = j <=> a + 1 <= q /\ q <= c + 1
            <7>1. CASE q < p
              <8>1. q \in 1 .. n /\ w[q] = s[q]
                BY <1>0, <2>4, <7>1
              <8>2. ~ (a <= q) /\ ~ (a + 1 <= q)
                BY <1>0, <5>3, <7>1
              <8> QED
                BY <1>1, <4>3, <8>1, <8>2 DEF Stretch
            <7>2. CASE q = p
              BY <1>0, <1>1, <2>4, <3>2, <5>3, <7>2 DEF i
            <7>3. CASE q > p
              <8>1. q - 1 \in 1 .. n /\ w[q] = s[q - 1]
                BY <1>0, <2>4, <7>3
              <8>2. BucketOf(table, s[q - 1]) = j <=> a <= q - 1 /\ q - 1 <= c
                BY <4>3, <8>1 DEF Stretch
              <8> QED
                BY <1>0, <1>1, <8>1, <8>2
            <7> QED
              BY <1>0, <7>1, <7>2, <7>3
          <6>2. /\ a + 1 \in 1 .. n + 1 /\ c + 1 \in 1 .. n + 1 /\ a + 1 <= c + 1
                /\ w[a + 1] = s[a] /\ w[c + 1] = s[c]
            <7>1. /\ ~ (a + 1 < p) /\ a + 1 # p /\ (a + 1) - 1 = a
                  /\ ~ (c + 1 < p) /\ c + 1 # p /\ (c + 1) - 1 = c
                  /\ a + 1 \in 1 .. n + 1 /\ c + 1 \in 1 .. n + 1 /\ a + 1 <= c + 1
              BY <1>0, <4>3, <5>3 DEF Stretch
            <7> QED
              BY <2>4, <7>1
          <6>3. Stretch(new, w, n + 1, j, a + 1, c + 1)
            BY <4>1, <4>3, <6>1, <6>2 DEF Stretch
          <6> QED
            BY <6>2, <6>3
        <5> QED
          BY <5>1, <5>2, <5>3
      <4> QED
        BY <4>1, <4>2, <4>3 DEF Filed
    <3> QED
      BY <3>1, <3>2
  <2>6. Filed(new, w, n + 1)
    BY <2>5 DEF Filed
  <2> QED
    BY <2>2, <2>3, <2>6 DEF new, w
<1> QED
  BY <1>3, <1>4

(* What hashtable_do_del does to the fields.                                *)
LEMMA DeleteFields ==
  ASSUME HashtableAssumption, HashesOK, NEW table, Shape(table),
         table.size # 0, NEW k \in Keys
  PROVE  /\ Shape(hashtable_do_del(table, k))
         /\ hashtable_do_del(table, k).size = table.size - 1
         /\ hashtable_do_del(table, k).order = table.order
         /\ hashtable_do_del(table, k).list = list_remove(table.list, k)
         /\ hashtable_do_del(table, k).ordered_list =
              list_remove(table.ordered_list, k)
         /\ hashtable_do_del(table, k).value = [table.value EXCEPT ![k] = NULL]
         /\ hashtable_do_del(table, k).buckets =
              [table.buckets EXCEPT
                 ![BucketOf(table, k)] =
                   BucketWithout(table.buckets[BucketOf(table, k)], k, table.list)]
<1> DEFINE i == BucketOf(table, k)
           b == table.buckets[i]
<1>1. /\ i \in Buckets(table.order) /\ k \in ListNodes /\ HEAD \in ListNodes
      /\ table.order \in Nat
  BY BucketExists DEF Shape, Tables, ListNodes
<1>2. hashtable_do_del(table, k) =
        [table EXCEPT !.buckets[i] = BucketWithout(@, k, table.list),
                      !.list = list_remove(@, k),
                      !.ordered_list = list_remove(@, k),
                      !.value[k] = NULL,
                      !.size = @ - 1]
  BY DEF hashtable_do_del
<1>3. i = BucketOf(table, k)
  OBVIOUS
<1> HIDE DEF i
<1>4. b \in [first : ListNodes, last : ListNodes]
  BY <1>1 DEF Shape, Tables
<1>5. PICK less \in [first : ListNodes, last : ListNodes] :
             less = BucketWithout(b, k, table.list)
  <2>1. /\ table.list.next[k] \in ListNodes /\ table.list.prev[k] \in ListNodes
    BY <1>1 DEF Shape, Tables, Rings
  <2> QED
    BY <1>1, <1>4, <2>1 DEF BucketWithout
<1>6. ASSUME NEW ring \in Rings
      PROVE  list_remove(ring, k) \in Rings
  BY <1>1 DEF list_remove, Rings
<1>7. PICK x \in Rings, y \in Rings :
             x = list_remove(table.list, k) /\ y = list_remove(table.ordered_list, k)
  BY <1>6 DEF Shape, Tables
<1>8. PICK new : new = hashtable_do_del(table, k)
  OBVIOUS
<1>9. new = [table EXCEPT !.buckets[i] = less, !.list = x, !.ordered_list = y,
                          !.value[k] = NULL, !.size = @ - 1]
  BY <1>2, <1>5, <1>7, <1>8 DEF Shape, Tables
<1>10. /\ new.size = table.size - 1 /\ new.order = table.order
       /\ new.list = x /\ new.ordered_list = y
       /\ new.value = [table.value EXCEPT ![k] = NULL]
       /\ new.buckets = [table.buckets EXCEPT ![i] = less]
  BY <1>9 DEF Shape, Tables
<1>11. table.size - 1 \in Nat
  BY DEF Shape, Tables
<1>12. new \in Tables(table.order)
  BY <1>1, <1>9, <1>10, <1>11 DEF Shape, Tables
<1>13. Shape(new)
  BY <1>10, <1>12 DEF Shape
<1> QED
  BY <1>3, <1>5, <1>7, <1>8, <1>10, <1>13

(* hashtable_do_del keeps every bucket a stretch of the ring: the bucket of *)
(* the entry loses one place, and those behind it move up.                  *)
LEMMA DeleteFiles ==
  ASSUME HashtableAssumption, HashesOK, NEW table, Shape(table), table.size # 0,
         NEW s, NEW n, Linked(table.list, s, n), Filed(table, s, n),
         NEW p \in 1 .. n
  PROVE  Filed(hashtable_do_del(table, s[p]), Less(s, n, p), n - 1)
<1>0. /\ Order(s, n) /\ n \in Nat /\ s \in [1 .. n -> Keys] /\ s[p] \in Keys
      /\ DOMAIN table.buckets = Buckets(table.order) /\ table.order \in Nat
  BY DEF Shape, Tables, Order, Linked
<1>1. PICK k \in Keys : k = s[p]
  BY <1>0
<1>2. PICK i \in Buckets(table.order) : i = BucketOf(table, k)
  BY <1>0, BucketExists
<1>3. PICK new : new = hashtable_do_del(table, k)
  OBVIOUS
<1>4. /\ new.order = table.order
      /\ new.buckets = [table.buckets EXCEPT
                          ![i] = BucketWithout(table.buckets[i], k, table.list)]
  BY <1>2, <1>3, DeleteFields
<1>5. \A l : BucketOf(new, l) = BucketOf(table, l)
  BY <1>4 DEF BucketOf
<1>6. PICK w : w = Less(s, n, p)
  OBVIOUS
<1>7. \A q \in 1 .. n - 1 : w[q] = IF q < p THEN s[q] ELSE s[q + 1]
  BY <1>6 DEF Less
<1>8. ASSUME NEW j \in Buckets(table.order), j # i
      PROVE  \/ NoStretch(new, w, n - 1, j)
             \/ \E a, c \in 1 .. n - 1 : Stretch(new, w, n - 1, j, a, c)
  <2>1. new.buckets[j] = table.buckets[j]
    BY <1>0, <1>4, <1>8
  <2>2. CASE NoStretch(table, s, n, j)
    <3>1. ASSUME NEW q \in 1 .. n - 1
          PROVE  BucketOf(new, w[q]) # j
      <4>1. q \in 1 .. n /\ q + 1 \in 1 .. n
        BY <1>0
      <4> QED
        BY <1>5, <1>7, <2>2, <4>1 DEF NoStretch
    <3> QED
      BY <2>1, <2>2, <3>1 DEF NoStretch
  <2>3. ASSUME NEW a \in 1 .. n, NEW c \in 1 .. n, Stretch(table, s, n, j, a, c)
        PROVE  \E x, y \in 1 .. n - 1 : Stretch(new, w, n - 1, j, x, y)
    <3>1. a <= c /\ ~ (a <= p /\ p <= c)
      BY <1>1, <1>2, <1>8, <2>3 DEF Stretch
    <3>2. CASE p < a
      <4>1. /\ a - 1 \in 1 .. n - 1 /\ c - 1 \in 1 .. n - 1 /\ a - 1 <= c - 1
            /\ ~ (a - 1 < p) /\ ~ (c - 1 < p) /\ (a - 1) + 1 = a /\ (c - 1) + 1 = c
        BY <1>0, <3>1, <3>2
      <4>2. w[a - 1] = s[a] /\ w[c - 1] = s[c]
        BY <1>7, <4>1
      <4>3. ASSUME NEW q \in 1 .. n - 1
            PROVE  BucketOf(new, w[q]) = j <=> a - 1 <= q /\ q <= c - 1
        <5>1. CASE q < p
          <6>1. q \in 1 .. n /\ w[q] = s[q] /\ ~ (a <= q)
            BY <1>0, <1>7, <3>2, <5>1
          <6> QED
            BY <1>5, <2>3, <3>2, <5>1, <6>1 DEF Stretch
        <5>2. CASE q >= p
          <6>1. q + 1 \in 1 .. n /\ w[q] = s[q + 1]
            BY <1>0, <1>7, <5>2
          <6>2. BucketOf(table, s[q + 1]) = j <=> a <= q + 1 /\ q + 1 <= c
            BY <2>3, <6>1 DEF Stretch
          <6> QED
            BY <1>0, <1>5, <6>1, <6>2
        <5> QED
          BY <1>0, <5>1, <5>2
      <4>4. Stretch(new, w, n - 1, j, a - 1, c - 1)
        BY <2>1, <2>3, <4>1, <4>2, <4>3 DEF Stretch
      <4> QED
        BY <4>1, <4>4
    <3>3. CASE c < p
      <4>1. a \in 1 .. n - 1 /\ c \in 1 .. n - 1 /\ a < p
        BY <1>0, <3>1, <3>3
      <4>2. w[a] = s[a] /\ w[c] = s[c]
        BY <1>7, <3>3, <4>1
      <4>3. ASSUME NEW q \in 1 .. n - 1
            PROVE  BucketOf(new, w[q]) = j <=> a <= q /\ q <= c
        <5>1. CASE q < p
          <6>1. q \in 1 .. n /\ w[q] = s[q]
            BY <1>0, <1>7, <5>1
          <6> QED
            BY <1>5, <2>3, <6>1 DEF Stretch
        <5>2. CASE q >= p
          <6>1. q + 1 \in 1 .. n /\ w[q] = s[q + 1] /\ ~ (q + 1 <= c) /\ ~ (q <= c)
            BY <1>0, <1>7, <3>3, <5>2
          <6>2. BucketOf(table, s[q + 1]) # j
            BY <2>3, <6>1 DEF Stretch
          <6> QED
            BY <1>5, <6>1, <6>2
        <5> QED
          BY <1>0, <5>1, <5>2
      <4>4. Stretch(new, w, n - 1, j, a, c)
        BY <2>1, <2>3, <4>2, <4>3 DEF Stretch
      <4> QED
        BY <4>1, <4>4
    <3> QED
      BY <1>0, <3>1, <3>2, <3>3
  <2> QED
    BY <2>2, <2>3 DEF Filed
<1>9. \/ NoStretch(new, w, n - 1, i)
      \/ \E a, c \in 1 .. n - 1 : Stretch(new, w, n - 1, i, a, c)
  <2>1. PICK b : b = table.buckets[i] /\ b \in [first : ListNodes, last : ListNodes]
    BY <1>0, <1>2 DEF Shape, Tables
  <2>2. new.buckets[i] = BucketWithout(b, k, table.list)
    BY <1>0, <1>2, <1>4, <2>1
  <2>3. PICK a \in 1 .. n, c \in 1 .. n : Stretch(table, s, n, i, a, c)
    BY <1>1, <1>2 DEF Filed, NoStretch
  <2>4. a <= p /\ p <= c /\ b.first = s[a] /\ b.last = s[c]
    BY <1>1, <1>2, <2>1, <2>3 DEF Stretch
  <2>5. (k = b.first <=> p = a) /\ (k = b.last <=> p = c)
    BY <1>0, <1>1, <2>4 DEF Order
  <2>6. ASSUME NEW q \in 1 .. n - 1
        PROVE  BucketOf(new, w[q]) = i <=> a <= q /\ q <= c - 1
    <3>1. CASE q < p
      <4>1. q \in 1 .. n /\ w[q] = s[q] /\ q <= c /\ q <= c - 1
        BY <1>0, <1>7, <2>4, <3>1
      <4> QED
        BY <1>5, <2>3, <4>1 DEF Stretch
    <3>2. CASE q >= p
      <4>1. q + 1 \in 1 .. n /\ w[q] = s[q + 1] /\ a <= q /\ a <= q + 1
        BY <1>0, <1>7, <2>4, <3>2
      <4>2. BucketOf(table, s[q + 1]) = i <=> q + 1 <= c
        BY <2>3, <4>1 DEF Stretch
      <4> QED
        BY <1>0, <1>5, <4>1, <4>2
    <3> QED
      BY <1>0, <3>1, <3>2
  <2>7. CASE a = c
    <3>1. p = a /\ p = c
      BY <1>0, <2>4, <2>7
    <3>2. new.buckets[i] = [first |-> HEAD, last |-> HEAD]
      BY <2>2, <2>5, <3>1 DEF BucketWithout
    <3>3. \A q \in 1 .. n - 1 : BucketOf(new, w[q]) # i
      BY <1>0, <2>6, <2>7
    <3> QED
      BY <3>2, <3>3 DEF NoStretch
  <2>8. CASE a # c
    <3>1. /\ a \in 1 .. n - 1 /\ c - 1 \in 1 .. n - 1 /\ a <= c - 1
          /\ (c - 1) + 1 = c
      BY <1>0, <2>3, <2>8 DEF Stretch
    <3>2. new.buckets[i].first = w[a]
      <4>1. CASE p = a
        <5>1. new.buckets[i].first = table.list.next[k] /\ p # c
          BY <2>1, <2>2, <2>5, <2>8, <4>1 DEF BucketWithout
        <5>2. table.list.next[At(s, n, p)] = At(s, n, p + 1)
          BY <1>0 DEF Linked
        <5>3. At(s, n, p) = k /\ At(s, n, p + 1) = s[p + 1]
          BY <1>0, <1>1, <3>1, <4>1 DEF At
        <5>4. w[a] = s[a + 1]
          BY <1>0, <1>7, <3>1, <4>1
        <5> QED
          BY <4>1, <5>1, <5>2, <5>3, <5>4
      <4>2. CASE p # a
        <5>1. new.buckets[i].first = b.first
          BY <2>1, <2>2, <2>5, <4>2 DEF BucketWithout
        <5>2. w[a] = s[a]
          BY <1>0, <1>7, <2>4, <3>1, <4>2
        <5> QED
          BY <2>4, <5>1, <5>2
      <4> QED
        BY <4>1, <4>2
    <3>3. new.buckets[i].last = w[c - 1]
      <4>1. CASE p = c
        <5>1. new.buckets[i].last = table.list.prev[k] /\ p # a
          BY <2>1, <2>2, <2>5, <2>8, <4>1 DEF BucketWithout
        <5>2. table.list.prev[At(s, n, (p - 1) + 1)] = At(s, n, p - 1)
          <6>1. p - 1 \in 0 .. n
            BY <1>0
          <6> QED
            BY <6>1 DEF Linked
        <5>3. At(s, n, (p - 1) + 1) = k /\ At(s, n, p - 1) = s[c - 1]
          BY <1>0, <1>1, <3>1, <4>1 DEF At
        <5>4. w[c - 1] = s[c - 1]
          BY <1>0, <1>7, <3>1, <4>1
        <5> QED
          BY <5>1, <5>2, <5>3, <5>4
      <4>2. CASE p # c
        <5>1. new.buckets[i].last = b.last
          BY <2>1, <2>2, <2>5, <4>2 DEF BucketWithout
        <5>2. w[c - 1] = s[(c - 1) + 1]
          BY <1>0, <1>7, <2>4, <3>1, <4>2
        <5> QED
          BY <2>4, <3>1, <5>1, <5>2
      <4> QED
        BY <4>1, <4>2
    <3>4. Stretch(new, w, n - 1, i, a, c - 1)
      BY <2>6, <3>1, <3>2, <3>3 DEF Stretch
    <3> QED
      BY <3>1, <3>4
  <2> QED
    BY <2>7, <2>8
<1>10. Filed(new, w, n - 1)
  BY <1>4, <1>8, <1>9 DEF Filed
<1> QED
  BY <1>1, <1>3, <1>6, <1>10

-----------------------------------------------------------------------------
(* An order is not longer than there are keys.                              *)
LEMMA OrderFits ==
  ASSUME HashtableAssumption, NEW s, NEW n, Order(s, n)
  PROVE  n <= Passes /\ Passes \in Nat
<1>1. n \in Nat /\ s \in Injection(1 .. n, Keys)
  BY DEF Order, Injection, IsInjective
<1>2. IsFiniteSet(Keys) /\ Cardinality(Keys) \in Nat
  BY FS_CardinalityType DEF HashtableAssumption
<1>3. Cardinality(1 .. n) <= Cardinality(Keys)
  BY <1>1, <1>2, FS_Injection
<1>4. Cardinality(1 .. n) = n
  BY <1>1, FS_Interval
<1> QED
  BY <1>2, <1>3, <1>4 DEF Passes

(* Walk passes the entries in their order.                                  *)
LEMMA WalkIsOrder ==
  ASSUME HashtableAssumption, NEW ring, NEW s, NEW n, Linked(ring, s, n)
  PROVE  Walk(ring) = s
<1> DEFINE Walking(h) ==
             h = [j \in Nat |-> IF j = 0 THEN ring.next[HEAD]
                                ELSE IF h[j - 1] = HEAD THEN HEAD
                                ELSE ring.next[h[j - 1]]]
<1>0. /\ Order(s, n) /\ n \in Nat /\ s \in [1 .. n -> Keys]
      /\ ring.next \in [ListNodes -> ListNodes] /\ HEAD \in ListNodes
      /\ HEAD \notin Keys
  BY DEF Linked, Order, Rings, ListNodes, HashtableAssumption
<1>1. \E g : Walking(g)
  <2>1. PICK D : D = ListNodes
    OBVIOUS
  <2>2. PICK F \in [D -> D] :
               F = [m \in D |-> IF m = HEAD THEN HEAD ELSE ring.next[m]]
    BY <1>0, <2>1
  <2>3. PICK base \in D : base = ring.next[HEAD]
    BY <1>0, <2>1
  <2>4. PICK g \in [Nat -> D] : g[0] = base /\ \A j \in Nat : g[j + 1] = F[g[j]]
    BY Iterates
  <2>5. ASSUME NEW j \in Nat
        PROVE  g[j] = IF j = 0 THEN ring.next[HEAD]
                      ELSE IF g[j - 1] = HEAD THEN HEAD
                      ELSE ring.next[g[j - 1]]
    <3>1. CASE j = 0
      BY <2>3, <2>4, <3>1
    <3>2. CASE j # 0
      <4>1. j - 1 \in Nat /\ (j - 1) + 1 = j
        BY <3>2
      <4>2. g[j] = F[g[j - 1]] /\ g[j - 1] \in D
        BY <2>4, <4>1
      <4> QED
        BY <2>2, <3>2, <4>2
    <3> QED
      BY <3>1, <3>2
  <2>6. Walking(g)
    BY <2>4, <2>5
  <2> QED
    BY <2>6
<1>2. PICK at : at = CHOOSE h : Walking(h)
  OBVIOUS
<1>3. Walk(ring) =
        [i \in 1 .. Cardinality({j \in 1 .. Passes : at[j - 1] # HEAD}) |-> at[i - 1]]
  BY <1>2 DEF Walk
<1> HIDE DEF Walking
<1>4. Walking(at)
  BY <1>1, <1>2
<1>5. \A j \in Nat : at[j] = IF j = 0 THEN ring.next[HEAD]
                             ELSE IF at[j - 1] = HEAD THEN HEAD
                             ELSE ring.next[at[j - 1]]
  BY <1>4 DEF Walking
<1> DEFINE T == {j \in Nat : at[j] = At(s, n, j + 1)}
<1>6. 0 \in T
  <2>1. ring.next[At(s, n, 0)] = At(s, n, 0 + 1) /\ At(s, n, 0) = HEAD
    BY <1>0, PlacesDiffer DEF Linked
  <2> QED
    BY <1>5, <2>1
<1>7. ASSUME NEW j \in Nat, j \in T
      PROVE  j + 1 \in T
  <2>1. at[j] = At(s, n, j + 1) /\ (j + 1) - 1 = j /\ j + 1 # 0 /\ j + 1 \in Nat
    BY <1>7
  <2>2. at[j + 1] = IF at[j] = HEAD THEN HEAD ELSE ring.next[at[j]]
    BY <1>5, <2>1
  <2>3. CASE j + 1 \in 1 .. n
    <3>1. at[j] # HEAD
      BY <1>0, <2>1, <2>3 DEF At
    <3>2. ring.next[At(s, n, j + 1)] = At(s, n, (j + 1) + 1)
      BY <1>0, <2>3 DEF Linked
    <3> QED
      BY <2>1, <2>2, <3>1, <3>2
  <2>4. CASE j + 1 \notin 1 .. n
    <3>1. at[j] = HEAD /\ At(s, n, (j + 1) + 1) = HEAD
      BY <1>0, <2>1, <2>4 DEF At
    <3> QED
      BY <2>1, <2>2, <3>1
  <2> QED
    BY <2>3, <2>4
<1>8. \A j \in Nat : at[j] = At(s, n, j + 1)
  <2> HIDE DEF T
  <2>1. Nat \subseteq T
    BY <1>6, <1>7, AllNumbers
  <2> QED
    BY <2>1 DEF T
<1>9. ASSUME NEW j \in Nat, j # 0
      PROVE  at[j - 1] = At(s, n, j)
  BY <1>8, <1>9
<1>10. {j \in 1 .. Passes : at[j - 1] # HEAD} = 1 .. n
  <2>1. n <= Passes /\ Passes \in Nat
    BY <1>0, OrderFits
  <2>2. ASSUME NEW j \in 1 .. Passes
        PROVE  at[j - 1] # HEAD <=> j \in 1 .. n
    BY <1>0, <1>9, <2>1 DEF At
  <2> QED
    BY <1>0, <2>1, <2>2
<1>11. Cardinality({j \in 1 .. Passes : at[j - 1] # HEAD}) = n
  <2>1. Cardinality(1 .. n) = n
    BY <1>0, FS_Interval
  <2> QED
    BY <1>10, <2>1
<1>12. \A i \in 1 .. n : at[i - 1] = s[i]
  BY <1>0, <1>9 DEF At
<1> QED
  BY <1>0, <1>3, <1>11, <1>12

(* A key is found if and only if the ring holds it: the search ends at the  *)
(* key, or else at the last of its bucket.                                  *)
LEMMA FindsHeld ==
  ASSUME HashtableAssumption, HashesOK, NEW table, Shape(table),
         NEW s, NEW n, Linked(table.list, s, n), Filed(table, s, n),
         NEW k \in Keys
  PROVE  hashtable_find_pair(table, k) = IF Holds(s, n, k) THEN k ELSE NULL
<1>0. /\ Order(s, n) /\ n \in Nat /\ s \in [1 .. n -> Keys]
      /\ table.list.next \in [ListNodes -> ListNodes] /\ Keys \subseteq ListNodes
      /\ table.order \in Nat
  BY DEF Linked, Order, Rings, ListNodes, Shape, Tables
<1>1. PICK i \in Buckets(table.order) : i = BucketOf(table, k)
  BY <1>0, BucketExists
<1>2. PICK b : b = table.buckets[i] /\ b \in [first : ListNodes, last : ListNodes]
  BY <1>1 DEF Shape, Tables
<1> DEFINE Searching(h) ==
             h = [j \in Nat |-> IF j = 0 THEN b.first
                                ELSE IF h[j - 1] \in {k, b.last} THEN h[j - 1]
                                ELSE table.list.next[h[j - 1]]]
<1>3. \E g : Searching(g)
  <2>1. PICK D : D = ListNodes
    OBVIOUS
  <2>2. PICK F \in [D -> D] :
               F = [m \in D |-> IF m \in {k, b.last} THEN m ELSE table.list.next[m]]
    BY <1>0, <2>1
  <2>3. PICK base \in D : base = b.first
    BY <1>2, <2>1
  <2>4. PICK g \in [Nat -> D] : g[0] = base /\ \A j \in Nat : g[j + 1] = F[g[j]]
    BY Iterates
  <2>5. ASSUME NEW j \in Nat
        PROVE  g[j] = IF j = 0 THEN b.first
                      ELSE IF g[j - 1] \in {k, b.last} THEN g[j - 1]
                      ELSE table.list.next[g[j - 1]]
    <3>1. CASE j = 0
      BY <2>3, <2>4, <3>1
    <3>2. CASE j # 0
      <4>1. j - 1 \in Nat /\ (j - 1) + 1 = j
        BY <3>2
      <4>2. g[j] = F[g[j - 1]] /\ g[j - 1] \in D
        BY <2>4, <4>1
      <4> QED
        BY <2>2, <3>2, <4>2
    <3> QED
      BY <3>1, <3>2
  <2>6. Searching(g)
    BY <2>4, <2>5
  <2> QED
    BY <2>6
<1>4. PICK at : at = CHOOSE h : Searching(h)
  OBVIOUS
<1>5. hashtable_find_pair(table, k) =
        IF ~ bucket_is_empty(b) /\ at[Passes] = k THEN k ELSE NULL
  BY <1>1, <1>2, <1>4 DEF hashtable_find_pair
<1> HIDE DEF Searching
<1>6. Searching(at)
  BY <1>3, <1>4
<1>7. \A j \in Nat : at[j] = IF j = 0 THEN b.first
                             ELSE IF at[j - 1] \in {k, b.last} THEN at[j - 1]
                             ELSE table.list.next[at[j - 1]]
  BY <1>6 DEF Searching
<1>8. CASE NoStretch(table, s, n, i)
  <2>1. bucket_is_empty(b)
    BY <1>0, <1>1, <1>2, <1>8, EmptyBucket
  <2>2. ~ Holds(s, n, k)
    BY <1>1, <1>8 DEF NoStretch, Holds
  <2> QED
    BY <1>5, <2>1, <2>2
<1>9. ASSUME NEW a \in 1 .. n, NEW c \in 1 .. n, Stretch(table, s, n, i, a, c)
      PROVE  hashtable_find_pair(table, k) = IF Holds(s, n, k) THEN k ELSE NULL
  <2>1. a <= c /\ b.first = s[a] /\ b.last = s[c]
    BY <1>2, <1>9 DEF Stretch
  <2>2. ~ bucket_is_empty(b)
    BY <1>0, <2>1 DEF bucket_is_empty, HashtableAssumption
  <2>3. PICK stop \in 1 .. n :
               /\ a <= stop /\ stop <= c
               /\ IF Holds(s, n, k) THEN s[stop] = k ELSE stop = c
    <3>1. CASE Holds(s, n, k)
      <4>1. PICK q \in 1 .. n : s[q] = k
        BY <3>1 DEF Holds
      <4>2. a <= q /\ q <= c
        BY <1>1, <1>9, <4>1 DEF Stretch
      <4> QED
        BY <3>1, <4>1, <4>2
    <3>2. CASE ~ Holds(s, n, k)
      BY <2>1, <3>2
    <3> QED
      BY <3>1, <3>2
  <2>4. ASSUME NEW q \in 1 .. n, q <= stop
        PROVE  s[q] \in {k, b.last} <=> q = stop
    <3>1. s[q] = b.last <=> q = c
      BY <1>0, <2>1 DEF Order
    <3>2. CASE Holds(s, n, k)
      <4>1. s[stop] = k
        BY <2>3, <3>2
      <4>2. s[q] = k <=> q = stop
        BY <1>0, <4>1 DEF Order
      <4>3. q = c => q = stop
        BY <1>0, <2>3, <2>4
      <4> QED
        BY <3>1, <4>2, <4>3
    <3>3. CASE ~ Holds(s, n, k)
      BY <2>3, <3>1, <3>3 DEF Holds
    <3> QED
      BY <3>2, <3>3
  <2> DEFINE Place(j) == IF a + j <= stop THEN a + j ELSE stop
             T == {j \in Nat : at[j] = s[Place(j)]}
  <2>5. 0 \in T
    BY <1>0, <1>7, <2>1, <2>3
  <2>6. ASSUME NEW j \in Nat, j \in T
        PROVE  j + 1 \in T
    <3>1. at[j] = s[Place(j)] /\ (j + 1) - 1 = j /\ j + 1 # 0 /\ j + 1 \in Nat
      BY <2>6
    <3>2. at[j + 1] = IF at[j] \in {k, b.last} THEN at[j]
                      ELSE table.list.next[at[j]]
      BY <1>7, <3>1
    <3>3. Place(j) \in 1 .. n /\ Place(j) <= stop
      BY <1>0, <2>3
    <3>4. at[j] \in {k, b.last} <=> Place(j) = stop
      BY <2>4, <3>1, <3>3
    <3>5. CASE Place(j) = stop
      <4>1. Place(j + 1) = stop
        BY <1>0, <2>3, <3>5
      <4> QED
        BY <3>1, <3>2, <3>4, <3>5, <4>1
    <3>6. CASE Place(j) # stop
      <4>1. /\ Place(j) + 1 = Place(j + 1) /\ Place(j) \in 0 .. n
            /\ Place(j + 1) \in 1 .. n
        BY <1>0, <2>3, <3>6
      <4>2. table.list.next[At(s, n, Place(j))] = At(s, n, Place(j) + 1)
        BY <4>1 DEF Linked
      <4>3. At(s, n, Place(j)) = s[Place(j)] /\ At(s, n, Place(j) + 1) = s[Place(j + 1)]
        BY <3>3, <4>1 DEF At
      <4>4. at[j + 1] = table.list.next[at[j]]
        BY <3>2, <3>4, <3>6
      <4> QED
        BY <3>1, <4>2, <4>3, <4>4
    <3> QED
      BY <3>5, <3>6
  <2>7. Passes \in T
    <3>1. Passes \in Nat
      BY <1>0, OrderFits
    <3> HIDE DEF T
    <3>2. Nat \subseteq T
      BY <2>5, <2>6, AllNumbers
    <3> QED
      BY <3>1, <3>2
  <2>8. at[Passes] = s[stop]
    <3>1. n <= Passes /\ Passes \in Nat
      BY <1>0, OrderFits
    <3>2. a + Passes > stop \/ a + Passes = stop
      BY <1>0, <3>1
    <3> QED
      BY <2>7, <3>2
  <2>9. s[stop] = k <=> Holds(s, n, k)
    BY <2>3 DEF Holds
  <2> QED
    BY <1>5, <2>2, <2>8, <2>9
<1> QED
  BY <1>1, <1>8, <1>9 DEF Filed

-----------------------------------------------------------------------------
(* What hashtable_do_rehash begins with: a table of twice the buckets that  *)
(* has no entries, while those of the old one still point to each other.    *)
Headed(table, head) ==
  head = [table EXCEPT !.order = table.order + 1,
                       !.buckets = NoBuckets(table.order + 1),
                       !.list.next[HEAD] = HEAD, !.list.prev[HEAD] = HEAD]

(* A table like another one but for its ring and its buckets.               *)
Regrown(table, new) ==
  /\ Shape(new)
  /\ new.order = table.order + 1
  /\ new.size = table.size
  /\ new.ordered_list = table.ordered_list
  /\ new.value = table.value

LEMMA HeadFields ==
  ASSUME HashtableAssumption, NEW table, Shape(table), NEW head, Headed(table, head)
  PROVE  /\ Regrown(table, head)
         /\ head.buckets = NoBuckets(head.order)
         /\ head.list.next[HEAD] = HEAD /\ head.list.prev[HEAD] = HEAD
         /\ \A k \in Keys : /\ head.list.next[k] = table.list.next[k]
                            /\ head.list.prev[k] = table.list.prev[k]
<1>0. /\ table.order + 1 \in Nat /\ HEAD \in ListNodes /\ HEAD \notin Keys
      /\ Keys \subseteq ListNodes
  BY DEF Shape, Tables, ListNodes, HashtableAssumption
<1>1. PICK none : none = NoBuckets(table.order + 1)
  OBVIOUS
<1>2. none \in [Buckets(table.order + 1) -> [first : ListNodes, last : ListNodes]]
  BY <1>0, <1>1 DEF NoBuckets
<1>3. head = [table EXCEPT !.order = table.order + 1, !.buckets = none,
                           !.list.next[HEAD] = HEAD, !.list.prev[HEAD] = HEAD]
  BY <1>1 DEF Headed
<1>4. /\ head.order = table.order + 1 /\ head.buckets = none
      /\ head.size = table.size /\ head.ordered_list = table.ordered_list
      /\ head.value = table.value
  BY <1>3 DEF Shape, Tables
<1>5. /\ head.list.next = [table.list.next EXCEPT ![HEAD] = HEAD]
      /\ head.list.prev = [table.list.prev EXCEPT ![HEAD] = HEAD]
      /\ head.list \in Rings
  BY <1>0, <1>3 DEF Shape, Tables, Rings
<1>6. head \in Tables(table.order + 1)
  BY <1>0, <1>2, <1>3, <1>4, <1>5 DEF Shape, Tables
<1>7. Shape(head)
  BY <1>4, <1>6 DEF Shape
<1>8. table.list \in Rings
  BY DEF Shape, Tables
<1> QED
  BY <1>0, <1>1, <1>4, <1>5, <1>7, <1>8 DEF Regrown, Rings

(* The table of hashtable_do_rehash is the last of a chain of tables.       *)
LEMMA RehashMoves ==
  ASSUME HashtableAssumption, HashesOK, NEW table, Shape(table)
  PROVE  \E head, moved :
           /\ Headed(table, head)
           /\ moved[0] = [table |-> head, at |-> table.list.next[HEAD]]
           /\ \A j \in Nat : moved[j + 1] = MoveNext(moved[j])
           /\ hashtable_do_rehash(table) = moved[Passes].table
<1>1. PICK head : Headed(table, head)
  BY DEF Headed
<1> DEFINE Moving(h) ==
             h = [j \in Nat |->
                    IF j = 0 THEN [table |-> head, at |-> table.list.next[HEAD]]
                    ELSE MoveNext(h[j - 1])]
<1>2. hashtable_do_rehash(table) = (CHOOSE h : Moving(h))[Passes].table
  BY <1>1 DEF hashtable_do_rehash, Headed
<1>3. PICK o \in Nat : o = table.order + 1
  BY DEF Shape, Tables
<1>4. PICK D : D = {m \in [table : Tables(o), at : ListNodes] : m.table.order = o}
  OBVIOUS
<1>5. PICK base \in D : base = [table |-> head, at |-> table.list.next[HEAD]]
  <2>1. head \in Tables(o) /\ head.order = o
    BY <1>1, <1>3, HeadFields DEF Regrown, Shape
  <2>2. table.list.next[HEAD] \in ListNodes
    BY DEF Shape, Tables, Rings, ListNodes
  <2> QED
    BY <1>4, <2>1, <2>2
<1>6. ASSUME NEW m \in D
      PROVE  MoveNext(m) \in D
  <2>1. m.table \in Tables(o) /\ m.table.order = o /\ m.at \in ListNodes
    BY <1>4
  <2>2. CASE m.at = HEAD
    BY <2>2 DEF MoveNext
  <2>3. CASE m.at # HEAD
    <3>1. m.at \in Keys /\ Shape(m.table)
      BY <2>1, <2>3 DEF ListNodes, Shape
    <3>2. /\ insert_to_bucket(m.table, m.at) \in Tables(o)
          /\ insert_to_bucket(m.table, m.at).order = o
      BY <2>1, <3>1, InsertFields DEF Shape
    <3>3. m.table.list.next[m.at] \in ListNodes
      BY <2>1 DEF Tables, Rings
    <3>4. MoveNext(m) = [table |-> insert_to_bucket(m.table, m.at),
                         at |-> m.table.list.next[m.at]]
      BY <2>3 DEF MoveNext
    <3> QED
      BY <1>4, <3>2, <3>3, <3>4
  <2> QED
    BY <2>2, <2>3
<1>7. PICK F \in [D -> D] : F = [m \in D |-> MoveNext(m)]
  BY <1>6
<1>8. PICK g \in [Nat -> D] : g[0] = base /\ \A j \in Nat : g[j + 1] = F[g[j]]
  BY Iterates
<1>9. Moving(g)
  <2>1. ASSUME NEW j \in Nat
        PROVE  g[j] = IF j = 0
                        THEN [table |-> head, at |-> table.list.next[HEAD]]
                        ELSE MoveNext(g[j - 1])
    <3>1. CASE j = 0
      BY <1>5, <1>8, <3>1
    <3>2. CASE j # 0
      <4>1. j - 1 \in Nat /\ (j - 1) + 1 = j
        BY <3>2
      <4>2. g[j] = F[g[j - 1]] /\ g[j - 1] \in D
        BY <1>8, <4>1
      <4> QED
        BY <1>7, <3>2, <4>2
    <3> QED
      BY <3>1, <3>2
  <2> QED
    BY <2>1
<1>10. PICK moved : moved = CHOOSE h : Moving(h)
  OBVIOUS
<1> HIDE DEF Moving
<1>11. Moving(moved)
  BY <1>9, <1>10
<1>12. /\ moved[0] = [table |-> head, at |-> table.list.next[HEAD]]
       /\ \A j \in Nat : moved[j + 1] = MoveNext(moved[j])
  <2>1. \A j \in Nat : j + 1 \in Nat /\ j + 1 # 0 /\ (j + 1) - 1 = j
    OBVIOUS
  <2> QED
    BY <1>11, <2>1 DEF Moving
<1>13. hashtable_do_rehash(table) = moved[Passes].table
  BY <1>2, <1>10
<1> QED
  BY <1>1, <1>12, <1>13

(* After j entries have moved: they are linked in an order r of their own,  *)
(* every bucket a stretch of it, and the others are as they were.           *)
Stage(table, s, n, m, j) ==
  /\ Regrown(table, m.table)
  /\ m.at = At(s, n, j + 1)
  /\ \E r : /\ Linked(m.table.list, r, j)
            /\ Filed(m.table, r, j)
            /\ \A k : Holds(r, j, k) <=> Holds(s, j, k)
  /\ \A k \in Keys : ~ Holds(s, j, k) =>
       /\ m.table.list.next[k] = table.list.next[k]
       /\ m.table.list.prev[k] = table.list.prev[k]

LEMMA FirstStage ==
  ASSUME HashtableAssumption, HashesOK, NEW table, Shape(table),
         NEW s, NEW n, Linked(table.list, s, n),
         NEW head, Headed(table, head),
         NEW m, m = [table |-> head, at |-> table.list.next[HEAD]]
  PROVE  Stage(table, s, n, m, 0)
<1>0. /\ Order(s, n) /\ n \in Nat /\ m.table = head
      /\ m.at = table.list.next[HEAD]
  BY DEF Linked, Order
<1>1. m.at = At(s, n, 0 + 1)
  <2>1. table.list.next[At(s, n, 0)] = At(s, n, 0 + 1) /\ At(s, n, 0) = HEAD
    BY <1>0, PlacesDiffer DEF Linked
  <2> QED
    BY <1>0, <2>1
<1>2. /\ Regrown(table, head)
      /\ head.buckets = NoBuckets(head.order)
      /\ head.list.next[HEAD] = HEAD /\ head.list.prev[HEAD] = HEAD
      /\ \A k \in Keys : /\ head.list.next[k] = table.list.next[k]
                         /\ head.list.prev[k] = table.list.prev[k]
  BY HeadFields
<1>3. PICK r : r = [i \in 1 .. 0 |-> HEAD]
  OBVIOUS
<1>4. Linked(head.list, r, 0)
  <2>1. Order(r, 0)
    BY <1>3 DEF Order
  <2>2. head.list \in Rings
    BY <1>2 DEF Regrown, Shape, Tables
  <2>3. \A i \in 0 .. 0 : At(r, 0, i) = HEAD /\ At(r, 0, i + 1) = HEAD
    BY DEF At
  <2> QED
    BY <1>2, <2>1, <2>2, <2>3 DEF Linked
<1>5. Filed(head, r, 0)
  BY <1>2 DEF Filed, NoStretch, NoBuckets
<1>6. \A k : ~ Holds(r, 0, k) /\ ~ Holds(s, 0, k)
  BY DEF Holds
<1> QED
  BY <1>0, <1>1, <1>2, <1>4, <1>5, <1>6 DEF Stage

LEMMA NextStage ==
  ASSUME HashtableAssumption, HashesOK, NEW table, Shape(table),
         NEW s, NEW n, Linked(table.list, s, n),
         NEW m, NEW j \in Nat, j < n, Stage(table, s, n, m, j)
  PROVE  Stage(table, s, n, MoveNext(m), j + 1)
<1>0. /\ Order(s, n) /\ n \in Nat /\ s \in [1 .. n -> Keys] /\ j + 1 \in 1 .. n
      /\ HEAD \notin Keys /\ j + 1 \in Nat
  BY DEF Linked, Order, HashtableAssumption
<1>1. PICK k \in Keys : k = s[j + 1]
  BY <1>0
<1>2. m.at = k /\ k # HEAD
  BY <1>0, <1>1 DEF Stage, At
<1>3. ~ Holds(s, j, k) /\ \A l : Holds(s, j + 1, l) <=> l = k \/ Holds(s, j, l)
  <2>1. \A i \in 1 .. j : i \in 1 .. n /\ i # j + 1 /\ i \in 1 .. j + 1
    BY <1>0
  <2>2. ~ Holds(s, j, k)
    BY <1>0, <1>1, <2>1 DEF Order, Holds
  <2>3. \A i \in 1 .. j + 1 : i = j + 1 \/ i \in 1 .. j
    BY <1>0
  <2> QED
    BY <1>0, <1>1, <2>1, <2>2, <2>3 DEF Holds
<1>4. PICK r : /\ Linked(m.table.list, r, j)
               /\ Filed(m.table, r, j)
               /\ \A l : Holds(r, j, l) <=> Holds(s, j, l)
  BY DEF Stage
<1>5. PICK new : new = insert_to_bucket(m.table, k)
  OBVIOUS
<1>6. PICK next : next = MoveNext(m)
  OBVIOUS
<1>7. next.table = new /\ next.at = m.table.list.next[k]
  BY <1>2, <1>5, <1>6 DEF MoveNext
<1>8. Shape(m.table) /\ Regrown(table, m.table)
  BY DEF Stage, Regrown
<1>9. Regrown(table, new)
  BY <1>5, <1>8, InsertFields DEF Regrown
<1>10. next.at = At(s, n, (j + 1) + 1)
  <2>1. table.list.next[At(s, n, j + 1)] = At(s, n, (j + 1) + 1)
    BY <1>0 DEF Linked
  <2>2. At(s, n, j + 1) = k
    BY <1>0, <1>1 DEF At
  <2> QED
    BY <1>3, <1>7, <2>1, <2>2 DEF Stage
<1>11. Order(r, j) /\ ~ Holds(r, j, k)
  BY <1>3, <1>4 DEF Linked
<1>12. PICK p \in 1 .. j + 1 :
         /\ new.list = list_insert(m.table.list, At(r, j, p), k)
         /\ Filed(new, With(r, j, p, k), j + 1)
  BY <1>4, <1>5, <1>8, <1>11, InsertFiles
<1>13. PICK w : w = With(r, j, p, k)
  OBVIOUS
<1>14. /\ Linked(new.list, w, j + 1)
       /\ \A l \in Keys :
            ~ Holds(w, j + 1, l) =>
              /\ new.list.next[l] = m.table.list.next[l]
              /\ new.list.prev[l] = m.table.list.prev[l]
  BY <1>4, <1>11, <1>12, <1>13, InsertLinks
<1>15. \A l : Holds(w, j + 1, l) <=> Holds(s, j + 1, l)
  <2>1. \A l : Holds(w, j + 1, l) <=> l = k \/ Holds(r, j, l)
    BY <1>11, <1>13, OrderWith
  <2> QED
    BY <1>3, <1>4, <2>1
<1>16. \A l \in Keys : ~ Holds(s, j + 1, l) =>
         /\ new.list.next[l] = table.list.next[l]
         /\ new.list.prev[l] = table.list.prev[l]
  BY <1>3, <1>14, <1>15 DEF Stage
<1>17. Filed(new, w, j + 1)
  BY <1>12, <1>13
<1> QED
  BY <1>6, <1>7, <1>9, <1>10, <1>14, <1>15, <1>16, <1>17 DEF Stage

(* hashtable_do_rehash files the same entries in twice the buckets, and     *)
(* changes nothing else.                                                    *)
LEMMA RehashFiles ==
  ASSUME HashtableAssumption, HashesOK, NEW table, Shape(table),
         NEW s, NEW n, Linked(table.list, s, n), Loose(table.list, s, n)
  PROVE  /\ Regrown(table, hashtable_do_rehash(table))
         /\ \E r : /\ Linked(hashtable_do_rehash(table).list, r, n)
                   /\ Loose(hashtable_do_rehash(table).list, r, n)
                   /\ Filed(hashtable_do_rehash(table), r, n)
                   /\ \A k : Holds(r, n, k) <=> Holds(s, n, k)
<1>0. Order(s, n) /\ n \in Nat
  BY DEF Linked, Order
<1>1. PICK head, moved :
        /\ Headed(table, head)
        /\ moved[0] = [table |-> head, at |-> table.list.next[HEAD]]
        /\ \A j \in Nat : moved[j + 1] = MoveNext(moved[j])
        /\ hashtable_do_rehash(table) = moved[Passes].table
  BY RehashMoves
<1> DEFINE T == {j \in Nat : j <= n => Stage(table, s, n, moved[j], j)}
           U == {j \in Nat : moved[n + j] = moved[n]}
<1>2. 0 \in T
  BY <1>1, FirstStage
<1>3. ASSUME NEW j \in Nat, j \in T
      PROVE  j + 1 \in T
  <2> SUFFICES ASSUME j + 1 <= n
               PROVE  Stage(table, s, n, moved[j + 1], j + 1)
    OBVIOUS
  <2>1. j < n /\ j <= n
    BY <1>0
  <2>2. Stage(table, s, n, moved[j], j)
    BY <1>3, <2>1
  <2>3. Stage(table, s, n, MoveNext(moved[j]), j + 1)
    BY <2>1, <2>2, NextStage
  <2> QED
    BY <1>1, <2>3
<1>4. Stage(table, s, n, moved[n], n)
  <2> HIDE DEF T
  <2>1. n \in T
    BY <1>0, <1>2, <1>3, AllNumbers
  <2> QED
    BY <1>0, <2>1 DEF T
<1>5. moved[n].at = HEAD
  BY <1>0, <1>4 DEF Stage, At
<1>6. 0 \in U
  BY <1>0
<1>7. ASSUME NEW j \in Nat, j \in U
      PROVE  j + 1 \in U
  <2>1. n + j \in Nat /\ (n + j) + 1 = n + (j + 1)
    BY <1>0
  <2>2. moved[(n + j) + 1] = MoveNext(moved[n + j])
    BY <1>1, <2>1
  <2>3. MoveNext(moved[n]) = moved[n]
    BY <1>5 DEF MoveNext
  <2> QED
    BY <1>7, <2>1, <2>2, <2>3
<1>8. moved[Passes] = moved[n]
  <2>1. Passes - n \in Nat /\ n + (Passes - n) = Passes
    BY <1>0, OrderFits
  <2> HIDE DEF U
  <2>2. Passes - n \in U
    BY <1>6, <1>7, <2>1, AllNumbers
  <2> QED
    BY <2>1, <2>2 DEF U
<1>9. PICK new : new = hashtable_do_rehash(table)
  OBVIOUS
<1>10. new = moved[n].table
  BY <1>1, <1>8, <1>9
<1>11. PICK r : /\ Linked(new.list, r, n)
                /\ Filed(new, r, n)
                /\ \A k : Holds(r, n, k) <=> Holds(s, n, k)
  BY <1>4, <1>10 DEF Stage
<1>12. Loose(new.list, r, n)
  BY <1>4, <1>10, <1>11 DEF Stage, Loose
<1>13. Regrown(table, new)
  BY <1>4, <1>10 DEF Stage
<1> QED
  BY <1>9, <1>11, <1>12, <1>13

-----------------------------------------------------------------------------
(* Every entry that has a value, and no other, is in the ring and filed in  *)
(* its bucket.                                                              *)
Bucketed(table) ==
  \E s : /\ Linked(table.list, s, table.size)
         /\ Loose(table.list, s, table.size)
         /\ Filed(table, s, table.size)
         /\ \A k \in Keys : Holds(s, table.size, k) <=> table.value[k] # NULL

(* It is in the ring of the insertions too, in the order o.                 *)
Ordered(table, o) ==
  /\ Linked(table.ordered_list, o, table.size)
  /\ Loose(table.ordered_list, o, table.size)
  /\ \A k \in Keys : Holds(o, table.size, k) <=> table.value[k] # NULL

Fits(table) == table.size <= hashsize[table.order]

LEMMA FiledAlike ==
  ASSUME NEW table, NEW new, new.buckets = table.buckets, new.order = table.order,
         NEW s, NEW n, Filed(table, s, n)
  PROVE  Filed(new, s, n)
<1>1. \A l : BucketOf(new, l) = BucketOf(table, l)
  BY DEF BucketOf
<1> QED
  BY <1>1 DEF Filed, NoStretch, Stretch

(* A new table.                                                             *)
LEMMA NewTableWorks ==
  ASSUME HashtableAssumption, HashesOK, NEW order \in Nat
  PROVE  /\ Shape(NewTable(order)) /\ Bucketed(NewTable(order))
         /\ Fits(NewTable(order))
         /\ NewTable(order).size = 0
         /\ NewTable(order).value = [k \in Keys |-> NULL]
         /\ \E o : Ordered(NewTable(order), o)
<1>0. PICK new : new = NewTable(order)
  OBVIOUS
<1>1. /\ new.size = 0 /\ new.order = order /\ new.buckets = NoBuckets(order)
      /\ new.list = EmptyRing /\ new.ordered_list = EmptyRing
      /\ new.value = [k \in Keys |-> NULL]
  BY <1>0 DEF NewTable
<1>2. EmptyRing \in Rings
  BY DEF EmptyRing, Rings
<1>3. Shape(new)
  <2>1. NoBuckets(order) \in [Buckets(order) -> [first : ListNodes, last : ListNodes]]
    BY DEF NoBuckets, ListNodes
  <2>2. [k \in Keys |-> NULL] \in [Keys -> Values \cup {NULL}]
    OBVIOUS
  <2>3. new = [size |-> 0, order |-> order, buckets |-> NoBuckets(order),
               list |-> EmptyRing, ordered_list |-> EmptyRing,
               value |-> [k \in Keys |-> NULL]]
    BY <1>0 DEF NewTable
  <2> QED
    BY <1>1, <1>2, <2>1, <2>2, <2>3 DEF Shape, Tables
<1>4. PICK none : none = [i \in 1 .. 0 |-> HEAD]
  OBVIOUS
<1>5. Linked(EmptyRing, none, 0) /\ Loose(EmptyRing, none, 0)
  <2>1. Order(none, 0)
    BY <1>4 DEF Order
  <2>2. \A i \in 0 .. 0 : At(none, 0, i) = HEAD /\ At(none, 0, i + 1) = HEAD
    BY DEF At
  <2>3. \A n \in ListNodes : EmptyRing.next[n] = n /\ EmptyRing.prev[n] = n
    BY DEF EmptyRing
  <2>4. HEAD \in ListNodes /\ Keys \subseteq ListNodes
    BY DEF ListNodes
  <2> QED
    BY <1>2, <2>1, <2>2, <2>3, <2>4 DEF Linked, Loose
<1>6. Filed(new, none, 0)
  BY <1>1 DEF Filed, NoStretch, NoBuckets
<1>7. \A k \in Keys : ~ Holds(none, 0, k) /\ new.value[k] = NULL
  BY <1>1 DEF Holds
<1>8. Bucketed(new) /\ Ordered(new, none)
  BY <1>1, <1>5, <1>6, <1>7 DEF Bucketed, Ordered
<1>9. Fits(new)
  BY <1>1, HashsizeDoubles DEF Fits
<1> QED
  BY <1>0, <1>1, <1>3, <1>8, <1>9

LEMMA FindsStored ==
  ASSUME HashtableAssumption, HashesOK, NEW table, Shape(table), Bucketed(table),
         NEW k \in Keys
  PROVE  /\ hashtable_find_pair(table, k) = IF table.value[k] # NULL THEN k ELSE NULL
         /\ Has(table, k) <=> table.value[k] # NULL
<1>1. PICK s : /\ Linked(table.list, s, table.size)
               /\ Filed(table, s, table.size)
               /\ Holds(s, table.size, k) <=> table.value[k] # NULL
  BY DEF Bucketed
<1>2. hashtable_find_pair(table, k) = IF Holds(s, table.size, k) THEN k ELSE NULL
  BY <1>1, FindsHeld
<1>3. k # NULL
  BY DEF HashtableAssumption
<1> QED
  BY <1>1, <1>2, <1>3 DEF Has

(* The table is rebuilt when it is full, which leaves room for one more.    *)
LEMMA RoomyWorks ==
  ASSUME HashtableAssumption, HashesOK, NEW table, Shape(table), Bucketed(table),
         Fits(table)
  PROVE  /\ Shape(Roomy(table)) /\ Bucketed(Roomy(table))
         /\ Roomy(table).size < hashsize[Roomy(table).order]
         /\ Roomy(table).size = table.size
         /\ Roomy(table).ordered_list = table.ordered_list
         /\ Roomy(table).value = table.value
<1>0. /\ table.order \in Nat /\ table.size \in Nat
      /\ hashsize[table.order] \in Nat \ {0}
      /\ hashsize[table.order + 1] = 2 * hashsize[table.order]
  BY HashsizeDoubles DEF Shape, Tables
<1>1. CASE ~ MustGrow(table)
  BY <1>0, <1>1 DEF Roomy, MustGrow
<1>2. CASE MustGrow(table)
  <2>1. PICK new : new = Roomy(table) /\ new = hashtable_do_rehash(table)
    BY <1>2 DEF Roomy
  <2>2. PICK s : /\ Linked(table.list, s, table.size)
                 /\ Loose(table.list, s, table.size)
                 /\ \A k \in Keys : Holds(s, table.size, k) <=> table.value[k] # NULL
    BY DEF Bucketed
  <2>3. /\ Regrown(table, new)
        /\ \E r : /\ Linked(new.list, r, table.size)
                  /\ Loose(new.list, r, table.size)
                  /\ Filed(new, r, table.size)
                  /\ \A k : Holds(r, table.size, k) <=> Holds(s, table.size, k)
    BY <2>1, <2>2, RehashFiles
  <2>4. /\ Shape(new) /\ new.order = table.order + 1 /\ new.size = table.size
        /\ new.ordered_list = table.ordered_list /\ new.value = table.value
    BY <2>3 DEF Regrown
  <2>5. Bucketed(new)
    BY <2>2, <2>3, <2>4 DEF Bucketed
  <2>6. new.size < hashsize[new.order]
    BY <1>0, <2>4 DEF Fits
  <2> QED
    BY <2>1, <2>4, <2>5, <2>6
<1> QED
  BY <1>1, <1>2

(* A new pair is the last in the order of the insertions.                   *)
LEMMA AddPairWorks ==
  ASSUME HashtableAssumption, HashesOK, NEW table, Shape(table), Bucketed(table),
         table.size < hashsize[table.order], NEW o, Ordered(table, o),
         NEW k \in Keys, table.value[k] = NULL, NEW v \in Values
  PROVE  /\ Shape(AddPair(table, k, v)) /\ Bucketed(AddPair(table, k, v))
         /\ Fits(AddPair(table, k, v))
         /\ AddPair(table, k, v).size = table.size + 1
         /\ AddPair(table, k, v).value = [table.value EXCEPT ![k] = v]
         /\ Ordered(AddPair(table, k, v), With(o, table.size, table.size + 1, k))
<1> DEFINE n == table.size
<1>0. n \in Nat /\ n + 1 \in Nat /\ n + 1 \in 1 .. n + 1
  BY DEF Shape, Tables
<1>1. PICK s : /\ Linked(table.list, s, n)
               /\ Loose(table.list, s, n)
               /\ Filed(table, s, n)
               /\ \A l \in Keys : Holds(s, n, l) <=> table.value[l] # NULL
  BY DEF Bucketed
<1>2. /\ Order(s, n) /\ Order(o, n) /\ ~ Holds(s, n, k) /\ ~ Holds(o, n, k)
      /\ v # NULL
  BY <1>1 DEF Linked, Ordered, HashtableAssumption
<1>3. PICK filed : filed = insert_to_bucket(table, k)
  OBVIOUS
<1>4. /\ Shape(filed) /\ filed.size = table.size /\ filed.order = table.order
      /\ filed.ordered_list = table.ordered_list /\ filed.value = table.value
  BY <1>3, InsertFields
<1>5. PICK p \in 1 .. n + 1 :
        /\ filed.list = list_insert(table.list, At(s, n, p), k)
        /\ Filed(filed, With(s, n, p, k), n + 1)
  BY <1>1, <1>2, <1>3, InsertFiles
<1>6. PICK w : w = With(s, n, p, k)
  OBVIOUS
<1>7. Linked(filed.list, w, n + 1) /\ Loose(filed.list, w, n + 1)
  BY <1>1, <1>2, <1>5, <1>6, InsertLinks
<1>8. \A l : Holds(w, n + 1, l) <=> l = k \/ Holds(s, n, l)
  BY <1>2, <1>6, OrderWith
<1>9. PICK ring : ring = list_insert(table.ordered_list, HEAD, k)
  OBVIOUS
<1>10. PICK x : x = With(o, n, n + 1, k)
  OBVIOUS
<1>11. Linked(ring, x, n + 1) /\ Loose(ring, x, n + 1)
  <2>1. At(o, n, n + 1) = HEAD
    BY <1>0 DEF At
  <2>2. Linked(table.ordered_list, o, n) /\ Loose(table.ordered_list, o, n)
    BY DEF Ordered
  <2> QED
    BY <1>0, <1>2, <1>9, <1>10, <2>1, <2>2, InsertLinks
<1>12. \A l : Holds(x, n + 1, l) <=> l = k \/ Holds(o, n, l)
  BY <1>0, <1>2, <1>10, OrderWith
<1>13. PICK new : new = AddPair(table, k, v)
  OBVIOUS
<1>14. new = [filed EXCEPT !.ordered_list = ring, !.value[k] = v, !.size = n + 1]
  BY <1>3, <1>4, <1>9, <1>13 DEF AddPair, Shape, Tables
<1>15. /\ new.size = n + 1 /\ new.order = table.order /\ new.list = filed.list
       /\ new.buckets = filed.buckets /\ new.ordered_list = ring
       /\ new.value = [table.value EXCEPT ![k] = v]
  BY <1>4, <1>14 DEF Shape, Tables
<1>16. Shape(new)
  <2>1. ring \in Rings
    BY <1>11 DEF Linked
  <2> QED
    BY <1>0, <1>4, <1>14, <1>15, <2>1 DEF Shape, Tables
<1>17. \A l \in Keys : new.value[l] # NULL <=> l = k \/ table.value[l] # NULL
  BY <1>2, <1>15 DEF Shape, Tables
<1>18. Bucketed(new)
  <2>1. Filed(new, w, n + 1)
    BY <1>4, <1>5, <1>6, <1>15, FiledAlike
  <2>2. \A l \in Keys : Holds(w, n + 1, l) <=> new.value[l] # NULL
    BY <1>1, <1>8, <1>17
  <2> QED
    BY <1>7, <1>15, <2>1, <2>2 DEF Bucketed
<1>19. Ordered(new, x)
  <2>1. \A l \in Keys : Holds(x, n + 1, l) <=> new.value[l] # NULL
    BY <1>12, <1>17 DEF Ordered
  <2> QED
    BY <1>11, <1>15, <2>1 DEF Ordered
<1>20. Fits(new)
  <2>1. hashsize[table.order] \in Nat
    BY HashsizeDoubles DEF Shape, Tables
  <2> QED
    BY <1>0, <1>15, <2>1 DEF Fits
<1> QED
  BY <1>10, <1>13, <1>15, <1>16, <1>18, <1>19, <1>20

(* Another value for a key that is there.                                   *)
SetValue(table, k, v) == [table EXCEPT !.value[k] = v]

LEMMA SetValueWorks ==
  ASSUME HashtableAssumption, HashesOK, NEW table, Shape(table), Bucketed(table),
         NEW o, Ordered(table, o),
         NEW k \in Keys, table.value[k] # NULL, NEW v \in Values
  PROVE  /\ Shape(SetValue(table, k, v)) /\ Bucketed(SetValue(table, k, v))
         /\ SetValue(table, k, v).size = table.size
         /\ SetValue(table, k, v).order = table.order
         /\ SetValue(table, k, v).value = [table.value EXCEPT ![k] = v]
         /\ Ordered(SetValue(table, k, v), o)
<1>0. PICK new : new = SetValue(table, k, v)
  OBVIOUS
<1>1. /\ new.size = table.size /\ new.order = table.order
      /\ new.list = table.list /\ new.buckets = table.buckets
      /\ new.ordered_list = table.ordered_list
      /\ new.value = [table.value EXCEPT ![k] = v]
  BY <1>0 DEF SetValue, Shape, Tables
<1>2. Shape(new)
  BY <1>0, <1>1 DEF SetValue, Shape, Tables
<1>3. \A l \in Keys : new.value[l] # NULL <=> table.value[l] # NULL
  BY <1>1 DEF Shape, Tables, HashtableAssumption
<1>4. Bucketed(new)
  <2>1. PICK s : /\ Linked(table.list, s, table.size)
                 /\ Loose(table.list, s, table.size)
                 /\ Filed(table, s, table.size)
                 /\ \A l \in Keys :
                      Holds(s, table.size, l) <=> table.value[l] # NULL
    BY DEF Bucketed
  <2>2. Filed(new, s, table.size)
    BY <1>1, <2>1, FiledAlike
  <2> QED
    BY <1>1, <1>3, <2>1, <2>2 DEF Bucketed
<1>5. Ordered(new, o)
  BY <1>1, <1>3 DEF Ordered
<1> QED
  BY <1>0, <1>1, <1>2, <1>4, <1>5

LEMMA DeleteWorks ==
  ASSUME HashtableAssumption, HashesOK, NEW table, Shape(table), Bucketed(table),
         Fits(table), NEW o, Ordered(table, o), NEW p \in 1 .. table.size
  PROVE  /\ Shape(hashtable_do_del(table, o[p]))
         /\ Bucketed(hashtable_do_del(table, o[p]))
         /\ Fits(hashtable_do_del(table, o[p]))
         /\ hashtable_do_del(table, o[p]).size = table.size - 1
         /\ hashtable_do_del(table, o[p]).value = [table.value EXCEPT ![o[p]] = NULL]
         /\ Ordered(hashtable_do_del(table, o[p]), Less(o, table.size, p))
<1> DEFINE n == table.size
<1>0. n \in Nat /\ n # 0 /\ n - 1 \in Nat
  BY DEF Shape, Tables
<1>1. PICK s : /\ Linked(table.list, s, n)
               /\ Loose(table.list, s, n)
               /\ Filed(table, s, n)
               /\ \A l \in Keys : Holds(s, n, l) <=> table.value[l] # NULL
  BY DEF Bucketed
<1>2. /\ Order(s, n) /\ Order(o, n) /\ Linked(table.ordered_list, o, n)
      /\ Loose(table.ordered_list, o, n)
      /\ \A l \in Keys : Holds(o, n, l) <=> table.value[l] # NULL
  BY <1>1 DEF Linked, Ordered
<1>3. PICK k \in Keys : k = o[p]
  BY <1>2 DEF Order
<1>4. PICK q \in 1 .. n : s[q] = k
  BY <1>1, <1>2, <1>3 DEF Holds
<1>5. PICK new : new = hashtable_do_del(table, k)
  OBVIOUS
<1>6. /\ Shape(new) /\ new.size = n - 1 /\ new.order = table.order
      /\ new.list = list_remove(table.list, k)
      /\ new.ordered_list = list_remove(table.ordered_list, k)
      /\ new.value = [table.value EXCEPT ![k] = NULL]
  BY <1>0, <1>5, DeleteFields
<1>7. PICK w : w = Less(s, n, q)
  OBVIOUS
<1>8. PICK x : x = Less(o, n, p)
  OBVIOUS
<1>9. Linked(new.list, w, n - 1) /\ Loose(new.list, w, n - 1)
  BY <1>1, <1>4, <1>6, <1>7, RemoveLinks
<1>10. Linked(new.ordered_list, x, n - 1) /\ Loose(new.ordered_list, x, n - 1)
  BY <1>2, <1>3, <1>6, <1>8, RemoveLinks
<1>11. Filed(new, w, n - 1)
  BY <1>0, <1>1, <1>4, <1>5, <1>7, DeleteFiles
<1>12. /\ \A l : Holds(w, n - 1, l) <=> l # k /\ Holds(s, n, l)
       /\ \A l : Holds(x, n - 1, l) <=> l # k /\ Holds(o, n, l)
  BY <1>2, <1>3, <1>4, <1>7, <1>8, OrderLess
<1>13. \A l \in Keys : new.value[l] # NULL <=> l # k /\ table.value[l] # NULL
  BY <1>6 DEF Shape, Tables
<1>14. Bucketed(new) /\ Ordered(new, x)
  BY <1>1, <1>2, <1>6, <1>9, <1>10, <1>11, <1>12, <1>13 DEF Bucketed, Ordered
<1>15. Fits(new)
  <2>1. hashsize[table.order] \in Nat
    BY HashsizeDoubles DEF Shape, Tables
  <2> QED
    BY <1>0, <1>6, <2>1 DEF Fits
<1> QED
  BY <1>3, <1>5, <1>6, <1>8, <1>14, <1>15

-----------------------------------------------------------------------------
(* Of the entries that were there all the time, an iteration has visited    *)
(* those up to the one it stands at.                                        *)
Visited(o) ==
  \A i, q \in 1 .. t.size :
    iter = o[i] /\ o[q] \in lasting => (o[q] \in seen <=> q <= i)

TableInv ==
  /\ HashesOK
  /\ Shape(t) /\ Bucketed(t) /\ Fits(t)
  /\ iter \in ListNodes
  /\ iter # HEAD => t.value[iter] # NULL
  /\ seen \subseteq Keys
  /\ lasting \subseteq Keys /\ \A k \in lasting : t.value[k] # NULL
  /\ iter = HEAD => seen = {} /\ lasting = {}
  /\ \E o : Ordered(t, o) /\ Visited(o)

(* The hashes do not change.                                                *)
LEMMA InvariantAgain ==
  ASSUME TableInv, hash' = hash, NEW new, new = t',
         Shape(new), Bucketed(new), Fits(new),
         iter' \in ListNodes, iter' # HEAD => new.value[iter'] # NULL,
         seen' \subseteq Keys,
         lasting' \subseteq Keys, \A k \in lasting' : new.value[k] # NULL,
         iter' = HEAD => seen' = {} /\ lasting' = {},
         NEW o, Ordered(new, o),
         \A i, q \in 1 .. new.size :
           iter' = o[i] /\ o[q] \in lasting' => (o[q] \in seen' <=> q <= i)
  PROVE  TableInv'
<1>1. HashesOK'
  BY DEF TableInv, HashesOK
<1>2. Shape(t)' /\ Fits(t)'
  BY DEF Shape, Fits, Tables
<1>3. Bucketed(t)'
  BY DEF Bucketed, Filed, NoStretch, Stretch, BucketOf
<1>4. Ordered(t, o)'
  BY DEF Ordered
<1>5. Visited(o)'
  BY DEF Visited
<1> QED
  BY <1>1, <1>2, <1>3, <1>4, <1>5 DEF TableInv

(* What a table is that the invariant holds of.                             *)
Works(table) == Shape(table) /\ Bucketed(table) /\ Fits(table)

LEMMA SetEffect ==
  ASSUME HashtableAssumption, HashesOK, Works(t), NEW o, Ordered(t, o),
         NEW k \in Keys, NEW v \in Values, hashtable_set(k, v), NEW new, new = t'
  PROVE  /\ Works(new)
         /\ new.value = [t.value EXCEPT ![k] = v]
         /\ t.value[k] # NULL => new.size = t.size /\ Ordered(new, o)
         /\ t.value[k] = NULL =>
              /\ new.size = t.size + 1
              /\ Ordered(new, With(o, t.size, t.size + 1, k))
<1>1. PICK table : table = Roomy(t)
  OBVIOUS
<1>2. /\ Shape(table) /\ Bucketed(table) /\ table.size < hashsize[table.order]
      /\ table.size = t.size /\ table.ordered_list = t.ordered_list
      /\ table.value = t.value
  BY <1>1, RoomyWorks DEF Works
<1>3. Ordered(table, o)
  BY <1>2 DEF Ordered
<1>4. new = IF Has(table, k) THEN [table EXCEPT !.value[k] = v]
                             ELSE AddPair(table, k, v)
  BY <1>1 DEF hashtable_set
<1>5. Has(table, k) <=> t.value[k] # NULL
  BY <1>2, FindsStored
<1>6. CASE t.value[k] # NULL
  <2>1. new = SetValue(table, k, v)
    BY <1>4, <1>5, <1>6 DEF SetValue
  <2>2. /\ Shape(new) /\ Bucketed(new) /\ new.size = table.size
        /\ new.order = table.order /\ new.value = [table.value EXCEPT ![k] = v]
        /\ Ordered(new, o)
    BY <1>2, <1>3, <1>6, <2>1, SetValueWorks
  <2>3. Fits(new)
    <3>1. table.size \in Nat /\ hashsize[table.order] \in Nat
      BY <1>2, HashsizeDoubles DEF Shape, Tables
    <3> QED
      BY <1>2, <2>2, <3>1 DEF Fits
  <2> QED
    BY <1>2, <1>6, <2>2, <2>3 DEF Works
<1>7. CASE t.value[k] = NULL
  <2>1. new = AddPair(table, k, v)
    BY <1>4, <1>5, <1>7
  <2>2. /\ Shape(new) /\ Bucketed(new) /\ Fits(new)
        /\ new.size = table.size + 1
        /\ new.value = [table.value EXCEPT ![k] = v]
        /\ Ordered(new, With(o, table.size, table.size + 1, k))
    BY <1>2, <1>3, <1>7, <2>1, AddPairWorks
  <2> QED
    BY <1>2, <1>7, <2>2 DEF Works
<1> QED
  BY <1>6, <1>7

LEMMA FailureEffect ==
  ASSUME HashtableAssumption, HashesOK, Works(t), NEW o, Ordered(t, o),
         NEW k \in Keys, hashtable_set_fails(k), NEW new, new = t'
  PROVE  /\ Works(new)
         /\ new.value = t.value /\ new.size = t.size /\ Ordered(new, o)
<1>1. CASE new = t
  BY <1>1
<1>2. CASE new = Roomy(t)
  <2>1. /\ Shape(new) /\ Bucketed(new) /\ new.size < hashsize[new.order]
        /\ new.size = t.size /\ new.ordered_list = t.ordered_list
        /\ new.value = t.value
    BY <1>2, RoomyWorks DEF Works
  <2>2. new.size \in Nat /\ hashsize[new.order] \in Nat
    BY <2>1, HashsizeDoubles DEF Shape, Tables
  <2>3. Fits(new)
    BY <2>1, <2>2 DEF Fits
  <2> QED
    BY <2>1, <2>3 DEF Works, Ordered
<1> QED
  BY <1>1, <1>2 DEF hashtable_set_fails

LEMMA DeleteEffect ==
  ASSUME HashtableAssumption, HashesOK, Works(t), NEW o, Ordered(t, o),
         NEW k \in Keys, hashtable_del(k), NEW new, new = t'
  PROVE  /\ Works(new)
         /\ new.value = [t.value EXCEPT ![k] = NULL]
         /\ new.size = t.size - 1
         /\ \E p \in 1 .. t.size :
              o[p] = k /\ Ordered(new, Less(o, t.size, p))
<1>1. t.value[k] # NULL
  BY FindsStored DEF Works, hashtable_del
<1>2. PICK p \in 1 .. t.size : o[p] = k
  BY <1>1 DEF Ordered, Holds
<1>3. new = hashtable_do_del(t, o[p])
  BY <1>2 DEF hashtable_del
<1> QED
  BY <1>2, <1>3, DeleteWorks DEF Works

LEMMA ClearEffect ==
  ASSUME HashtableAssumption, HashesOK, Works(t),
         hashtable_clear \/ hashtable_close, NEW new, new = t'
  PROVE  /\ Works(new)
         /\ new.value = [k \in Keys |-> NULL]
         /\ new.size = 0
         /\ \E o : Ordered(new, o)
<1>1. PICK order \in Nat : new = NewTable(order)
  BY DEF hashtable_clear, hashtable_close, Works, Shape, Tables, HashtableAssumption
<1> QED
  BY <1>1, NewTableWorks DEF Works

LEMMA SetOfEntryEffect ==
  ASSUME HashtableAssumption, HashesOK, Works(t), NEW o, Ordered(t, o),
         iter \in Keys, t.value[iter] # NULL,
         NEW v \in Values, hashtable_iter_set(v), NEW new, new = t'
  PROVE  /\ Works(new)
         /\ new.value = [t.value EXCEPT ![iter] = v]
         /\ new.size = t.size /\ Ordered(new, o)
<1>1. new = SetValue(t, iter, v)
  BY DEF hashtable_iter_set, SetValue
<1>2. /\ Shape(new) /\ Bucketed(new) /\ new.size = t.size
      /\ new.order = t.order /\ new.value = [t.value EXCEPT ![iter] = v]
      /\ Ordered(new, o)
  BY <1>1, SetValueWorks DEF Works
<1> QED
  BY <1>2 DEF Works, Fits

-----------------------------------------------------------------------------
LEMMA TableBegins ==
  ASSUME HashtableAssumption, TableInit
  PROVE  TableInv
<1>1. HashesOK
  BY DEF TableInit, HashesOK, HashtableAssumption
<1>2. PICK new : new = NewTable(INITIAL_HASHTABLE_ORDER)
  OBVIOUS
<1>3. t = new /\ iter = HEAD /\ seen = {} /\ lasting = {}
  BY <1>2 DEF TableInit
<1>4. /\ Shape(new) /\ Bucketed(new) /\ Fits(new) /\ new.size = 0
      /\ \E o : Ordered(new, o)
  BY <1>1, <1>2, NewTableWorks DEF HashtableAssumption
<1> QED
  BY <1>1, <1>3, <1>4 DEF TableInv, Visited, ListNodes

LEMMA SetKeeps ==
  ASSUME HashtableAssumption, TableInv,
         NEW k \in Keys, NEW v \in Values, hashtable_set(k, v)
  PROVE  TableInv'
<1>1. PICK o : Ordered(t, o) /\ Visited(o)
  BY DEF TableInv
<1>2. PICK new : new = t'
  OBVIOUS
<1>3. HashesOK /\ Works(t) /\ t.size \in Nat /\ t.value \in [Keys -> Values \cup {NULL}]
  BY DEF TableInv, Works, Shape, Tables
<1>4. UNCHANGED <<hash, iter, seen, lasting>>
  BY DEF hashtable_set
<1>5. /\ Works(new)
      /\ new.value = [t.value EXCEPT ![k] = v]
      /\ t.value[k] # NULL => new.size = t.size /\ Ordered(new, o)
      /\ t.value[k] = NULL =>
           /\ new.size = t.size + 1
           /\ Ordered(new, With(o, t.size, t.size + 1, k))
  BY <1>1, <1>2, <1>3, SetEffect
<1>6. v # NULL /\ HEAD \notin Keys
  BY DEF HashtableAssumption
<1>7. /\ iter # HEAD => new.value[iter] # NULL
      /\ \A l \in lasting : new.value[l] # NULL
  BY <1>3, <1>5, <1>6 DEF TableInv, ListNodes
<1>8. CASE t.value[k] # NULL
  <2>1. \A i, q \in 1 .. new.size :
          iter' = o[i] /\ o[q] \in lasting' => (o[q] \in seen' <=> q <= i)
    BY <1>1, <1>4, <1>5, <1>8 DEF Visited
  <2> QED
    BY <1>2, <1>4, <1>5, <1>7, <1>8, <2>1, InvariantAgain DEF TableInv, Works
<1>9. CASE t.value[k] = NULL
  <2>1. PICK w : w = With(o, t.size, t.size + 1, k)
    OBVIOUS
  <2>2. \A i \in 1 .. t.size : w[i] = o[i]
    BY <1>3, <2>1 DEF With
  <2>3. w[t.size + 1] = k
    BY <1>3, <2>1 DEF With
  <2>4. k # iter /\ k \notin lasting
    BY <1>6, <1>9 DEF TableInv
  <2>5. \A i \in 1 .. t.size + 1 : i # t.size + 1 => i \in 1 .. t.size
    BY <1>3
  <2>6. \A i, q \in 1 .. new.size :
          iter' = w[i] /\ w[q] \in lasting' => (w[q] \in seen' <=> q <= i)
    BY <1>1, <1>4, <1>5, <1>9, <2>2, <2>3, <2>4, <2>5 DEF Visited
  <2> QED
    BY <1>2, <1>4, <1>5, <1>7, <1>9, <2>1, <2>6, InvariantAgain DEF TableInv, Works
<1> QED
  BY <1>8, <1>9

LEMMA FailureKeeps ==
  ASSUME HashtableAssumption, TableInv, NEW k \in Keys, hashtable_set_fails(k)
  PROVE  TableInv'
<1>1. PICK o : Ordered(t, o) /\ Visited(o)
  BY DEF TableInv
<1>2. PICK new : new = t'
  OBVIOUS
<1>3. HashesOK /\ Works(t)
  BY DEF TableInv, Works
<1>4. UNCHANGED <<hash, iter, seen, lasting>>
  BY DEF hashtable_set_fails
<1>5. Works(new) /\ new.value = t.value /\ new.size = t.size /\ Ordered(new, o)
  BY <1>1, <1>2, <1>3, FailureEffect
<1>6. \A i, q \in 1 .. new.size :
        iter' = o[i] /\ o[q] \in lasting' => (o[q] \in seen' <=> q <= i)
  BY <1>1, <1>4, <1>5 DEF Visited
<1> QED
  BY <1>2, <1>4, <1>5, <1>6, InvariantAgain DEF TableInv, Works

LEMMA DeleteKeeps ==
  ASSUME HashtableAssumption, TableInv, NEW k \in Keys, hashtable_del(k)
  PROVE  TableInv'
<1>1. PICK o : Ordered(t, o) /\ Visited(o)
  BY DEF TableInv
<1>2. PICK new : new = t'
  OBVIOUS
<1>3. HashesOK /\ Works(t) /\ t.size \in Nat /\ t.value \in [Keys -> Values \cup {NULL}]
  BY DEF TableInv, Works, Shape, Tables
<1>4. /\ UNCHANGED <<hash, iter, seen>> /\ lasting' = lasting \ {k} /\ iter # k
  BY DEF hashtable_del
<1>5. Works(new) /\ new.value = [t.value EXCEPT ![k] = NULL] /\ new.size = t.size - 1
  BY <1>1, <1>2, <1>3, DeleteEffect
<1>6. PICK p \in 1 .. t.size : o[p] = k /\ Ordered(new, Less(o, t.size, p))
  BY <1>1, <1>2, <1>3, DeleteEffect
<1>7. PICK w : w = Less(o, t.size, p)
  OBVIOUS
<1>8. \A i \in 1 .. t.size - 1 : w[i] = IF i < p THEN o[i] ELSE o[i + 1]
  BY <1>7 DEF Less
<1>9. ASSUME NEW i \in 1 .. new.size, NEW q \in 1 .. new.size,
             iter' = w[i], w[q] \in lasting'
      PROVE  w[q] \in seen' <=> q <= i
  <2>1. PICK x \in 1 .. t.size : w[i] = o[x] /\ x = IF i < p THEN i ELSE i + 1
    BY <1>3, <1>5, <1>8
  <2>2. PICK y \in 1 .. t.size : w[q] = o[y] /\ y = IF q < p THEN q ELSE q + 1
    BY <1>3, <1>5, <1>8
  <2>3. o[y] \in seen <=> y <= x
    BY <1>1, <1>4, <1>9, <2>1, <2>2 DEF Visited
  <2>4. y <= x <=> q <= i
    BY <1>3, <1>5, <2>1, <2>2
  <2> QED
    BY <1>4, <2>2, <2>3, <2>4
<1>10. /\ iter # HEAD => new.value[iter] # NULL
       /\ \A l \in lasting' : new.value[l] # NULL
  BY <1>3, <1>4, <1>5 DEF TableInv, ListNodes
<1> QED
  BY <1>2, <1>4, <1>5, <1>6, <1>7, <1>9, <1>10, InvariantAgain DEF TableInv, Works

LEMMA ClearKeeps ==
  ASSUME HashtableAssumption, TableInv, hashtable_clear \/ hashtable_close
  PROVE  TableInv'
<1>1. PICK new : new = t'
  OBVIOUS
<1>2. HashesOK /\ Works(t)
  BY DEF TableInv, Works
<1>3. UNCHANGED <<hash, iter, seen, lasting>> /\ iter = HEAD
  BY DEF hashtable_clear, hashtable_close
<1>4. Works(new) /\ new.size = 0
  BY <1>1, <1>2, ClearEffect
<1>5. PICK o : Ordered(new, o)
  BY <1>1, <1>2, ClearEffect
<1>6. lasting = {}
  BY <1>3 DEF TableInv
<1> QED
  BY <1>1, <1>3, <1>4, <1>5, <1>6, InvariantAgain DEF TableInv, Works

LEMMA SetOfEntryKeeps ==
  ASSUME HashtableAssumption, TableInv, NEW v \in Values, hashtable_iter_set(v)
  PROVE  TableInv'
<1>1. PICK o : Ordered(t, o) /\ Visited(o)
  BY DEF TableInv
<1>2. PICK new : new = t'
  OBVIOUS
<1>3. /\ HashesOK /\ Works(t) /\ t.value \in [Keys -> Values \cup {NULL}]
      /\ iter \in Keys /\ t.value[iter] # NULL
  BY DEF TableInv, Works, Shape, Tables, hashtable_iter_set, ListNodes
<1>4. UNCHANGED <<hash, iter, seen, lasting>>
  BY DEF hashtable_iter_set
<1>5. /\ Works(new) /\ new.value = [t.value EXCEPT ![iter] = v]
      /\ new.size = t.size /\ Ordered(new, o)
  BY <1>1, <1>2, <1>3, SetOfEntryEffect
<1>6. \A i, q \in 1 .. new.size :
        iter' = o[i] /\ o[q] \in lasting' => (o[q] \in seen' <=> q <= i)
  BY <1>1, <1>4, <1>5 DEF Visited
<1>7. /\ new.value[iter] # NULL
      /\ \A l \in lasting : new.value[l] # NULL
  BY <1>3, <1>5 DEF TableInv, HashtableAssumption
<1> QED
  BY <1>2, <1>4, <1>5, <1>6, <1>7, InvariantAgain DEF TableInv, Works

(* What the iteration comes to.                                             *)
LEMMA NextInOrder ==
  ASSUME NEW table, NEW o, Ordered(table, o), NEW i \in 0 .. table.size
  PROVE  table.ordered_list.next[At(o, table.size, i)] = At(o, table.size, i + 1)
  BY DEF Ordered, Linked

LEMMA IterationBegins ==
  ASSUME HashtableAssumption, TableInv, hashtable_iter
  PROVE  TableInv'
<1>1. PICK o : Ordered(t, o) /\ Visited(o)
  BY DEF TableInv
<1>2. PICK n \in Nat : n = t.size
  BY DEF TableInv, Shape, Tables
<1>3. /\ HashesOK /\ Works(t) /\ Order(o, n) /\ HEAD \notin Keys
      /\ Linked(t.ordered_list, o, n) /\ o \in [1 .. n -> Keys]
  BY <1>1, <1>2 DEF TableInv, Works, Ordered, Linked, Order, HashtableAssumption
<1>4. t.ordered_list.next[HEAD] = At(o, n, 1)
  <2>1. At(o, n, 0) = HEAD /\ 0 \in 0 .. n /\ 0 + 1 = 1
    BY <1>2 DEF At
  <2> QED
    BY <1>1, <1>2, <2>1, NextInOrder
<1>5. PICK there : there = Range(Walk(t.ordered_list))
  OBVIOUS
<1>6. there = {o[i] : i \in 1 .. n}
  <2>1. Walk(t.ordered_list) = o
    BY <1>3, WalkIsOrder
  <2> QED
    BY <1>3, <1>5, <2>1 DEF Range
<1>7. \A k \in there : k \in Keys /\ t.value[k] # NULL
  BY <1>1, <1>2, <1>3, <1>6 DEF Ordered, Holds
<1>8. /\ UNCHANGED <<hash, t>> /\ iter' = At(o, n, 1) /\ seen = {}
      /\ seen' = IF iter' = HEAD THEN {} ELSE seen \cup {iter'}
      /\ lasting' = IF iter' = HEAD THEN {} ELSE there
  BY <1>4, <1>5 DEF hashtable_iter, StandAt, TableInv
<1>9. CASE n = 0
  <2>1. iter' = HEAD
    BY <1>8, <1>9 DEF At
  <2>2. 1 .. t.size = {}
    BY <1>2, <1>9
  <2> QED
    BY <1>1, <1>3, <1>8, <2>1, <2>2, InvariantAgain DEF Works, ListNodes
<1>10. CASE n # 0
  <2>1. 1 \in 1 .. n
    BY <1>10
  <2>2. iter' = o[1] /\ o[1] \in Keys /\ o[1] # HEAD /\ o[1] \in there
    BY <1>3, <1>6, <1>8, <2>1 DEF At
  <2>3. seen' = {o[1]} /\ lasting' = there
    BY <1>8, <2>2
  <2>4. \A i, q \in 1 .. t.size :
          iter' = o[i] /\ o[q] \in lasting' => (o[q] \in seen' <=> q <= i)
    <3>1. \A i \in 1 .. n : o[i] = o[1] <=> i = 1
      BY <1>3, <2>1 DEF Order
    <3>2. \A q \in 1 .. n : q <= 1 <=> q = 1
      BY <1>2
    <3> QED
      BY <1>2, <2>2, <2>3, <3>1, <3>2
  <2> QED
    BY <1>1, <1>3, <1>7, <1>8, <2>2, <2>3, <2>4, InvariantAgain
       DEF Works, ListNodes
<1> QED
  BY <1>9, <1>10

(* The place of the entry an iteration stands at.                           *)
LEMMA IterStandsAt ==
  ASSUME HashtableAssumption, TableInv, iter # HEAD, NEW o, Ordered(t, o)
  PROVE  \E i \in 1 .. t.size :
           iter = o[i] /\ t.ordered_list.next[iter] = At(o, t.size, i + 1)
<1>1. iter \in Keys /\ t.value[iter] # NULL
  BY DEF TableInv, ListNodes
<1>2. PICK i \in 1 .. t.size : o[i] = iter
  BY <1>1 DEF Ordered, Holds
<1>3. i \in 0 .. t.size /\ At(o, t.size, i) = iter
  BY <1>2 DEF At, TableInv, Shape, Tables
<1> QED
  BY <1>2, <1>3, NextInOrder

LEMMA IterationGoesOn ==
  ASSUME HashtableAssumption, TableInv, hashtable_iter_next
  PROVE  TableInv'
<1>1. PICK o : Ordered(t, o) /\ Visited(o)
  BY DEF TableInv
<1>2. PICK n \in Nat : n = t.size
  BY DEF TableInv, Shape, Tables
<1>3. /\ HashesOK /\ Works(t) /\ Order(o, n) /\ HEAD \notin Keys
      /\ o \in [1 .. n -> Keys]
  BY <1>1, <1>2 DEF TableInv, Works, Ordered, Linked, Order, HashtableAssumption
<1>4. PICK i \in 1 .. n : iter = o[i] /\ t.ordered_list.next[iter] = At(o, n, i + 1)
  BY <1>1, <1>2, IterStandsAt DEF hashtable_iter_next
<1>5. /\ UNCHANGED <<hash, t>> /\ iter' = At(o, n, i + 1)
      /\ seen' = IF iter' = HEAD THEN {} ELSE seen \cup {iter'}
      /\ lasting' = IF iter' = HEAD THEN {} ELSE lasting
  BY <1>4 DEF hashtable_iter_next, StandAt
<1>6. CASE i = n
  <2>1. iter' = HEAD
    BY <1>5, <1>6 DEF At
  <2> QED
    BY <1>1, <1>3, <1>5, <2>1, InvariantAgain DEF Works, ListNodes
<1>7. CASE i # n
  <2>1. i + 1 \in 1 .. n
    BY <1>7
  <2>2. iter' = o[i + 1] /\ o[i + 1] \in Keys /\ o[i + 1] # HEAD
    BY <1>3, <1>5, <2>1 DEF At
  <2>3. seen' = seen \cup {o[i + 1]} /\ lasting' = lasting
    BY <1>5, <2>2
  <2>4. ASSUME NEW x \in 1 .. n, NEW q \in 1 .. n, iter' = o[x], o[q] \in lasting'
        PROVE  o[q] \in seen' <=> q <= x
    <3>1. x = i + 1
      BY <1>3, <2>1, <2>2, <2>4 DEF Order
    <3>2. o[q] \in seen <=> q <= i
      BY <1>1, <1>2, <1>4, <2>3, <2>4 DEF Visited
    <3>3. o[q] = o[i + 1] <=> q = i + 1
      BY <1>3, <2>1 DEF Order
    <3> QED
      BY <2>3, <3>1, <3>2, <3>3
  <2>5. t.value[o[i + 1]] # NULL
    BY <1>1, <1>2, <2>1, <2>2 DEF Ordered, Holds
  <2> QED
    BY <1>1, <1>2, <1>3, <1>5, <2>2, <2>3, <2>4, <2>5, InvariantAgain
       DEF Works, ListNodes, TableInv
<1> QED
  BY <1>6, <1>7

LEMMA TableSteps ==
  ASSUME HashtableAssumption, TableInv, [TableNext]_tableVars
  PROVE  TableInv'
<1>1. ASSUME NEW k \in Keys, NEW v \in Values, hashtable_set(k, v)
      PROVE  TableInv'
  BY <1>1, SetKeeps
<1>2. ASSUME NEW k \in Keys, hashtable_set_fails(k)
      PROVE  TableInv'
  BY <1>2, FailureKeeps
<1>3. ASSUME NEW k \in Keys, hashtable_del(k)
      PROVE  TableInv'
  BY <1>3, DeleteKeeps
<1>4. CASE hashtable_clear \/ hashtable_close
  BY <1>4, ClearKeeps
<1>5. CASE hashtable_iter
  BY <1>5, IterationBegins
<1>6. CASE hashtable_iter_next
  BY <1>6, IterationGoesOn
<1>7. ASSUME NEW v \in Values, hashtable_iter_set(v)
      PROVE  TableInv'
  BY <1>7, SetOfEntryKeeps
<1>8. CASE UNCHANGED tableVars
  <2>1. PICK o : Ordered(t, o) /\ Visited(o)
    BY DEF TableInv
  <2> QED
    BY <1>8, <2>1, InvariantAgain DEF tableVars, TableInv, Visited
<1> QED
  BY <1>1, <1>2, <1>3, <1>4, <1>5, <1>6, <1>7, <1>8 DEF TableNext

-----------------------------------------------------------------------------
LEMMA TableInvariant ==
  ASSUME HashtableAssumption
  PROVE  TableSpec => []TableInv
<1>1. TableInit => TableInv
  BY TableBegins
<1>2. TableInv /\ [TableNext]_tableVars => TableInv'
  BY TableSteps
<1> QED
  BY <1>1, <1>2, PTL DEF TableSpec

(* The fields of the table keep their types.                                *)
LEMMA TableTypes ==
  ASSUME HashtableAssumption, TableInv
  PROVE  TableTypeOK
  BY DEF TableInv, HashesOK, Shape, Tables, Rings, TableTypeOK

(* A ring is linked both ways, whatever it holds.                           *)
LEMMA BothWays ==
  ASSUME HashtableAssumption, NEW ring, NEW s, NEW n, Linked(ring, s, n),
         Loose(ring, s, n), NEW node \in ListNodes
  PROVE  ring.prev[ring.next[node]] = node
<1>1. \A i \in 0 .. n : ring.prev[ring.next[At(s, n, i)]] = At(s, n, i)
  BY DEF Linked
<1>2. n \in Nat
  BY DEF Linked, Order
<1>3. CASE node = HEAD
  <2>1. 0 \in 0 .. n /\ At(s, n, 0) = HEAD
    BY <1>2 DEF At
  <2> QED
    BY <1>1, <1>3, <2>1
<1>4. CASE node \in Keys /\ Holds(s, n, node)
  <2>1. PICK i \in 1 .. n : s[i] = node
    BY <1>4 DEF Holds
  <2>2. i \in 0 .. n /\ At(s, n, i) = node
    BY <2>1 DEF At
  <2> QED
    BY <1>1, <2>2
<1>5. CASE node \in Keys /\ ~ Holds(s, n, node)
  BY <1>5 DEF Loose
<1> QED
  BY <1>3, <1>4, <1>5 DEF ListNodes

(* The buckets are the stretches of the ring.                               *)
LEMMA BucketsAreStretches ==
  ASSUME HashtableAssumption, TableInv
  PROVE  BucketsPartition
<1>1. PICK s : /\ Linked(t.list, s, t.size)
               /\ Loose(t.list, s, t.size)
               /\ Filed(t, s, t.size)
               /\ \A k \in Keys : Holds(s, t.size, k) <=> t.value[k] # NULL
  BY DEF TableInv, Bucketed
<1>2. PICK n \in Nat : n = t.size
  BY DEF TableInv, Shape, Tables
<1>3. /\ Walk(t.list) = s /\ Order(s, n) /\ s \in [1 .. n -> Keys]
      /\ HEAD \notin Keys /\ DOMAIN s = 1 .. n
  BY <1>1, <1>2, WalkIsOrder DEF Linked, Order, HashtableAssumption
<1>4. \A k : k \in Stored <=> \E i \in 1 .. n : k = s[i]
  BY <1>1, <1>2, <1>3 DEF Stored, Holds
<1>5. Range(Walk(t.list)) = Stored
  BY <1>3, <1>4 DEF Range
<1>6. Len(Walk(t.list)) = t.size
  BY <1>2, <1>3
<1>7. t.size <= hashsize[t.order]
  BY DEF TableInv, Fits
<1>8. \A node \in ListNodes : t.list.prev[t.list.next[node]] = node
  BY <1>1, BothWays
<1>9. ASSUME NEW q \in 1 .. n
      PROVE  Position(s[q]) = q
  BY <1>3 DEF Position, Order
<1>10. ASSUME NEW i \in DOMAIN t.buckets
       PROVE  LET b    == t.buckets[i]
                  mine == {k \in Stored : BucketOf(t, k) = i}
              IN IF mine = {} THEN bucket_is_empty(b)
                 ELSE /\ {b.first, b.last} \subseteq mine
                      /\ {Position(k) : k \in mine}
                           = Position(b.first) .. Position(b.last)
  <2> DEFINE b    == t.buckets[i]
             mine == {k \in Stored : BucketOf(t, k) = i}
  <2>1. i \in Buckets(t.order)
    BY DEF TableInv, Shape, Tables
  <2>2. ASSUME NEW a \in 1 .. n, NEW c \in 1 .. n, Stretch(t, s, n, i, a, c)
        PROVE  /\ {b.first, b.last} \subseteq mine /\ mine # {}
               /\ {Position(k) : k \in mine} = Position(b.first) .. Position(b.last)
    <3>1. \A k : k \in mine <=> \E q \in 1 .. n : k = s[q] /\ a <= q /\ q <= c
      BY <1>4, <2>2 DEF Stretch
    <3>2. /\ b.first = s[a] /\ b.last = s[c] /\ a <= c
      BY <2>2 DEF Stretch
    <3>3. b.first \in mine /\ b.last \in mine
      BY <3>1, <3>2
    <3>4. Position(b.first) = a /\ Position(b.last) = c
      BY <1>9, <3>2
    <3> HIDE DEF mine, b
    <3>5. ASSUME NEW x \in {Position(k) : k \in mine}
          PROVE  x \in a .. c
      BY <1>9, <3>1
    <3>6. ASSUME NEW x \in a .. c
          PROVE  x \in {Position(k) : k \in mine}
      <4>1. x \in 1 .. n /\ a <= x /\ x <= c
        OBVIOUS
      <4>2. s[x] \in mine /\ Position(s[x]) = x
        BY <1>9, <3>1, <4>1
      <4> QED
        BY <4>2
    <3>7. {Position(k) : k \in mine} = a .. c
      BY <3>5, <3>6
    <3> QED
      BY <3>3, <3>4, <3>7
  <2> HIDE DEF mine, b
  <2>3. IF mine = {} THEN bucket_is_empty(b)
        ELSE /\ {b.first, b.last} \subseteq mine
             /\ {Position(k) : k \in mine} = Position(b.first) .. Position(b.last)
    <3>1. \/ NoStretch(t, s, n, i)
          \/ \E a, c \in 1 .. n : Stretch(t, s, n, i, a, c)
      BY <1>1, <1>2, <2>1 DEF Filed
    <3>2. CASE NoStretch(t, s, n, i)
      <4>1. mine = {}
        BY <1>4, <3>2 DEF NoStretch, mine
      <4>2. bucket_is_empty(b)
        BY <3>2 DEF NoStretch, bucket_is_empty, b
      <4> QED
        BY <4>1, <4>2
    <3>3. CASE \E a, c \in 1 .. n : Stretch(t, s, n, i, a, c)
      BY <2>2, <3>3
    <3> QED
      BY <3>1, <3>2, <3>3
  <2> QED
    BY <2>3 DEF mine, b
<1> QED
  BY <1>5, <1>6, <1>7, <1>8, <1>10 DEF BucketsPartition

(* And every key is found in its bucket.                                    *)
LEMMA KeysAreFound ==
  ASSUME HashtableAssumption, TableInv
  PROVE  FindsWhatIsStored
  BY FindsStored DEF TableInv, FindsWhatIsStored, Stored

-----------------------------------------------------------------------------
(* Whatever the libraries are called for, each of them runs as it would     *)
(* alone.                                                                   *)
LEMMA LibrariesRunAlone ==
  LibrariesSpec => Spec /\ TableSpec
<1>1. LibrariesInit => Init /\ TableInit
  BY DEF LibrariesInit
<1>2. [LibrariesNext]_librariesVars => [Next]_vars /\ [TableNext]_tableVars
  BY DEF LibrariesNext, librariesVars, UsesList, UsesTable, UsesClient
<1> QED
  BY <1>1, <1>2, PTL DEF LibrariesSpec, Spec, TableSpec

(* No call of the list or the table, however many came before and whichever *)
(* of them failed, leaves a node that is lost, linked one way only, in the  *)
(* wrong bucket or not found (LinkedList.c, hashtable.c).                   *)
THEOREM NodesStayLinked ==
  ASSUME ListAssumption, ~ HeadInserts, HashtableAssumption
  PROVE  LibrariesSpec => []NodesAreLinked
<1>1. TableInv => TableTypeOK /\ BucketsPartition /\ FindsWhatIsStored
  BY TableTypes, BucketsAreStretches, KeysAreFound
<1>2. TypeOK /\ WellLinked /\ TableInv => NodesAreLinked
  BY <1>1 DEF NodesAreLinked
<1> QED
  BY <1>2, ListTypes, ListWellLinked, TableInvariant, LibrariesRunAlone, PTL

(* An iteration visits every entry that is there from its beginning to its  *)
(* end, and none of them twice, whatever is stored, removed or rebuilt in   *)
(* between (hashtable_iter_next of hashtable.c).                            *)
THEOREM IterationVisitsAll ==
  ASSUME HashtableAssumption
  PROVE  TableSpec => IterationIsComplete
<1>1. ASSUME TableInv, [TableNext]_tableVars, iter # HEAD, iter' # iter
      PROVE  /\ iter' = HEAD => lasting \subseteq seen
             /\ iter' \notin lasting \cap seen
  <2>1. hashtable_iter_next
    <3>1. ASSUME NEW k \in Keys, NEW v \in Values, hashtable_set(k, v)
          PROVE  FALSE
      BY <1>1, <3>1 DEF hashtable_set
    <3>2. ASSUME NEW k \in Keys,
                 hashtable_set_fails(k) \/ hashtable_del(k)
          PROVE  FALSE
      BY <1>1, <3>2 DEF hashtable_set_fails, hashtable_del
    <3>3. ASSUME NEW v \in Values, hashtable_iter_set(v)
          PROVE  FALSE
      BY <1>1, <3>3 DEF hashtable_iter_set
    <3> QED
      BY <1>1, <3>1, <3>2, <3>3
         DEF TableNext, hashtable_clear, hashtable_close, hashtable_iter, tableVars
  <2>2. PICK o : Ordered(t, o) /\ Visited(o)
    BY <1>1 DEF TableInv
  <2>3. PICK n \in Nat : n = t.size
    BY <1>1 DEF TableInv, Shape, Tables
  <2>4. PICK i \in 1 .. n : iter = o[i] /\ t.ordered_list.next[iter] = At(o, n, i + 1)
    BY <1>1, <2>2, <2>3, IterStandsAt
  <2>5. iter' = At(o, n, i + 1)
    BY <2>1, <2>4 DEF hashtable_iter_next, StandAt
  <2>6. /\ \A q \in 1 .. n : o[q] \in lasting => (o[q] \in seen <=> q <= i)
        /\ \A k \in lasting : \E q \in 1 .. n : o[q] = k
        /\ HEAD \notin lasting
    BY <1>1, <2>2, <2>3, <2>4
       DEF Visited, TableInv, Ordered, Holds, HashtableAssumption
  <2>7. CASE i = n
    <3>1. iter' = HEAD
      BY <2>5, <2>7 DEF At
    <3>2. lasting \subseteq seen
      BY <2>6, <2>7
    <3> QED
      BY <2>6, <3>1, <3>2
  <2>8. CASE i # n
    <3>1. i + 1 \in 1 .. n /\ ~ (i + 1 <= i)
      BY <2>8
    <3>2. iter' = o[i + 1] /\ o[i + 1] # HEAD
      BY <2>2, <2>3, <2>5, <3>1
         DEF At, Ordered, Linked, Order, HashtableAssumption
    <3> QED
      BY <2>6, <3>1, <3>2
  <2> QED
    BY <2>7, <2>8
<1>2. TableInv /\ [TableNext]_tableVars =>
        [iter # HEAD /\ iter' # iter =>
           /\ iter' = HEAD => lasting \subseteq seen
           /\ iter' \notin lasting \cap seen]_tableVars
  BY <1>1
<1> QED
  BY <1>2, TableInvariant, PTL DEF TableSpec, IterationIsComplete

-----------------------------------------------------------------------------
(* The pairs of a table that is ordered by o.                               *)
Pairs(table) ==
  [i \in DOMAIN Walk(table.ordered_list) |->
     LET k == Walk(table.ordered_list)[i] IN <<k, table.value[k]>>]

PairsAlong(table, o) ==
  [i \in 1 .. table.size |-> <<o[i], table.value[o[i]]>>]

LEMMA PairsInOrder ==
  ASSUME HashtableAssumption, NEW table, Shape(table), NEW o, Ordered(table, o)
  PROVE  /\ Pairs(table) = PairsAlong(table, o)
         /\ PairsAlong(table, o) \in
              [1 .. table.size -> Keys \X (Values \cup {NULL})]
         /\ table.size \in Nat /\ o \in [1 .. table.size -> Keys]
         /\ table.value \in [Keys -> Values \cup {NULL}]
<1>1. /\ Walk(table.ordered_list) = o /\ o \in [1 .. table.size -> Keys]
      /\ DOMAIN o = 1 .. table.size
  BY WalkIsOrder DEF Ordered, Linked, Order
<1>2. /\ table.value \in [Keys -> Values \cup {NULL}]
      /\ table.size \in Nat
  BY DEF Shape, Tables
<1>3. Pairs(table) = PairsAlong(table, o)
  BY <1>1 DEF Pairs, PairsAlong
<1>4. PairsAlong(table, o) \in [1 .. table.size -> Keys \X (Values \cup {NULL})]
  BY <1>1, <1>2 DEF PairsAlong
<1> QED
  BY <1>1, <1>2, <1>3, <1>4

(* A key that is there keeps its place.                                     *)
LEMMA ReplacePuts ==
  ASSUME HashtableAssumption, Works(t), NEW o, Ordered(t, o),
         NEW k \in Keys, t.value[k] # NULL, NEW v \in Values,
         NEW new, new = t', Works(new), Ordered(new, o), new.size = t.size,
         new.value = [t.value EXCEPT ![k] = v]
  PROVE  Map!Put(k, v)
<1>1. PICK pairs : pairs = PairsAlong(t, o)
  OBVIOUS
<1>2. /\ Entries = pairs /\ Entries' = PairsAlong(new, o)
      /\ t.size \in Nat /\ o \in [1 .. t.size -> Keys]
      /\ t.value \in [Keys -> Values \cup {NULL}]
      /\ pairs \in [1 .. t.size -> Keys \X (Values \cup {NULL})]
  BY <1>1, PairsInOrder DEF Entries, Pairs, Works
<1>3. \A i \in 1 .. t.size : pairs[i] = <<o[i], t.value[o[i]]>> /\ pairs[i][1] = o[i]
  BY <1>1 DEF PairsAlong
<1>4. k \in Map!Mapped
  BY <1>2, <1>3 DEF Ordered, Holds, Map!Mapped, Map!KeyOf
<1>5. \A i \in 1 .. t.size :
        <<o[i], new.value[o[i]]>> = IF pairs[i][1] = k THEN <<k, v>> ELSE pairs[i]
  BY <1>2, <1>3
<1>6. PairsAlong(new, o) =
        [i \in DOMAIN pairs |-> IF pairs[i][1] = k THEN <<k, v>> ELSE pairs[i]]
  BY <1>2, <1>5 DEF PairsAlong
<1> QED
  BY <1>2, <1>4, <1>6 DEF Map!Put, Map!KeyOf

LEMMA AppendAdds ==
  ASSUME NEW D, NEW n \in Nat, NEW s \in [1 .. n -> D], NEW e \in D
  PROVE  Append(s, e) = [i \in 1 .. n + 1 |-> IF i = n + 1 THEN e ELSE s[i]]
<1>1. s \in Seq(D) /\ Len(s) = n
  OBVIOUS
<1>2. /\ Append(s, e) \in Seq(D) /\ Len(Append(s, e)) = n + 1
      /\ \A i \in 1 .. n : Append(s, e)[i] = s[i]
      /\ Append(s, e)[n + 1] = e
  BY <1>1, AppendProperties
<1>3. Append(s, e) = [i \in 1 .. n + 1 |-> Append(s, e)[i]]
  BY <1>2, LenProperties
<1>4. \A i \in 1 .. n + 1 : i # n + 1 => i \in 1 .. n
  OBVIOUS
<1> QED
  BY <1>2, <1>3, <1>4

LEMMA SetPuts ==
  ASSUME HashtableAssumption, TableInv,
         NEW k \in Keys, NEW v \in Values, hashtable_set(k, v)
  PROVE  Map!Put(k, v)
<1>1. PICK o : Ordered(t, o)
  BY DEF TableInv
<1>2. PICK new : new = t'
  OBVIOUS
<1>3. HashesOK /\ Works(t)
  BY DEF TableInv, Works
<1>4. /\ Works(new)
      /\ new.value = [t.value EXCEPT ![k] = v]
      /\ t.value[k] # NULL => new.size = t.size /\ Ordered(new, o)
      /\ t.value[k] = NULL =>
           /\ new.size = t.size + 1
           /\ Ordered(new, With(o, t.size, t.size + 1, k))
  BY <1>1, <1>2, <1>3, SetEffect
<1>5. PICK pairs : pairs = PairsAlong(t, o)
  OBVIOUS
<1>6. /\ Entries = pairs /\ Entries' = Pairs(new)
      /\ t.size \in Nat /\ o \in [1 .. t.size -> Keys]
      /\ t.value \in [Keys -> Values \cup {NULL}]
      /\ pairs \in [1 .. t.size -> Keys \X (Values \cup {NULL})]
  BY <1>1, <1>2, <1>3, <1>5, PairsInOrder DEF Entries, Pairs, Works
<1>7. \A i \in 1 .. t.size : pairs[i] = <<o[i], t.value[o[i]]>> /\ pairs[i][1] = o[i]
  BY <1>5 DEF PairsAlong
<1>8. Map!Mapped = {o[i] : i \in 1 .. t.size}
  BY <1>6, <1>7 DEF Map!Mapped, Map!KeyOf
<1>9. k \in Map!Mapped <=> t.value[k] # NULL
  BY <1>1, <1>8 DEF Ordered, Holds
<1>10. CASE t.value[k] # NULL
  BY <1>1, <1>2, <1>3, <1>4, <1>10, ReplacePuts
<1>11. CASE t.value[k] = NULL
  <2>1. PICK w : w = With(o, t.size, t.size + 1, k)
    OBVIOUS
  <2>2. Pairs(new) = PairsAlong(new, w) /\ new.size = t.size + 1
    BY <1>4, <1>11, <2>1, PairsInOrder DEF Works
  <2>3. ASSUME NEW i \in 1 .. t.size
        PROVE  <<w[i], new.value[w[i]]>> = pairs[i]
    <3>1. w[i] = o[i]
      BY <1>6, <2>1 DEF With
    <3>2. o[i] # k
      BY <1>1, <1>11 DEF Ordered, Holds
    <3> QED
      BY <1>4, <1>6, <1>7, <3>1, <3>2
  <2>4. <<w[t.size + 1], new.value[w[t.size + 1]]>> = <<k, v>>
    <3>1. w[t.size + 1] = k
      BY <1>6, <2>1 DEF With
    <3> QED
      BY <1>4, <1>6, <3>1
  <2>5. \A i \in 1 .. t.size + 1 : i # t.size + 1 => i \in 1 .. t.size
    BY <1>6
  <2>6. PairsAlong(new, w) =
          [i \in 1 .. t.size + 1 |-> IF i = t.size + 1 THEN <<k, v>> ELSE pairs[i]]
    BY <1>6, <2>2, <2>3, <2>4, <2>5 DEF PairsAlong
  <2>7. PICK D : D = Keys \X (Values \cup {NULL})
    OBVIOUS
  <2>8. PICK e \in D : e = <<k, v>>
    BY <2>7
  <2>9. Append(pairs, e) =
          [i \in 1 .. t.size + 1 |-> IF i = t.size + 1 THEN e ELSE pairs[i]]
    <3>1. pairs \in [1 .. t.size -> D]
      BY <1>6, <2>7
    <3> QED
      BY <1>6, <3>1, AppendAdds
  <2> QED
    BY <1>6, <1>9, <1>11, <2>2, <2>6, <2>8, <2>9 DEF Map!Put
<1> QED
  BY <1>10, <1>11

LEMMA DeleteDrops ==
  ASSUME HashtableAssumption, TableInv, NEW k \in Keys, hashtable_del(k)
  PROVE  Map!Drop(k)
<1>1. PICK o : Ordered(t, o)
  BY DEF TableInv
<1>2. PICK new : new = t'
  OBVIOUS
<1>3. HashesOK /\ Works(t)
  BY DEF TableInv, Works
<1>4. Works(new) /\ new.value = [t.value EXCEPT ![k] = NULL] /\ new.size = t.size - 1
  BY <1>1, <1>2, <1>3, DeleteEffect
<1>5. PICK p \in 1 .. t.size : o[p] = k /\ Ordered(new, Less(o, t.size, p))
  BY <1>1, <1>2, <1>3, DeleteEffect
<1>6. PICK w : w = Less(o, t.size, p)
  OBVIOUS
<1>7. PICK pairs : pairs = PairsAlong(t, o)
  OBVIOUS
<1>8. /\ Entries = pairs /\ Entries' = Pairs(new)
      /\ t.size \in Nat /\ o \in [1 .. t.size -> Keys]
      /\ t.value \in [Keys -> Values \cup {NULL}]
      /\ pairs \in [1 .. t.size -> Keys \X (Values \cup {NULL})]
  BY <1>1, <1>2, <1>3, <1>7, PairsInOrder DEF Entries, Pairs, Works
<1>9. \A i \in 1 .. t.size : pairs[i] = <<o[i], t.value[o[i]]>> /\ pairs[i][1] = o[i]
  BY <1>7 DEF PairsAlong
<1>10. Pairs(new) = PairsAlong(new, w)
  BY <1>4, <1>5, <1>6, PairsInOrder DEF Works
<1>11. \A i, j \in 1 .. t.size : o[i] = o[j] => i = j
  BY <1>1 DEF Ordered, Linked, Order
<1>12. ASSUME NEW i \in 1 .. t.size - 1
       PROVE  <<w[i], new.value[w[i]]>> = IF i < p THEN pairs[i] ELSE pairs[i + 1]
  <2>1. PICK j \in 1 .. t.size : j = (IF i < p THEN i ELSE i + 1) /\ j # p
    BY <1>8
  <2>2. w[i] = o[j]
    BY <1>6, <2>1 DEF Less
  <2>3. o[j] # k /\ o[j] \in Keys
    BY <1>5, <1>8, <1>11, <2>1
  <2> QED
    BY <1>4, <1>8, <1>9, <2>1, <2>2, <2>3
<1>13. PairsAlong(new, w) = Less(pairs, t.size, p)
  BY <1>4, <1>12 DEF PairsAlong, Less
<1>14. PICK D : D = Keys \X (Values \cup {NULL})
  OBVIOUS
<1>15. pairs \in [1 .. t.size -> D]
  BY <1>8, <1>14
<1>16. SubSeq(pairs, 1, p - 1) \o SubSeq(pairs, p + 1, t.size) = Less(pairs, t.size, p)
  BY <1>8, <1>15, PartsAreLess
<1>17. Len(pairs) = t.size /\ DOMAIN pairs = 1 .. t.size
  BY <1>8
<1>18. Map!RemoveAt(pairs, p) = Less(pairs, t.size, p)
  BY <1>16, <1>17 DEF Map!RemoveAt
<1>19. Entries' = Map!RemoveAt(Entries, p)
  BY <1>8, <1>10, <1>13, <1>18
<1>20. p \in DOMAIN Entries /\ Map!KeyOf(Entries[p]) = k
  BY <1>5, <1>8, <1>9, <1>17 DEF Map!KeyOf
<1> QED
  BY <1>19, <1>20 DEF Map!Drop

(* Every call does to the table what it promises to do to an ordered map:   *)
(* growth, failures and iterations are not seen (hashtable.c).              *)
THEOREM TableIsOrderedMap ==
  ASSUME HashtableAssumption
  PROVE  TableSpec => ImplementsMap
<1>1. TableInit => Map!MapInit
  <2> SUFFICES ASSUME TableInit
               PROVE  Entries = <<>>
    BY DEF Map!MapInit
  <2>1. TableInv
    BY TableBegins
  <2>2. PICK o : Ordered(t, o)
    BY <2>1 DEF TableInv
  <2>3. t.size = 0 /\ Shape(t)
    BY <2>1 DEF TableInit, NewTable, TableInv
  <2>4. Entries = PairsAlong(t, o)
    BY <2>2, <2>3, PairsInOrder DEF Entries, Pairs
  <2> QED
    BY <2>3, <2>4 DEF PairsAlong
<1>2. ASSUME TableInv, [TableNext]_tableVars
      PROVE  [Map!MapNext]_Entries
  <2>0. HashesOK /\ Works(t)
    BY <1>2 DEF TableInv, Works
  <2>1. PICK o : Ordered(t, o)
    BY <1>2 DEF TableInv
  <2>2. PICK new : new = t'
    OBVIOUS
  <2>3. Entries = PairsAlong(t, o) /\ Entries' = Pairs(new)
    BY <2>0, <2>1, <2>2, PairsInOrder DEF Entries, Pairs, Works
  <2>4. ASSUME NEW k \in Keys, NEW v \in Values, hashtable_set(k, v)
        PROVE  Map!MapNext
    BY <1>2, <2>4, SetPuts DEF Map!MapNext
  <2>5. ASSUME NEW k \in Keys, hashtable_set_fails(k)
        PROVE  Entries' = Entries
    <3>1. /\ Works(new) /\ new.value = t.value /\ new.size = t.size
          /\ Ordered(new, o)
      BY <2>0, <2>1, <2>2, <2>5, FailureEffect
    <3>2. Pairs(new) = PairsAlong(new, o)
      BY <3>1, PairsInOrder DEF Works
    <3> QED
      BY <2>3, <3>1, <3>2 DEF PairsAlong
  <2>6. ASSUME NEW k \in Keys, hashtable_del(k)
        PROVE  Map!MapNext
    BY <1>2, <2>6, DeleteDrops DEF Map!MapNext
  <2>7. CASE hashtable_clear \/ hashtable_close
    <3>1. Works(new) /\ new.size = 0
      BY <2>0, <2>2, <2>7, ClearEffect
    <3>2. PICK x : Ordered(new, x)
      BY <2>0, <2>2, <2>7, ClearEffect
    <3>3. Pairs(new) = PairsAlong(new, x)
      BY <3>1, <3>2, PairsInOrder DEF Works
    <3>4. Entries' = <<>>
      BY <2>3, <3>1, <3>3 DEF PairsAlong
    <3> QED
      BY <3>4 DEF Map!MapNext, Map!Empty
  <2>8. CASE hashtable_iter \/ hashtable_iter_next \/ UNCHANGED tableVars
    <3>1. t' = t
      BY <2>8 DEF hashtable_iter, hashtable_iter_next, StandAt, tableVars
    <3> QED
      BY <3>1 DEF Entries
  <2>9. ASSUME NEW v \in Values, hashtable_iter_set(v)
        PROVE  Map!MapNext
    <3>1. iter \in Keys /\ t.value[iter] # NULL
      BY <1>2, <2>9 DEF TableInv, hashtable_iter_set, ListNodes
    <3>2. PICK k \in Keys : k = iter
      BY <3>1
    <3>3. /\ Works(new) /\ new.value = [t.value EXCEPT ![k] = v]
          /\ new.size = t.size /\ Ordered(new, o)
      BY <2>0, <2>1, <2>2, <2>9, <3>1, <3>2, SetOfEntryEffect
    <3>4. Map!Put(k, v)
      BY <2>0, <2>1, <2>2, <3>1, <3>2, <3>3, ReplacePuts
    <3> QED
      BY <3>4 DEF Map!MapNext
  <2> QED
    BY <1>2, <2>4, <2>5, <2>6, <2>7, <2>8, <2>9 DEF TableNext
<1>3. TableInv /\ [TableNext]_tableVars => [Map!MapNext]_Entries
  BY <1>2
<1> QED
  BY <1>1, <1>3, TableInvariant, PTL DEF TableSpec, ImplementsMap, Map!MapSpec


-----------------------------------------------------------------------------
(***************************************************************************)
(* The HTTP client: no octet of a request is sent twice or skipped, and the *)
(* buffer is left in two places only.  Some of it is about sums over the    *)
(* clients, since two of them may come to share a connection.               *)
(***************************************************************************)
(* The element that the sum over a set takes first.                         *)
First(s) == CHOOSE x \in s : TRUE

(* it is the sum of f over each of the sets in D.                           *)
Sums(f, D, it) ==
  it = [s \in D |-> IF s = {} THEN 0 ELSE f[First(s)] + it[s \ {First(s)}]]

(* Total in these words.                                                    *)
LEMMA TotalIsSum ==
  ASSUME NEW f
  PROVE  Total(f) = (CHOOSE it : Sums(f, SUBSET Clients, it))[Clients]
BY DEF Total, MapThenSumSet, MapThenFoldSet, Sums, First

(* Taking the first element out of a finite set leaves a smaller one.       *)
LEMMA FirstSmaller ==
  ASSUME NEW S, IsFiniteSet(S), NEW s \in SUBSET S, s # {}
  PROVE  /\ First(s) \in s
         /\ s \ {First(s)} \in SUBSET S
         /\ Cardinality(s) \in Nat \ {0}
         /\ Cardinality(s \ {First(s)}) = Cardinality(s) - 1
<1>1. First(s) \in s
  BY DEF First
<1>2. IsFiniteSet(s)
  BY FS_Subset
<1>3. Cardinality(s) \in Nat /\ Cardinality(s) # 0
  BY <1>2, FS_CardinalityType, FS_EmptySet
<1>4. Cardinality(s \ {First(s)}) = Cardinality(s) - 1
  BY <1>1, <1>2, FS_RemoveElement
<1> QED
  BY <1>1, <1>3, <1>4

(* What holds of the empty set, and of a set when it holds of what is left  *)
(* without its first element, holds of every subset of a finite set.        *)
LEMMA EverySubset ==
  ASSUME NEW S, IsFiniteSet(S), NEW T, {} \in T,
         \A s \in SUBSET S : s # {} /\ s \ {First(s)} \in T => s \in T
  PROVE  \A s \in SUBSET S : s \in T
<1> SUFFICES ASSUME NEW s0 \in SUBSET S, s0 \notin T
             PROVE  FALSE
  OBVIOUS
<1> DEFINE sizes == {n \in Nat : \E s \in SUBSET S : s \notin T /\ Cardinality(s) = n}
<1>1. Cardinality(s0) \in sizes
  BY FS_Subset, FS_CardinalityType
<1>2. PICK n \in sizes : \A m \in sizes : n <= m
  <2>1. sizes \subseteq Nat /\ sizes # {}
    BY <1>1
  <2> HIDE DEF sizes
  <2> QED
    BY <2>1, LeastNumber
<1>3. PICK s \in SUBSET S : s \notin T /\ Cardinality(s) = n
  BY <1>2
<1>4. s # {}
  BY <1>3
<1> DEFINE u == s \ {First(s)}
<1>5. u \in SUBSET S /\ Cardinality(u) = n - 1 /\ n \in Nat \ {0}
  BY <1>3, <1>4, FirstSmaller
<1>6. u \notin T
  BY <1>3, <1>4
<1> HIDE DEF u
<1>7. n - 1 \in Nat /\ ~ (n <= n - 1)
  BY <1>5
<1>8. n - 1 \in sizes
  BY <1>5, <1>6, <1>7
<1> HIDE DEF sizes
<1> QED
  BY <1>2, <1>7, <1>8

(* The subsets of S of at most n elements.                                  *)
UpTo(S, n) == {s \in SUBSET S : Cardinality(s) <= n}

(* The sums over those subsets are well defined, whatever n is.             *)
LEMMA SumsUpTo ==
  ASSUME NEW S, IsFiniteSet(S), NEW f, NEW k \in Nat
  PROVE  \E it : Sums(f, UpTo(S, k), it)
<1> SUFFICES ASSUME \A it : ~ Sums(f, UpTo(S, k), it)
             PROVE  FALSE
  OBVIOUS
<1> DEFINE bad == {n \in Nat : \A it : ~ Sums(f, UpTo(S, n), it)}
<1>1. PICK n \in bad : \A m \in bad : n <= m
  <2>1. bad \subseteq Nat /\ bad # {}
    OBVIOUS
  <2> HIDE DEF bad
  <2> QED
    BY <2>1, LeastNumber
<1>2. n \in Nat /\ \A it : ~ Sums(f, UpTo(S, n), it)
  BY <1>1
<1>3. ASSUME NEW s \in SUBSET S
      PROVE  Cardinality(s) \in Nat /\ (Cardinality(s) = 0 <=> s = {})
  BY FS_Subset, FS_CardinalityType, FS_EmptySet
<1>4. CASE n = 0
  <2> DEFINE it == [s \in UpTo(S, 0) |-> 0]
  <2>1. \A s \in UpTo(S, 0) : s = {}
    BY <1>3 DEF UpTo
  <2>2. it = [s \in UpTo(S, 0) |->
                IF s = {} THEN 0 ELSE f[First(s)] + it[s \ {First(s)}]]
    <3>1. \A s \in UpTo(S, 0) :
            (IF s = {} THEN 0 ELSE f[First(s)] + it[s \ {First(s)}]) = 0
      BY <2>1
    <3> QED
      BY <3>1
  <2>3. Sums(f, UpTo(S, 0), it)
    BY <2>2 DEF Sums
  <2> QED
    BY <1>2, <1>4, <2>3
<1>5. CASE n # 0
  <2>1. n - 1 \in Nat /\ ~ (n <= n - 1)
    BY <1>2, <1>5
  <2>2. PICK h : Sums(f, UpTo(S, n - 1), h)
    BY <1>1, <2>1
  <2> DEFINE it == [s \in UpTo(S, n) |->
                      IF s = {} THEN 0 ELSE f[First(s)] + h[s \ {First(s)}]]
  <2>3. ASSUME NEW s \in UpTo(S, n), s # {}
        PROVE  it[s \ {First(s)}] = h[s \ {First(s)}]
    <3> DEFINE u == s \ {First(s)}
    <3>1. u \in SUBSET S /\ Cardinality(u) = Cardinality(s) - 1
          /\ Cardinality(s) \in Nat /\ Cardinality(s) <= n
      BY <2>3, FirstSmaller DEF UpTo
    <3> HIDE DEF u
    <3>2. Cardinality(u) <= n - 1 /\ Cardinality(u) <= n
      BY <1>2, <3>1
    <3>3. u \in UpTo(S, n - 1) /\ u \in UpTo(S, n)
      BY <3>1, <3>2 DEF UpTo
    <3>4. h[u] = IF u = {} THEN 0 ELSE f[First(u)] + h[u \ {First(u)}]
      BY <2>2, <3>3 DEF Sums
    <3>5. it[u] = IF u = {} THEN 0 ELSE f[First(u)] + h[u \ {First(u)}]
      BY <3>3
    <3> QED
      BY <3>4, <3>5 DEF u
  <2>4. it = [s \in UpTo(S, n) |->
                IF s = {} THEN 0 ELSE f[First(s)] + it[s \ {First(s)}]]
    <3>1. \A s \in UpTo(S, n) :
            (IF s = {} THEN 0 ELSE f[First(s)] + h[s \ {First(s)}])
              = (IF s = {} THEN 0 ELSE f[First(s)] + it[s \ {First(s)}])
      BY <2>3
    <3> QED
      BY <3>1
  <2>5. Sums(f, UpTo(S, n), it)
    BY <2>4 DEF Sums
  <2> QED
    BY <1>2, <2>5
<1> QED
  BY <1>4, <1>5

(* The sum over all clients, one client at a time.                          *)
LEMMA TotalSteps ==
  ASSUME IsFiniteSet(Clients), NEW f
  PROVE  \E it : /\ Total(f) = it[Clients]
                 /\ \A s \in SUBSET Clients :
                      it[s] = IF s = {} THEN 0
                              ELSE f[First(s)] + it[s \ {First(s)}]
<1>1. UpTo(Clients, Cardinality(Clients)) = SUBSET Clients
  BY FS_Subset DEF UpTo
<1>2. Cardinality(Clients) \in Nat
  BY FS_CardinalityType
<1>3. \E it : Sums(f, SUBSET Clients, it)
  <2>1. \E it : Sums(f, UpTo(Clients, Cardinality(Clients)), it)
    BY <1>2, SumsUpTo
  <2> QED
    BY <1>1, <2>1
<1> DEFINE it == CHOOSE it : Sums(f, SUBSET Clients, it)
<1>4. Sums(f, SUBSET Clients, it)
  BY <1>3
<1>5. Total(f) = it[Clients]
  BY TotalIsSum
<1> HIDE DEF it
<1>6. \A s \in SUBSET Clients :
        it[s] = IF s = {} THEN 0 ELSE f[First(s)] + it[s \ {First(s)}]
  BY <1>4 DEF Sums
<1> QED
  BY <1>5, <1>6

(* More of one summand is more of the sum.                                  *)
LEMMA TotalGrows ==
  ASSUME IsFiniteSet(Clients), NEW f \in [Clients -> Int],
         NEW g \in [Clients -> Int], NEW c \in Clients, NEW n \in Int,
         g[c] = f[c] + n, \A d \in Clients \ {c} : g[d] = f[d]
  PROVE  Total(f) \in Int /\ Total(g) = Total(f) + n
<1>1. PICK i : /\ Total(f) = i[Clients]
               /\ \A s \in SUBSET Clients :
                    i[s] = IF s = {} THEN 0
                           ELSE f[First(s)] + i[s \ {First(s)}]
  BY TotalSteps
<1>2. PICK j : /\ Total(g) = j[Clients]
               /\ \A s \in SUBSET Clients :
                    j[s] = IF s = {} THEN 0
                           ELSE g[First(s)] + j[s \ {First(s)}]
  BY TotalSteps
<1> DEFINE T == {s \in SUBSET Clients :
                   i[s] \in Int /\ j[s] = i[s] + IF c \in s THEN n ELSE 0}
<1>3. {} \in T
  <2>1. i[{}] = 0 /\ j[{}] = 0
    BY <1>1, <1>2
  <2> QED
    BY <2>1
<1>4. ASSUME NEW s \in SUBSET Clients, s # {}, s \ {First(s)} \in T
      PROVE  s \in T
  <2> DEFINE x == First(s)  u == s \ {x}
  <2>1. x \in s /\ x \in Clients
    BY <1>4, FirstSmaller
  <2>2. i[s] = f[x] + i[u] /\ j[s] = g[x] + j[u]
    BY <1>1, <1>2, <1>4
  <2>3. i[u] \in Int /\ j[u] = i[u] + IF c \in u THEN n ELSE 0
    BY <1>4
  <2>4. f[x] \in Int /\ g[x] = IF x = c THEN f[x] + n ELSE f[x]
    BY <2>1
  <2>5. CASE x = c
    <3>1. c \in s /\ c \notin u
      BY <2>1, <2>5
    <3>2. i[s] \in Int /\ j[s] = i[s] + n
      <4> HIDE DEF x, u, T
      <4> QED
        BY <2>2, <2>3, <2>4, <2>5, <3>1
    <3> QED
      BY <3>1, <3>2
  <2>6. CASE x # c
    <3>1. c \in s <=> c \in u
      BY <2>1, <2>6
    <3>2. i[s] \in Int /\ j[s] = i[s] + IF c \in s THEN n ELSE 0
      <4> HIDE DEF x, u, T
      <4> QED
        BY <2>2, <2>3, <2>4, <2>6, <3>1
    <3> QED
      BY <3>2
  <2> QED
    BY <2>5, <2>6
<1>5. Clients \in T
  <2> HIDE DEF T
  <2> QED
    BY <1>3, <1>4, EverySubset
<1>6. i[Clients] \in Int /\ j[Clients] = i[Clients] + n
  BY <1>5
<1> QED
  BY <1>1, <1>2, <1>6

(* The sum of nothing.                                                      *)
LEMMA TotalZero ==
  ASSUME IsFiniteSet(Clients), NEW f, \A c \in Clients : f[c] = 0
  PROVE  Total(f) = 0
<1>1. PICK i : /\ Total(f) = i[Clients]
               /\ \A s \in SUBSET Clients :
                    i[s] = IF s = {} THEN 0
                           ELSE f[First(s)] + i[s \ {First(s)}]
  BY TotalSteps
<1> DEFINE T == {s \in SUBSET Clients : i[s] = 0}
<1>2. {} \in T
  BY <1>1
<1>3. ASSUME NEW s \in SUBSET Clients, s # {}, s \ {First(s)} \in T
      PROVE  s \in T
  <2>1. First(s) \in Clients
    BY <1>3, FirstSmaller
  <2>2. i[s] = f[First(s)] + i[s \ {First(s)}]
    BY <1>1, <1>3
  <2>3. f[First(s)] = 0 /\ i[s \ {First(s)}] = 0
    BY <1>3, <2>1
  <2> QED
    BY <2>2, <2>3
<1>4. Clients \in T
  <2> HIDE DEF T
  <2> QED
    BY <1>2, <1>3, EverySubset
<1> QED
  BY <1>1, <1>4

-----------------------------------------------------------------------------
(* What is sent is what is got: of a client with a descriptor of its own,   *)
(* and of all of them together.                                             *)
Counted ==
  /\ \A c \in Clients : ~Shares(c) => Got[c] = Sent[c]
  /\ Total(Got) = Total(Sent)

(* A descriptor that is open is that of the client that opened it, and one  *)
(* who has not connected yet has none and nothing sent.                     *)
Connected ==
  /\ \A d \in Descriptors : open[d] # NULL => fd[open[d]] = d
  /\ \A c \in Clients : state[c] \in {"none", "Connect"} => fd[c] = NoSocket
  /\ \A c \in Clients : state[c] = "none" => length[c] = asked[c]

AllSent == \A c \in Clients : state[c] \in {"Receive", "Close"} => length[c] = 0

ClientInv ==
  /\ ClientTypeOK /\ Connected /\ AllSent /\ Counted
  /\ \A c \in Clients : StaysInBuffer(c)

(* What the assumption says of the constants.                               *)
LEMMA ConstantFacts ==
  ASSUME ClientAssumption
  PROVE  /\ Requests \subseteq Nat \ {0} /\ 0 \in Requests \cup {0}
         /\ BufferCap \in Nat /\ 1 <= BufferCap /\ 0 \in 0 .. BufferCap
         /\ Descriptors \subseteq Nat /\ NoSocket \notin Descriptors
         /\ Responses \subseteq Nat
         /\ IsFiniteSet(Clients)
         /\ NULL \notin Clients
BY SmwAssumption DEF ClientAssumption, NoSocket, Clients

(* The numbers of one client.                                               *)
LEMMA NumbersOf ==
  ASSUME ClientAssumption, ClientTypeOK, NEW c \in Clients
  PROVE  /\ asked[c] \in Nat /\ length[c] \in Nat /\ length[c] <= asked[c]
         /\ extent[c] \in Nat /\ BufferCap \in Nat
         /\ filled[c] \in Nat /\ filled[c] <= BufferCap
         /\ asked[c] - length[c] \in Int
         /\ peer[c].got \in Nat /\ peer[c].left \in Nat
<1>1. asked[c] \in Nat /\ length[c] \in Nat /\ length[c] <= asked[c]
  BY ConstantFacts DEF ClientTypeOK
<1>2. filled[c] \in 0 .. BufferCap /\ BufferCap \in Nat
  BY ConstantFacts DEF ClientTypeOK
<1> QED
  BY <1>1, <1>2 DEF ClientTypeOK

(* The sums have whole numbers to add.                                      *)
LEMMA SumsAreTyped ==
  ASSUME ClientAssumption, ClientTypeOK
  PROVE  Got \in [Clients -> Int] /\ Sent \in [Clients -> Int]
<1>1. \A c \in Clients : peer[c].got \in Int /\ asked[c] - length[c] \in Int
  BY NumbersOf
<1> QED
  BY <1>1 DEF Got, Sent

(* A step that sends nothing and connects nobody counts nothing.            *)
LEMMA SilentSteps ==
  ASSUME Counted, Got' = Got, Sent' = Sent, fd' = fd
  PROVE  Counted'
<1>1. \A c \in Clients : Shares(c)' = Shares(c)
  BY DEF Shares
<1> QED
  BY <1>1 DEF Counted

(* The first state: nothing is sent and nobody has got anything.            *)
LEMMA InitClient == ClientAssumption /\ ClientInit => ClientInv
<1> SUFFICES ASSUME ClientAssumption, ClientInit
             PROVE  ClientInv
  OBVIOUS
<1>1. \A c \in Clients : /\ peer[c] \in [got : Nat, left : Nat, closed : BOOLEAN]
                         /\ peer[c].got = 0
  <2> SUFFICES ASSUME NEW c \in Clients
               PROVE  /\ peer[c] \in [got : Nat, left : Nat, closed : BOOLEAN]
                      /\ peer[c].got = 0
    OBVIOUS
  <2>1. peer[c] \in {[got |-> 0, left |-> n, closed |-> FALSE] : n \in Responses}
    BY DEF ClientInit
  <2>2. PICK n \in Responses : peer[c] = [got |-> 0, left |-> n, closed |-> FALSE]
    BY <2>1
  <2> QED
    BY <2>2, ConstantFacts
<1>2. peer \in [Clients -> [got : Nat, left : Nat, closed : BOOLEAN]]
  BY <1>1 DEF ClientInit
<1>3. ClientTypeOK
  BY <1>2, ConstantFacts DEF ClientInit, ClientTypeOK
<1>4. \A c \in Clients : Got[c] = 0 /\ Sent[c] = 0
  <2>1. \A c \in Clients : asked[c] - length[c] = 0
    BY DEF ClientInit
  <2> QED
    BY <1>1, <2>1 DEF Got, Sent
<1>5. Total(Got) = 0 /\ Total(Sent) = 0
  BY <1>4, TotalZero, ConstantFacts
<1>6. \A c \in Clients : StaysInBuffer(c)
  <2>1. \A c \in Clients : extent[c] = 0
    BY DEF ClientInit
  <2>2. ~ (0 > BufferCap)
    BY ConstantFacts
  <2> QED
    BY <2>1, <2>2 DEF StaysInBuffer
<1>7. Connected /\ AllSent
  BY DEF ClientInit, Connected, AllSent
<1> QED
  BY <1>3, <1>4, <1>5, <1>6, <1>7 DEF ClientInv, Counted

(* The bound on the buffer stays when its operands do.                      *)
LEMMA BoundKept ==
  ASSUME NEW c, StaysInBuffer(c),
         extent'[c] = extent[c], asked'[c] = asked[c], filled'[c] = filled[c],
         state'[c] = state[c] \/ state'[c] = "freed"
  PROVE  StaysInBuffer(c)'
BY DEF StaysInBuffer

(* HTTPClient_GET begins a request with all of it to send.                  *)
LEMMA GETSteps ==
  ASSUME ClientAssumption, ClientInv, NEW c \in Clients, HTTPClient_GET(c)
  PROVE  ClientInv'
<1>1. PICK slot \in Slots \cup {NULL} : task' = [task EXCEPT ![c] = slot]
  BY DEF HTTPClient_GET
<1>2. /\ state' = [state EXCEPT ![c] = "Connect"] /\ state[c] = "none"
      /\ UNCHANGED <<filled, fd, open, peer>>
  BY DEF HTTPClient_GET
<1>3. PICK n \in Requests :
        /\ asked' = [asked EXCEPT ![c] = n]
        /\ length' = [length EXCEPT ![c] = n]
        /\ extent' = [extent EXCEPT ![c] = Smaller(n + 1, BufferCap)]
  BY DEF HTTPClient_GET
<1>4. n \in Nat /\ n <= n /\ BufferCap \in Nat
  BY ConstantFacts
<1>5. Smaller(n + 1, BufferCap) \in Nat /\ ~ (Smaller(n + 1, BufferCap) > BufferCap)
  BY <1>4 DEF Smaller
<1>6. ClientTypeOK'
  BY <1>1, <1>2, <1>3, <1>4, <1>5 DEF ClientInv, ClientTypeOK
<1>7. Got' = Got /\ Sent' = Sent
  <2>1. Got' = Got
    BY <1>2 DEF Got
  <2>2. asked'[c] = n /\ length'[c] = n /\ n - n = 0
    BY <1>3, <1>4 DEF ClientInv, ClientTypeOK
  <2>3. asked[c] - length[c] = 0
    BY <1>2, NumbersOf DEF ClientInv, Connected
  <2>4. \A d \in Clients \ {c} : asked'[d] = asked[d] /\ length'[d] = length[d]
    BY <1>3 DEF ClientInv, ClientTypeOK
  <2>5. \A d \in Clients : asked'[d] - length'[d] = asked[d] - length[d]
    BY <2>2, <2>3, <2>4
  <2> QED
    BY <2>1, <2>5 DEF Sent
<1>8. Counted'
  BY <1>2, <1>7, SilentSteps DEF ClientInv
<1>9. Connected' /\ AllSent'
  BY <1>2, <1>3 DEF ClientInv, ClientTypeOK, Connected, AllSent
<1>10. ASSUME NEW d \in Clients
       PROVE  StaysInBuffer(d)'
  <2>1. CASE d = c
    <3>1. extent'[d] = Smaller(n + 1, BufferCap)
      BY <1>3, <2>1 DEF ClientInv, ClientTypeOK
    <3> QED
      BY <1>5, <3>1 DEF StaysInBuffer
  <2>2. CASE d # c
    BY <1>2, <1>3, <2>2, BoundKept DEF ClientInv, ClientTypeOK
  <2> QED
    BY <2>1, <2>2
<1> QED
  BY <1>6, <1>8, <1>9, <1>10 DEF ClientInv

(* HTTPClient_Dispose leaves what was sent as it was.                       *)
LEMMA DisposeSteps ==
  ASSUME ClientAssumption, ClientInv, NEW c \in Clients, HTTPClient_Dispose(c)
  PROVE  ClientInv'
<1>1. /\ state' = [state EXCEPT ![c] = "freed"] /\ state[c] # "none"
      /\ UNCHANGED <<task, asked, length, filled, extent, fd, open, peer>>
  BY DEF HTTPClient_Dispose
<1>2. ClientTypeOK'
  BY <1>1 DEF ClientInv, ClientTypeOK
<1>3. Counted'
  BY <1>1, SilentSteps DEF ClientInv, Got, Sent
<1>4. Connected' /\ AllSent'
  BY <1>1 DEF ClientInv, ClientTypeOK, Connected, AllSent
<1>5. \A d \in Clients : StaysInBuffer(d)'
  BY <1>1, BoundKept DEF ClientInv, ClientTypeOK
<1> QED
  BY <1>2, <1>3, <1>4, <1>5 DEF ClientInv

(* Connect takes a free descriptor, or nothing.  Nobody else sends over the *)
(* client's: it had none, and what it has got and sent is nothing yet.      *)
LEMMA ConnectSteps ==
  ASSUME ClientAssumption, ClientInv, NEW c \in Clients, Connect(c)
  PROVE  ClientInv'
<1>1. /\ state[c] = "Connect"
      /\ UNCHANGED <<tasks, task, asked, length, filled, extent, peer>>
      /\ \/ \E d \in Descriptors :
              /\ open' = [open EXCEPT ![d] = c]
              /\ fd' = [fd EXCEPT ![c] = d]
              /\ state' = [state EXCEPT ![c] = "Transmit"]
         \/ UNCHANGED <<state, fd, open>>
  BY DEF Connect, FreeDescriptors
<1>2. CASE UNCHANGED <<state, fd, open>>
  <2>1. ClientTypeOK' /\ Connected' /\ AllSent'
    BY <1>1, <1>2 DEF ClientInv, ClientTypeOK, Connected, AllSent
  <2>2. Counted'
    BY <1>1, <1>2, SilentSteps DEF ClientInv, Got, Sent
  <2>3. \A e \in Clients : StaysInBuffer(e)'
    BY <1>1, <1>2, BoundKept DEF ClientInv
  <2> QED
    BY <2>1, <2>2, <2>3 DEF ClientInv
<1>3. ASSUME NEW d \in Descriptors,
             open' = [open EXCEPT ![d] = c],
             fd' = [fd EXCEPT ![c] = d],
             state' = [state EXCEPT ![c] = "Transmit"]
      PROVE  ClientInv'
  <2>1. fd[c] = NoSocket
    BY <1>1 DEF ClientInv, Connected
  <2>2. /\ \A e \in Clients \ {c} : fd'[e] = fd[e]
        /\ fd'[c] = d
        /\ \A e \in Clients \ {c} : state'[e] = state[e]
        /\ state'[c] = "Transmit"
        /\ \A e \in Descriptors \ {d} : open'[e] = open[e]
        /\ open'[d] = c
    BY <1>3 DEF ClientInv, ClientTypeOK
  <2>3. ClientTypeOK'
    <3>1. open' \in [Descriptors -> Clients \cup {NULL}]
      BY <1>3 DEF ClientInv, ClientTypeOK
    <3>2. fd' \in [Clients -> Descriptors \cup {NoSocket}]
      BY <1>3 DEF ClientInv, ClientTypeOK
    <3>3. state' \in [Clients -> {"none", "Connect", "Transmit", "Receive",
                                  "Close", "freed"}]
      BY <1>3 DEF ClientInv, ClientTypeOK
    <3> QED
      BY <1>1, <3>1, <3>2, <3>3 DEF ClientInv, ClientTypeOK
  <2>4. Got' = Got /\ Sent' = Sent
    BY <1>1 DEF Got, Sent
  <2>5. ASSUME NEW e \in Clients, ~Shares(e)'
        PROVE  Got[e] = Sent[e]
    <3>1. ~Shares(e)
      <4> SUFFICES ASSUME Shares(e)
                   PROVE  FALSE
        OBVIOUS
      <4>1. PICK g \in Clients \ {e} : fd[g] = fd[e] /\ fd[e] # NoSocket
        BY DEF Shares
      <4>2. e # c /\ g # c
        BY <2>1, <4>1
      <4>3. fd'[g] = fd'[e] /\ fd'[e] # NoSocket
        BY <2>2, <4>1, <4>2
      <4>4. Shares(e)'
        BY <4>1, <4>3 DEF Shares
      <4> QED
        BY <2>5, <4>4
    <3> QED
      BY <3>1 DEF ClientInv, Counted
  <2>6. Counted'
    BY <2>4, <2>5 DEF ClientInv, Counted
  <2>7. ASSUME NEW e \in Descriptors, open'[e] # NULL
        PROVE  fd'[open'[e]] = e
    <3>1. CASE e = d
      BY <2>2, <3>1
    <3>2. CASE e # d
      <4>1. open'[e] = open[e] /\ open[e] \in Clients /\ fd[open[e]] = e
        BY <2>2, <2>7, <3>2 DEF ClientInv, ClientTypeOK, Connected
      <4>2. open[e] # c
        BY <2>1, <4>1, ConstantFacts
      <4> QED
        BY <2>2, <4>1, <4>2
    <3> QED
      BY <3>1, <3>2
  <2>8. Connected' /\ AllSent'
    <3>1. \A e \in Clients : state'[e] \in {"none", "Connect", "Receive", "Close"} =>
             e # c /\ state'[e] = state[e]
      BY <2>2
    <3> QED
      BY <1>1, <2>2, <2>7, <3>1 DEF ClientInv, Connected, AllSent
  <2>9. ASSUME NEW e \in Clients
        PROVE  StaysInBuffer(e)'
    <3>1. CASE e = c
      BY <1>1, <3>1 DEF ClientInv, StaysInBuffer
    <3>2. CASE e # c
      BY <1>1, <2>2, <3>2, BoundKept DEF ClientInv
    <3> QED
      BY <3>1, <3>2
  <2> QED
    BY <2>3, <2>6, <2>8, <2>9 DEF ClientInv
<1> QED
  BY <1>1, <1>2, <1>3

(* What a client's descriptor leads to is a connection of that number.      *)
LEMMA ReachesAClient ==
  ASSUME ClientAssumption, ClientTypeOK, Connected,
         NEW c \in Clients, Reaches(c) # NULL
  PROVE  /\ Reaches(c) \in Clients
         /\ fd[c] # NoSocket /\ fd[Reaches(c)] = fd[c]
<1>1. fd[c] \in Descriptors /\ Reaches(c) = open[fd[c]]
  BY DEF ClientTypeOK, Reaches
<1> QED
  BY <1>1, ConstantFacts DEF ClientTypeOK, Connected

(* A call that goes no further than the request, or the buffer, keeps the   *)
(* bound.                                                                   *)
LEMMA BoundOfTouch ==
  ASSUME ClientAssumption, ClientTypeOK, NEW c \in Clients, StaysInBuffer(c),
         state[c] \in {"Transmit", "Receive"}, NEW n \in Nat, Touches(c, n),
         n <= asked[c] \/ n <= BufferCap, asked' = asked
  PROVE  /\ extent' \in [Clients -> Nat] /\ StaysInBuffer(c)'
         /\ \A d \in Clients \ {c} : extent'[d] = extent[d]
<1>1. /\ extent[c] \in Nat /\ BufferCap \in Nat /\ asked[c] \in Nat
  BY NumbersOf
<1>2. Larger(extent[c], n) \in Nat
  BY <1>1 DEF Larger
<1>3. /\ extent' \in [Clients -> Nat] /\ extent'[c] = Larger(extent[c], n)
      /\ \A d \in Clients \ {c} : extent'[d] = extent[d]
  BY <1>2 DEF Touches, ClientTypeOK
<1>4. extent[c] > BufferCap =>
        asked[c] > BufferCap /\ extent[c] <= Larger(asked[c], BufferCap + 1)
  BY DEF StaysInBuffer
<1>5. Larger(extent[c], n) > BufferCap =>
        /\ asked[c] > BufferCap
        /\ Larger(extent[c], n) <= Larger(asked[c], BufferCap + 1)
  <2> DEFINE x == extent[c]  a == asked[c]  b == BufferCap
  <2>1. /\ x \in Nat /\ a \in Nat /\ b \in Nat /\ (n <= a \/ n <= b)
        /\ x > b => a > b /\ x <= Larger(a, b + 1)
    BY <1>1, <1>4
  <2> HIDE DEF x, a, b
  <2>2. Larger(x, n) > b => a > b /\ Larger(x, n) <= Larger(a, b + 1)
    BY <2>1 DEF Larger
  <2> QED
    BY <2>2 DEF x, a, b
<1> QED
  BY <1>3, <1>5 DEF StaysInBuffer

(* A send of n octets adds n to both counts, whoever gets them: another     *)
(* than the client's own server only when both have one descriptor.         *)
LEMMA SendSteps ==
  ASSUME ClientAssumption, ClientInv, NEW c \in Clients, state[c] = "Transmit",
         NEW other \in Clients, fd[c] # NoSocket, fd[other] = fd[c],
         NEW n \in 1 .. length[c],
         peer' = [peer EXCEPT ![other].got = @ + n], AfterSend(c, n),
         Touches(c, asked[c] - (length[c] - n)),
         UNCHANGED <<task, asked, fd, open>>
  PROVE  ClientInv'
<1>1. /\ length[c] \in Nat /\ asked[c] \in Nat /\ length[c] <= asked[c]
      /\ n \in Nat /\ 1 <= n /\ n <= length[c]
      /\ length[c] - n \in Nat /\ length[c] - n <= asked[c]
      /\ asked[c] - (length[c] - n) \in Nat
      /\ asked[c] - (length[c] - n) <= asked[c]
  BY NumbersOf DEF ClientInv
<1>2. /\ length' = [length EXCEPT ![c] = length[c] - n]
      /\ \/ /\ length[c] - n = 0
            /\ state' = [state EXCEPT ![c] = "Receive"]
            /\ filled' = [filled EXCEPT ![c] = 0]
         \/ UNCHANGED <<state, filled>>
  BY <1>1 DEF AfterSend
<1>3. peer[other].got \in Nat /\ peer[other].got + n \in Nat
  BY <1>1, NumbersOf DEF ClientInv
<1>4. peer' \in [Clients -> [got : Nat, left : Nat, closed : BOOLEAN]]
  BY <1>3 DEF ClientInv, ClientTypeOK
<1>5. /\ extent' \in [Clients -> Nat] /\ StaysInBuffer(c)'
      /\ \A d \in Clients \ {c} : extent'[d] = extent[d]
  <2> DEFINE m == asked[c] - (length[c] - n)
  <2>1. m \in Nat /\ m <= asked[c] /\ Touches(c, m)
    BY <1>1
  <2> HIDE DEF m
  <2> QED
    BY <2>1, BoundOfTouch DEF ClientInv
<1>6. /\ length'[c] = length[c] - n /\ \A d \in Clients \ {c} : length'[d] = length[d]
      /\ \A d \in Clients \ {c} : state'[d] = state[d] /\ filled'[d] = filled[d]
      /\ state'[c] \in {"Transmit", "Receive"}
      /\ state'[c] = "Receive" => length[c] - n = 0
  BY <1>2 DEF ClientInv, ClientTypeOK
<1>7. ClientTypeOK'
  <2>1. length' \in [Clients -> Nat] /\ \A d \in Clients : length'[d] <= asked[d]
    BY <1>1, <1>2, <1>6 DEF ClientInv, ClientTypeOK
  <2>2. filled' \in [Clients -> 0 .. BufferCap]
    <3>1. 0 \in 0 .. BufferCap
      BY ConstantFacts
    <3> QED
      BY <1>2, <3>1 DEF ClientInv, ClientTypeOK
  <2>3. state' \in [Clients -> {"none", "Connect", "Transmit", "Receive",
                                "Close", "freed"}]
    BY <1>2 DEF ClientInv, ClientTypeOK
  <2> QED
    BY <1>4, <1>5, <2>1, <2>2, <2>3 DEF ClientInv, ClientTypeOK
<1>8. Connected' /\ AllSent'
  BY <1>6 DEF ClientInv, Connected, AllSent
<1>9. ASSUME NEW d \in Clients
      PROVE  StaysInBuffer(d)'
  <2>1. CASE d = c
    BY <1>5, <2>1
  <2>2. CASE d # c
    BY <1>5, <1>6, <2>2, BoundKept DEF ClientInv
  <2> QED
    BY <2>1, <2>2
<1>10. /\ Got \in [Clients -> Int] /\ Sent \in [Clients -> Int]
       /\ Got' \in [Clients -> Int] /\ Sent' \in [Clients -> Int]
  <2>1. Got \in [Clients -> Int] /\ Sent \in [Clients -> Int]
    BY SumsAreTyped DEF ClientInv
  <2>2. \A d \in Clients : peer'[d].got \in Int /\ length'[d] \in Int /\ asked[d] \in Int
    BY <1>4, <1>7, NumbersOf DEF ClientTypeOK, ClientInv
  <2>3. \A d \in Clients : asked[d] - length'[d] \in Int
    BY <2>2
  <2> QED
    BY <2>1, <2>2, <2>3 DEF Got, Sent
<1>11. Got'[other] = Got[other] + n /\ \A d \in Clients \ {other} : Got'[d] = Got[d]
  BY DEF Got, ClientInv, ClientTypeOK
<1>12. Sent'[c] = Sent[c] + n /\ \A d \in Clients \ {c} : Sent'[d] = Sent[d]
  <2>1. asked[c] - (length[c] - n) = asked[c] - length[c] + n
    BY <1>1
  <2>2. Sent'[c] = asked[c] - (length[c] - n) /\ Sent[c] = asked[c] - length[c]
    BY <1>6 DEF Sent
  <2>3. \A d \in Clients \ {c} : Sent'[d] = Sent[d]
    BY <1>6 DEF Sent
  <2> QED
    BY <2>1, <2>2, <2>3
<1>13. ASSUME NEW d \in Clients, ~Shares(d)'
       PROVE  Got'[d] = Sent'[d]
  <2>1. ~Shares(d)
    BY <1>13 DEF Shares
  <2>2. Got[d] = Sent[d]
    BY <2>1 DEF ClientInv, Counted
  <2>3. CASE other = c
    <3>1. d = c \/ (d # c /\ Got'[d] = Got[d] /\ Sent'[d] = Sent[d])
      BY <1>11, <1>12, <2>3
    <3> QED
      BY <1>11, <1>12, <2>2, <2>3, <3>1
  <2>4. CASE other # c
    <3>1. d # c /\ d # other
      BY <2>1, <2>4 DEF Shares
    <3> QED
      BY <1>11, <1>12, <2>2, <3>1
  <2> QED
    BY <2>3, <2>4
<1>14. Total(Got') = Total(Got) + n /\ Total(Sent') = Total(Sent) + n
  <2> DEFINE f == Got  f1 == Got'  g == Sent  g1 == Sent'
  <2>1. /\ f \in [Clients -> Int] /\ f1 \in [Clients -> Int]
        /\ g \in [Clients -> Int] /\ g1 \in [Clients -> Int]
        /\ f1[other] = f[other] + n /\ \A d \in Clients \ {other} : f1[d] = f[d]
        /\ g1[c] = g[c] + n /\ \A d \in Clients \ {c} : g1[d] = g[d]
        /\ n \in Int
    BY <1>1, <1>10, <1>11, <1>12
  <2> HIDE DEF f, f1, g, g1
  <2>2. Total(f1) = Total(f) + n
    BY <2>1, TotalGrows, ConstantFacts
  <2>3. Total(g1) = Total(g) + n
    BY <2>1, TotalGrows, ConstantFacts
  <2> QED
    BY <2>2, <2>3 DEF f, f1, g, g1
<1>15. Total(Got)' = Total(Sent)'
  BY <1>14 DEF ClientInv, Counted
<1>16. Counted'
  BY <1>13, <1>15 DEF Counted
<1> QED
  BY <1>7, <1>8, <1>9, <1>16 DEF ClientInv

(* The case Transmit sends a part, or nothing.                              *)
LEMMA TransmitSteps ==
  ASSUME ClientAssumption, ClientInv, NEW c \in Clients, Transmit(c)
  PROVE  ClientInv'
<1>1. CASE UNCHANGED <<peer, length, state, filled, extent>>
  <2>1. UNCHANGED <<state, task, asked, length, filled, extent, fd, open, peer>>
    BY <1>1 DEF Transmit
  <2>2. Counted'
    BY <2>1, SilentSteps DEF ClientInv, Got, Sent
  <2>3. \A d \in Clients : StaysInBuffer(d)'
    BY <2>1, BoundKept DEF ClientInv
  <2> QED
    BY <2>1, <2>2, <2>3 DEF ClientInv, ClientTypeOK, Connected, AllSent
<1>2. CASE \E n \in 1 .. length[c] :
             /\ peer' = [peer EXCEPT ![Reaches(c)].got = @ + n]
             /\ AfterSend(c, n)
             /\ Touches(c, asked[c] - (length[c] - n))
             /\ Reaches(c) # NULL
  <2>1. /\ Reaches(c) \in Clients
        /\ fd[c] # NoSocket /\ fd[Reaches(c)] = fd[c]
    BY <1>2, ReachesAClient DEF ClientInv
  <2> QED
    BY <1>2, <2>1, SendSteps DEF Transmit
<1> QED
  BY <1>1, <1>2 DEF Transmit

(* A part of the answer fits in what is left of the buffer.                 *)
LEMMA ReceiveSteps ==
  ASSUME ClientAssumption, ClientInv, NEW c \in Clients, ReceivePart(c)
  PROVE  ClientInv'
<1> DEFINE other == Reaches(c)
<1>1. other \in Clients /\ state[c] = "Receive"
  BY ReachesAClient DEF ReceivePart, ClientInv
<1>2. PICK n \in 1 .. Room(c) :
        /\ n <= peer[other].left
        /\ peer' = [peer EXCEPT ![other].left = @ - n]
        /\ filled' = [filled EXCEPT ![c] = @ + n]
        /\ Touches(c, filled[c] + n)
  BY DEF ReceivePart
<1>3. UNCHANGED <<task, asked, state, length, fd, open>>
  BY DEF ReceivePart
<1> HIDE DEF other
<1>4. filled[c] \in Nat /\ filled[c] <= BufferCap /\ BufferCap \in Nat
  BY NumbersOf DEF ClientInv
<1>5. /\ filled[c] + n \in 0 .. BufferCap /\ n \in Nat
      /\ filled[c] + n \in Nat /\ filled[c] + n <= BufferCap
  BY <1>4 DEF Room
<1>6. peer[other].left \in Nat /\ peer[other].left - n \in Nat
  <2>1. peer[other].left \in Nat
    BY <1>1, NumbersOf DEF ClientInv
  <2> QED
    BY <1>2, <1>5, <2>1
<1>7. peer' \in [Clients -> [got : Nat, left : Nat, closed : BOOLEAN]]
  BY <1>1, <1>2, <1>6 DEF ClientInv, ClientTypeOK
<1>8. /\ extent' \in [Clients -> Nat] /\ StaysInBuffer(c)'
      /\ \A d \in Clients \ {c} : extent'[d] = extent[d]
  <2> DEFINE m == filled[c] + n
  <2>1. m \in Nat /\ m <= BufferCap /\ Touches(c, m)
    BY <1>2, <1>5
  <2> HIDE DEF m
  <2> QED
    BY <1>1, <1>3, <2>1, BoundOfTouch DEF ClientInv
<1>9. ClientTypeOK'
  BY <1>2, <1>3, <1>5, <1>7, <1>8 DEF ClientInv, ClientTypeOK
<1>10. Got' = Got /\ Sent' = Sent
  <2>1. \A d \in Clients : peer'[d].got = peer[d].got
    BY <1>2 DEF ClientInv, ClientTypeOK
  <2> QED
    BY <1>3, <2>1 DEF Got, Sent
<1>11. Counted'
  BY <1>3, <1>10, SilentSteps DEF ClientInv
<1>12. ASSUME NEW d \in Clients
       PROVE  StaysInBuffer(d)'
  <2>1. CASE d = c
    BY <1>8, <2>1
  <2>2. CASE d # c
    <3>1. filled'[d] = filled[d]
      BY <1>2, <2>2 DEF ClientInv, ClientTypeOK
    <3> QED
      BY <1>3, <1>8, <2>2, <3>1, BoundKept DEF ClientInv
  <2> QED
    BY <2>1, <2>2
<1> QED
  BY <1>3, <1>9, <1>11, <1>12 DEF ClientInv, Connected, AllSent

(* The end of an answer.  Its NUL is the one octet behind a full buffer.    *)
LEMMA EndSteps ==
  ASSUME ClientAssumption, ClientInv, NEW c \in Clients, ReceiveEnd(c)
  PROVE  ClientInv'
<1>1. /\ UNCHANGED <<task, asked, length, filled, fd, open, peer>>
      /\ state[c] = "Receive" /\ state' = [state EXCEPT ![c] = "Close"]
      /\ Touches(c, filled[c] + 1) \/ UNCHANGED extent
  BY DEF ReceiveEnd, ReturnsZero, ReturnsError
<1>2. /\ extent[c] \in Nat /\ BufferCap \in Nat /\ asked[c] \in Nat
      /\ filled[c] \in Nat /\ filled[c] <= BufferCap /\ filled[c] + 1 \in Nat
  BY NumbersOf DEF ClientInv
<1>3. state'[c] = "Close" /\ \A d \in Clients \ {c} : state'[d] = state[d]
  BY <1>1 DEF ClientInv, ClientTypeOK
<1>4. /\ extent' \in [Clients -> Nat] /\ StaysInBuffer(c)'
      /\ \A d \in Clients \ {c} : extent'[d] = extent[d]
  <2>1. extent[c] > BufferCap =>
          asked[c] > BufferCap /\ extent[c] <= Larger(asked[c], BufferCap + 1)
    BY <1>1 DEF ClientInv, StaysInBuffer
  <2>2. CASE UNCHANGED extent
    BY <1>1, <2>1, <2>2 DEF ClientInv, ClientTypeOK, StaysInBuffer
  <2>3. CASE Touches(c, filled[c] + 1)
    <3>1. Larger(extent[c], filled[c] + 1) \in Nat
      BY <1>2 DEF Larger
    <3>2. /\ extent' \in [Clients -> Nat]
          /\ extent'[c] = Larger(extent[c], filled[c] + 1)
          /\ \A d \in Clients \ {c} : extent'[d] = extent[d]
      BY <2>3, <3>1 DEF Touches, ClientInv, ClientTypeOK
    <3>3. Larger(extent[c], filled[c] + 1) > BufferCap =>
            \/ /\ asked[c] > BufferCap
               /\ Larger(extent[c], filled[c] + 1) <= Larger(asked[c], BufferCap + 1)
            \/ /\ filled[c] = BufferCap
               /\ Larger(extent[c], filled[c] + 1) = BufferCap + 1
      <4> DEFINE x == extent[c]  a == asked[c]  b == BufferCap  f == filled[c]
      <4>1. /\ x \in Nat /\ a \in Nat /\ b \in Nat /\ f \in Nat /\ f <= b
            /\ x > b => a > b /\ x <= Larger(a, b + 1)
        BY <1>2, <2>1
      <4> HIDE DEF x, a, b, f
      <4>2. Larger(x, f + 1) > b =>
              \/ a > b /\ Larger(x, f + 1) <= Larger(a, b + 1)
              \/ f = b /\ Larger(x, f + 1) = b + 1
        BY <4>1 DEF Larger
      <4> QED
        BY <4>2 DEF x, a, b, f
    <3> QED
      BY <1>1, <1>3, <3>2, <3>3 DEF StaysInBuffer
  <2> QED
    BY <1>1, <2>2, <2>3
<1>5. ClientTypeOK'
  BY <1>1, <1>4 DEF ClientInv, ClientTypeOK
<1>6. Counted'
  BY <1>1, SilentSteps DEF ClientInv, Got, Sent
<1>7. Connected' /\ AllSent'
  BY <1>1, <1>3 DEF ClientInv, Connected, AllSent
<1>8. ASSUME NEW d \in Clients
      PROVE  StaysInBuffer(d)'
  <2>1. CASE d = c
    BY <1>4, <2>1
  <2>2. CASE d # c
    BY <1>1, <1>3, <1>4, <2>2, BoundKept DEF ClientInv
  <2> QED
    BY <2>1, <2>2
<1> QED
  BY <1>5, <1>6, <1>7, <1>8 DEF ClientInv

(* A close frees a descriptor, whoever has it.                              *)
LEMMA CloseSteps ==
  ASSUME ClientAssumption, ClientInv, NEW c \in Clients, Close(c)
  PROVE  ClientInv'
<1>1. /\ UNCHANGED <<task, state, asked, length, filled, extent, fd, peer>>
      /\ open' = [open EXCEPT ![fd[c]] = NULL]
  BY DEF Close
<1>2. open' \in [Descriptors -> Clients \cup {NULL}]
      /\ \A d \in Descriptors : open'[d] # NULL => open'[d] = open[d]
  BY <1>1 DEF ClientInv, ClientTypeOK
<1>3. ClientTypeOK' /\ Connected' /\ AllSent'
  BY <1>1, <1>2 DEF ClientInv, ClientTypeOK, Connected, AllSent
<1>4. Counted'
  BY <1>1, SilentSteps DEF ClientInv, Got, Sent
<1>5. \A d \in Clients : StaysInBuffer(d)'
  BY <1>1, BoundKept DEF ClientInv
<1> QED
  BY <1>3, <1>4, <1>5 DEF ClientInv

(* The sweep, and a server that closes, send nothing.                       *)
LEMMA OtherSteps ==
  ASSUME ClientAssumption, ClientInv,
         \/ UNCHANGED clientVars
         \/ \E c \in Clients : PeerCloses(c)
  PROVE  ClientInv'
<1>1. /\ UNCHANGED <<state, task, asked, length, filled, extent, fd, open>>
      /\ \/ peer' = peer
         \/ \E c \in Clients : peer' = [peer EXCEPT ![c].closed = TRUE]
  BY DEF clientVars, PeerCloses
<1>2. ClientTypeOK'
  <2>1. peer' \in [Clients -> [got : Nat, left : Nat, closed : BOOLEAN]]
    <3>1. CASE peer' = peer
      BY <3>1 DEF ClientInv, ClientTypeOK
    <3>2. ASSUME NEW c \in Clients, peer' = [peer EXCEPT ![c].closed = TRUE]
          PROVE  peer' \in [Clients -> [got : Nat, left : Nat, closed : BOOLEAN]]
      BY <3>2 DEF ClientInv, ClientTypeOK
    <3> QED
      BY <1>1, <3>1, <3>2
  <2> QED
    BY <1>1, <2>1 DEF ClientInv, ClientTypeOK
<1>3. Got' = Got /\ Sent' = Sent
  <2>1. \A d \in Clients : peer'[d].got = peer[d].got
    BY <1>1 DEF ClientInv, ClientTypeOK
  <2> QED
    BY <1>1, <2>1 DEF Got, Sent
<1>4. Counted'
  BY <1>1, <1>3, SilentSteps DEF ClientInv
<1>5. \A d \in Clients : StaysInBuffer(d)'
  BY <1>1, BoundKept DEF ClientInv
<1> QED
  BY <1>1, <1>2, <1>4, <1>5 DEF ClientInv, Connected, AllSent

-----------------------------------------------------------------------------
(* The inductive invariant.                                                 *)
LEMMA ClientInvariant ==
  ASSUME ClientAssumption
  PROVE  ClientSpec => []ClientInv
<1>1. ClientInit => ClientInv
  BY InitClient
<1>2. ClientInv /\ [ClientNext]_allVars => ClientInv'
  <2> SUFFICES ASSUME ClientInv, [ClientNext]_allVars
               PROVE  ClientInv'
    OBVIOUS
  <2>1. CASE UNCHANGED allVars \/ BeginSweep \/ Skip
    BY <2>1, OtherSteps DEF allVars, BeginSweep, Skip
  <2>2. ASSUME NEW c \in Clients,
               HTTPClient_GET(c) \/ HTTPClient_Dispose(c) \/ PeerCloses(c)
        PROVE  ClientInv'
    BY <2>2, GETSteps, DisposeSteps, OtherSteps
  <2>3. ASSUME NEW c \in Clients, HTTPClient_Work(c)
        PROVE  ClientInv'
    BY <2>3, ConnectSteps, TransmitSteps, ReceiveSteps, EndSteps, CloseSteps
       DEF HTTPClient_Work
  <2> QED
    BY <2>1, <2>2, <2>3 DEF ClientNext, Process
<1> QED
  BY <1>1, <1>2, PTL DEF ClientSpec

(* However a request is cut by send and whatever its length, the server of  *)
(* a client that never shared its descriptor has got exactly the octets     *)
(* that the client has counted off, all the servers together those of all   *)
(* the clients, and a client that reads its answer has none left; the       *)
(* buffer is left by nothing but a request that does not fit in it and the  *)
(* NUL behind an answer that fills it.                                      *)
THEOREM RequestsSentOnce ==
  ASSUME ClientAssumption
  PROVE  ClientSpec => []RequestsAreSentOnce
<1>1. ClientInv => RequestsAreSentOnce
  BY DEF ClientInv, RequestsAreSentOnce, Counted, AllSent
<1> QED
  BY <1>1, ClientInvariant, PTL

=============================================================================
