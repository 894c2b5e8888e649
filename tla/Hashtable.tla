------------------------------ MODULE Hashtable ------------------------------
(***************************************************************************)
(* The hash table under every JSON object: hashtable.c of jansson.          *)
(*                                                                          *)
(* All entries stand in one ring; a bucket is a stretch of it, from first   *)
(* to last, and an empty bucket points to the head of the ring.  A second   *)
(* ring keeps the order of insertion.  An entry is the node of its key, and *)
(* HEAD the head of either ring.  A node that is free points to itself.     *)
(***************************************************************************)
EXTENDS Pointers, Integers, Sequences, FiniteSets, Functions

CONSTANTS
  Keys, Values,
  INITIAL_HASHTABLE_ORDER,
  MaxHash,    \* the hash of a key is a number up to this
  HEAD

HashtableAssumption ==
  /\ INITIAL_HASHTABLE_ORDER \in Nat
  /\ MaxHash \in Nat
  /\ IsFiniteSet(Keys)
  /\ HEAD \notin Keys
  /\ NULL \notin Keys \cup Values

VARIABLES
  hash,     \* of each key: what hashtable_seed made of it
  t,        \* the hashtable_t
  iter,     \* the entry an iteration stands at, HEAD when there is none
  seen,     \* the keys it has visited
  lasting   \* the keys that have been there since it began

tableVars == <<hash, t, iter, seen, lasting>>

ListNodes == Keys \cup {HEAD}

(* As long as it fits in a uint32_t: below 2^32 entries.                    *)
hashsize[order \in Nat] == IF order = 0 THEN 1 ELSE 2 * hashsize[order - 1]

Buckets(order) == 0 .. hashsize[order] - 1

EmptyRing ==
  [next |-> [n \in ListNodes |-> n], prev |-> [n \in ListNodes |-> n]]

(* In front of the node list.                                               *)
list_insert(ring, list, n) ==
  [next |-> [ring.next EXCEPT ![n] = list, ![ring.prev[list]] = n],
   prev |-> [ring.prev EXCEPT ![n] = ring.prev[list], ![list] = n]]

list_remove(ring, n) ==
  [next |-> [ring.next EXCEPT ![ring.prev[n]] = ring.next[n], ![n] = n],
   prev |-> [ring.prev EXCEPT ![ring.next[n]] = ring.prev[n], ![n] = n]]

(* No ring holds more entries than there are keys.                          *)
Passes == Cardinality(Keys)

(* The entries of a ring, from its head to its head.                        *)
Walk(ring) ==
  LET at[j \in Nat] == IF j = 0 THEN ring.next[HEAD]
                       ELSE IF at[j - 1] = HEAD THEN HEAD
                       ELSE ring.next[at[j - 1]]
      size == Cardinality({j \in 1 .. Passes : at[j - 1] # HEAD})
  IN [i \in 1 .. size |-> at[i - 1]]

-----------------------------------------------------------------------------
NoBuckets(order) == [i \in Buckets(order) |-> [first |-> HEAD, last |-> HEAD]]

NewTable(order) ==
  [size |-> 0, order |-> order, buckets |-> NoBuckets(order),
   list |-> EmptyRing, ordered_list |-> EmptyRing,
   value |-> [k \in Keys |-> NULL]]

bucket_is_empty(b) == b.first = HEAD /\ b.first = b.last

BucketOf(table, k) == hash[k] % hashsize[table.order]

(* The bucket of an entry grows at its front.                               *)
insert_to_bucket(table, k) ==
  LET i == BucketOf(table, k)
      b == table.buckets[i]
  IN IF bucket_is_empty(b)
       THEN [table EXCEPT !.list = list_insert(@, HEAD, k),
                          !.buckets[i] = [first |-> k, last |-> k]]
       ELSE [table EXCEPT !.list = list_insert(@, b.first, k),
                          !.buckets[i].first = k]

(* From first to last; the search does not know where the bucket ends       *)
(* otherwise.                                                               *)
hashtable_find_pair(table, k) ==
  LET b == table.buckets[BucketOf(table, k)]
      at[j \in Nat] == IF j = 0 THEN b.first
                       ELSE IF at[j - 1] \in {k, b.last} THEN at[j - 1]
                       ELSE table.list.next[at[j - 1]]
  IN IF ~bucket_is_empty(b) /\ at[Passes] = k THEN k ELSE NULL

BucketWithout(b, k, list) ==
  IF k = b.first /\ k = b.last THEN [first |-> HEAD, last |-> HEAD]
  ELSE IF k = b.first THEN [b EXCEPT !.first = list.next[k]]
  ELSE IF k = b.last THEN [b EXCEPT !.last = list.prev[k]]
  ELSE b

hashtable_do_del(table, k) ==
  [table EXCEPT !.buckets[BucketOf(table, k)] = BucketWithout(@, k, table.list),
                !.list = list_remove(@, k),
                !.ordered_list = list_remove(@, k),
                !.value[k] = NULL,
                !.size = @ - 1]

(* The walk over the old ring and the building of the new one share their   *)
(* nodes: next is read before the node moves.                               *)
MoveNext(m) ==
  IF m.at = HEAD THEN m
  ELSE [table |-> insert_to_bucket(m.table, m.at),
        at    |-> m.table.list.next[m.at]]

hashtable_do_rehash(table) ==
  LET order == table.order + 1
      head  == [table EXCEPT !.order = order, !.buckets = NoBuckets(order),
                             !.list.next[HEAD] = HEAD, !.list.prev[HEAD] = HEAD]
      moved[j \in Nat] ==
        IF j = 0 THEN [table |-> head, at |-> table.list.next[HEAD]]
        ELSE MoveNext(moved[j - 1])
  IN moved[Passes].table

(* The load may not exceed 1: before a key is even looked for.              *)
MustGrow(table) == table.size >= hashsize[table.order]

Roomy(table) == IF MustGrow(table) THEN hashtable_do_rehash(table) ELSE table

(* Mutant: the newest entry comes first.                                    *)
AddPair_First(table, k, v) ==
  LET filed == insert_to_bucket(table, k)
  IN [filed EXCEPT !.ordered_list = list_insert(@, @.next[HEAD], k),
                   !.value[k] = v,
                   !.size = @ + 1]

AddPair(table, k, v) ==
  LET filed == insert_to_bucket(table, k)
  IN [filed EXCEPT !.ordered_list = list_insert(@, HEAD, k),
                   !.value[k] = v,
                   !.size = @ + 1]

Has(table, k) == hashtable_find_pair(table, k) # NULL

-----------------------------------------------------------------------------
hashtable_set(k, v) ==
  LET table == Roomy(t)
  IN /\ t' = IF Has(table, k) THEN [table EXCEPT !.value[k] = v]
                              ELSE AddPair(table, k, v)
     /\ UNCHANGED <<hash, iter, seen, lasting>>

(* No memory for the buckets, or none for the new pair: the second leaves   *)
(* the table grown.                                                         *)
hashtable_set_fails(k) ==
  /\ \/ /\ MustGrow(t)
        /\ t' = t
     \/ /\ ~Has(Roomy(t), k)
        /\ t' = Roomy(t)
  /\ UNCHANGED <<hash, iter, seen, lasting>>

(* Whoever iterates does not remove the entry the iteration stands at.      *)
hashtable_del(k) ==
  /\ iter # k
  /\ Has(t, k)
  /\ t' = hashtable_do_del(t, k)
  /\ lasting' = lasting \ {k}
  /\ UNCHANGED <<hash, iter, seen>>

hashtable_clear ==
  /\ iter = HEAD
  /\ t' = NewTable(t.order)
  /\ UNCHANGED <<hash, iter, seen, lasting>>

(* The object is freed, and another one is made.                            *)
hashtable_close ==
  /\ iter = HEAD
  /\ t' = NewTable(INITIAL_HASHTABLE_ORDER)
  /\ UNCHANGED <<hash, iter, seen, lasting>>

StandAt(n, there) ==
  /\ iter' = n
  /\ seen' = IF n = HEAD THEN {} ELSE seen \cup {n}
  /\ lasting' = IF n = HEAD THEN {} ELSE there
  /\ UNCHANGED <<hash, t>>

hashtable_iter ==
  /\ iter = HEAD
  /\ StandAt(t.ordered_list.next[HEAD], Range(Walk(t.ordered_list)))

(* Mutant: the iteration follows the ring of the buckets.                   *)
hashtable_iter_next_InRing ==
  /\ iter # HEAD
  /\ StandAt(t.list.next[iter], lasting)

hashtable_iter_next ==
  /\ iter # HEAD
  /\ StandAt(t.ordered_list.next[iter], lasting)

hashtable_iter_set(v) ==
  /\ iter # HEAD
  /\ t' = [t EXCEPT !.value[iter] = v]
  /\ UNCHANGED <<hash, iter, seen, lasting>>

TableInit ==
  /\ hash \in [Keys -> 0 .. MaxHash]
  /\ t = NewTable(INITIAL_HASHTABLE_ORDER)
  /\ iter = HEAD
  /\ seen = {}
  /\ lasting = {}

TableNext ==
  \/ \E k \in Keys, v \in Values : hashtable_set(k, v)
  \/ \E k \in Keys : hashtable_set_fails(k)
  \/ \E k \in Keys : hashtable_del(k)
  \/ hashtable_clear
  \/ hashtable_close
  \/ hashtable_iter
  \/ hashtable_iter_next
  \/ \E v \in Values : hashtable_iter_set(v)

TableSpec == TableInit /\ [][TableNext]_tableVars

-----------------------------------------------------------------------------
(* Types.                                                                   *)
TableTypeOK ==
  /\ hash \in [Keys -> 0 .. MaxHash]
  /\ t.size \in Nat
  /\ t.order \in Nat
  /\ t.buckets \in [Buckets(t.order) -> [first : ListNodes, last : ListNodes]]
  /\ t.list \in [next : [ListNodes -> ListNodes], prev : [ListNodes -> ListNodes]]
  /\ t.ordered_list \in [next : [ListNodes -> ListNodes], prev : [ListNodes -> ListNodes]]
  /\ t.value \in [Keys -> Values \cup {NULL}]
  /\ iter \in ListNodes
  /\ seen \subseteq Keys
  /\ lasting \subseteq Keys

Stored == {k \in Keys : t.value[k] # NULL}

Position(k) == CHOOSE i \in DOMAIN Walk(t.list) : Walk(t.list)[i] = k

(***************************************************************************)
(* The buckets cut the ring into stretches: a bucket that is not empty      *)
(* begins and ends at entries of its own, everything in between is its own, *)
(* and an entry of no bucket is nowhere in the ring.  The load is at most 1.*)
(***************************************************************************)
BucketsPartition ==
  /\ Range(Walk(t.list)) = Stored
  /\ Len(Walk(t.list)) = t.size
  /\ t.size <= hashsize[t.order]
  /\ \A n \in ListNodes : t.list.prev[t.list.next[n]] = n
  /\ \A i \in DOMAIN t.buckets :
       LET b    == t.buckets[i]
           mine == {k \in Stored : BucketOf(t, k) = i}
       IN IF mine = {} THEN bucket_is_empty(b)
          ELSE /\ {b.first, b.last} \subseteq mine
               /\ {Position(k) : k \in mine} = Position(b.first) .. Position(b.last)

(* Every key is found when it is stored and only then, through any number   *)
(* of insertions, deletions, growths and failures.                          *)
FindsWhatIsStored ==
  \A k \in Keys : hashtable_find_pair(t, k) = IF k \in Stored THEN k ELSE NULL

(* An iteration that reaches its end has visited every entry that was there *)
(* all the time, and it visits none of them twice, also when the table is   *)
(* rebuilt under it (json_object_set of other keys in a foreach).           *)
IterationIsComplete ==
  [][iter # HEAD /\ iter' # iter =>
       /\ iter' = HEAD => lasting \subseteq seen
       /\ iter' \notin lasting \cap seen]_tableVars

(* The pairs of the table, in the order of the insertions.                  *)
Entries ==
  [i \in DOMAIN Walk(t.ordered_list) |->
     LET k == Walk(t.ordered_list)[i] IN <<k, t.value[k]>>]

(* The table is an ordered map: growth and failure are not seen from        *)
(* outside, a replaced value keeps its place.                               *)
Map == INSTANCE OrderedMap WITH entries <- Entries

ImplementsMap == Map!MapSpec

=============================================================================
