----------------------------- MODULE LinkedList -----------------------------
(***************************************************************************)
(* glenns_metro/libs/utils/LinkedList.c: a doubly linked list of nodes on   *)
(* the heap, with a head, a tail that is NULL as long as there are fewer    *)
(* than two nodes, and a length.  Every public function is an operator from *)
(* list to list, and an action.  It keeps the cities of the server.         *)
(*                                                                          *)
(* Indices are not negative, as in every call of the repository.            *)
(***************************************************************************)
EXTENDS Pointers, Integers, FiniteSets, Functions

CONSTANTS
  Nodes,      \* the addresses that malloc may return
  Items,      \* the pointers that are stored
  HeadInserts \* whether callers use InsertBefore on the first of several nodes

ListAssumption ==
  /\ NULL \notin Nodes \cup Items
  /\ IsFiniteSet(Nodes)
  /\ HeadInserts \in BOOLEAN

VARIABLES
  list,   \* the LinkedList and the heap: head, tail, length, cell
  result, \* the pointer that the last call returned
  call    \* the last call and its arguments

vars == <<list, result, call>>

Free == [item |-> NULL, prev |-> NULL, next |-> NULL]

Used(L) == {n \in Nodes : L.cell[n] # Free}

(* malloc: any free address, or NULL.                                       *)
Malloc(L) == (Nodes \ Used(L)) \cup {NULL}

LinkedList_Create(x) == [item |-> x, prev |-> NULL, next |-> NULL]

(* LinkedList_Initialize.                                                   *)
Empty ==
  [head |-> NULL, tail |-> NULL, length |-> 0, cell |-> [n \in Nodes |-> Free]]

(* The node that i steps along next lead to.                                *)
NodeAt(L, i) ==
  LET at[k \in 0 .. i] == IF k = 0 THEN L.head ELSE L.cell[at[k - 1]].next
  IN at[i]

LinkedList_IndexOf(L, x) ==
  LET places == {i \in 0 .. L.length - 1 : L.cell[NodeAt(L, i)].item = x}
  IN IF places = {} THEN -1 ELSE CHOOSE i \in places : \A j \in places : i <= j

-----------------------------------------------------------------------------
AddFirst(L, x, n) ==
  IF n = NULL THEN L
  ELSE IF L.head = NULL
    THEN [L EXCEPT !.cell[n] = LinkedList_Create(x), !.head = n,
                   !.length = @ + 1]
    ELSE [L EXCEPT !.cell[n] = [LinkedList_Create(x) EXCEPT !.next = L.head],
                   !.cell[L.head].prev = n,
                   !.head = n,
                   !.tail = IF @ = NULL THEN L.head ELSE @,
                   !.length = @ + 1]

AddLast(L, x, n) ==
  LET last == IF L.tail = NULL THEN L.head ELSE L.tail
  IN IF n = NULL THEN L
     ELSE IF L.head = NULL
       THEN [L EXCEPT !.cell[n] = LinkedList_Create(x), !.head = n,
                      !.length = @ + 1]
       ELSE [L EXCEPT !.cell[n] = [LinkedList_Create(x) EXCEPT !.prev = last],
                      !.cell[last].next = n,
                      !.tail = n,
                      !.length = @ + 1]

(* LinkedList__Internal_InsertBefore and the increment of its callers; in   *)
(* front of the head, the tail becomes the old head, whatever follows it.   *)
InsertBefore(L, ref, x, n) ==
  LET prev == L.cell[ref].prev
      new  == [item |-> x, prev |-> prev, next |-> ref]
  IN IF n = NULL THEN L
     ELSE IF prev = NULL
       THEN [L EXCEPT !.cell[n] = new, !.cell[ref].prev = n,
                      !.head = n, !.tail = ref, !.length = @ + 1]
       ELSE [L EXCEPT !.cell[n] = new, !.cell[ref].prev = n,
                      !.cell[prev].next = n, !.length = @ + 1]

(* Mutant: the walk ends one node early.                                    *)
Add_OneEarly(L, x, i, n) ==
  IF i > L.length THEN L
  ELSE IF i = 0 THEN AddFirst(L, x, n)
  ELSE IF i = L.length THEN AddLast(L, x, n)
  ELSE InsertBefore(L, NodeAt(L, i - 1), x, n)

(* LinkedList_Add, which does not look at what AddFirst and AddLast return. *)
Add(L, x, i, n) ==
  IF i > L.length THEN L
  ELSE IF i = 0 THEN AddFirst(L, x, n)
  ELSE IF i = L.length THEN AddLast(L, x, n)
  ELSE InsertBefore(L, NodeAt(L, i), x, n)

(* Mutant: the tail stays where it is.                                      *)
TailAfter_Kept(length, tail) == tail

(* A list that has become shorter than two has no tail.                     *)
TailAfter(length, tail) == IF length <= 1 THEN NULL ELSE tail

RemoveFirst(L) ==
  LET next   == L.cell[L.head].next
      linked == IF next = NULL THEN L.cell
                               ELSE [L.cell EXCEPT ![next].prev = NULL]
  IN IF L.head = NULL THEN L
     ELSE [head   |-> next,
           tail   |-> TailAfter(L.length - 1, L.tail),
           length |-> L.length - 1,
           cell   |-> [linked EXCEPT ![L.head] = Free]]

RemoveLast(L) ==
  LET prev == L.cell[L.tail].prev
  IN IF L.length <= 1 THEN RemoveFirst(L)
     ELSE [head   |-> L.head,
           tail   |-> TailAfter(L.length - 1, prev),
           length |-> L.length - 1,
           cell   |-> [L.cell EXCEPT ![prev].next = NULL, ![L.tail] = Free]]

Unlink(L, n) ==
  LET node == L.cell[n]
  IN [L EXCEPT !.cell = [@ EXCEPT ![node.prev].next = node.next,
                                  ![node.next].prev = node.prev,
                                  ![n] = Free],
               !.length = @ - 1]

(* LinkedList_RemoveAt.                                                     *)
RemoveAtIndex(L, i) ==
  IF i >= L.length THEN L
  ELSE IF i = 0 THEN RemoveFirst(L)
  ELSE IF i + 1 = L.length THEN RemoveLast(L)
  ELSE Unlink(L, NodeAt(L, i))

Remove(L, x) ==
  LET i == LinkedList_IndexOf(L, x) IN IF i < 0 THEN L ELSE RemoveAtIndex(L, i)

(* LinkedList_Get goes to the tail for the last item.                       *)
Get(L, i) ==
  IF L.length = 0 \/ i >= L.length THEN NULL
  ELSE IF i + 1 = L.length /\ L.length > 1 THEN L.cell[L.tail].item
  ELSE L.cell[NodeAt(L, i)].item

GetLast(L) == IF L.length = 0 THEN NULL ELSE Get(L, L.length - 1)

Clear(L) ==
  LET after[k \in 0 .. L.length] ==
        IF k = 0 THEN L ELSE RemoveFirst(after[k - 1])
  IN after[L.length]

-----------------------------------------------------------------------------
CallIs(f, x, i) == call' = [f |-> f, x |-> x, i |-> i]

Becomes(L) == list' = L /\ UNCHANGED result

Returns(x) == result' = x /\ UNCHANGED list

Indices == 0 .. list.length + 1

LinkedList_AddFirst(x) ==
  /\ CallIs("AddFirst", x, 0)
  /\ \E n \in Malloc(list) : Becomes(AddFirst(list, x, n))

LinkedList_AddLast(x) ==
  /\ CallIs("AddLast", x, 0)
  /\ \E n \in Malloc(list) : Becomes(AddLast(list, x, n))

LinkedList_Add(x, i) ==
  /\ CallIs("Add", x, i)
  /\ \E n \in Malloc(list) : Becomes(Add(list, x, i, n))

(* The node, number i of the list, was found by GetFirstNode, GetLastNode   *)
(* or a walk.                                                               *)
LinkedList_InsertBefore(x, i) ==
  /\ i < list.length
  /\ HeadInserts \/ list.length = 1 \/ i > 0
  /\ CallIs("InsertBefore", x, i)
  /\ \E n \in Malloc(list) : Becomes(InsertBefore(list, NodeAt(list, i), x, n))

LinkedList_Get(i) == CallIs("Get", NULL, i) /\ Returns(Get(list, i))

LinkedList_GetLast == CallIs("GetLast", NULL, 0) /\ Returns(GetLast(list))

LinkedList_Remove(x) ==
  /\ CallIs("Remove", x, 0)
  /\ list' = Remove(list, x)
  /\ result' = IF LinkedList_IndexOf(list, x) < 0 THEN NULL ELSE x

LinkedList_RemoveAt(i) ==
  /\ CallIs("RemoveAt", NULL, i)
  /\ list' = RemoveAtIndex(list, i)
  /\ result' = Get(list, i)

LinkedList_RemoveFirst ==
  /\ CallIs("RemoveFirst", NULL, 0)
  /\ list' = RemoveFirst(list)
  /\ result' = Get(list, 0)

LinkedList_RemoveLast ==
  /\ CallIs("RemoveLast", NULL, 0)
  /\ list' = RemoveLast(list)
  /\ result' = GetLast(list)

(* What is moved is lost when malloc fails after the removal.               *)
LinkedList_MoveToStart(x) ==
  /\ CallIs("MoveToStart", x, 0)
  /\ \E n \in Malloc(Remove(list, x)) :
       Becomes(IF LinkedList_IndexOf(list, x) < 0
                 THEN list ELSE AddFirst(Remove(list, x), x, n))

LinkedList_MoveToEnd(x) ==
  /\ CallIs("MoveToEnd", x, 0)
  /\ \E n \in Malloc(Remove(list, x)) :
       Becomes(IF LinkedList_IndexOf(list, x) < 0
                 THEN list ELSE AddLast(Remove(list, x), x, n))

LinkedList_Clear == CallIs("Clear", NULL, 0) /\ Becomes(Clear(list))

LinkedList_Dispose ==
  /\ CallIs("Dispose", NULL, 0)
  /\ Becomes([Clear(list) EXCEPT !.head = NULL, !.tail = NULL, !.length = 0])

Init ==
  /\ list = Empty
  /\ result = NULL
  /\ call = [f |-> "Initialize", x |-> NULL, i |-> 0]

Next ==
  \/ \E x \in Items :
       \/ LinkedList_AddFirst(x)
       \/ LinkedList_AddLast(x)
       \/ LinkedList_Remove(x)
       \/ LinkedList_MoveToStart(x)
       \/ LinkedList_MoveToEnd(x)
       \/ \E i \in Indices : LinkedList_Add(x, i) \/ LinkedList_InsertBefore(x, i)
  \/ \E i \in Indices : LinkedList_Get(i) \/ LinkedList_RemoveAt(i)
  \/ LinkedList_GetLast
  \/ LinkedList_RemoveFirst
  \/ LinkedList_RemoveLast
  \/ LinkedList_Clear
  \/ LinkedList_Dispose

Spec == Init /\ [][Next]_vars

-----------------------------------------------------------------------------
(* Types.                                                                   *)
TypeOK ==
  /\ list.head \in Nodes \cup {NULL}
  /\ list.tail \in Nodes \cup {NULL}
  /\ list.length \in 0 .. Cardinality(Nodes)
  /\ list.cell \in [Nodes -> [item : Items \cup {NULL},
                              prev : Nodes \cup {NULL},
                              next : Nodes \cup {NULL}]]
  /\ result \in Items \cup {NULL}

(* The nodes in their order.                                                *)
Chain ==
  [i \in 1 .. list.length |-> NodeAt(list, i - 1)]

(***************************************************************************)
(* The two ways through the list agree.  Following next from the head       *)
(* passes every node that is allocated, none of them twice, and length      *)
(* counts them; prev leads back the same way; the tail is the last of at    *)
(* least two and NULL otherwise.  No call leaks a node or keeps a pointer   *)
(* to a freed one.                                                          *)
(***************************************************************************)
WellLinked ==
  /\ Cardinality(Used(list)) = list.length
  /\ IsInjective(Chain)
  /\ \A i \in 1 .. list.length :
       /\ Chain[i] \in Used(list)
       /\ list.cell[Chain[i]].prev = IF i = 1 THEN NULL ELSE Chain[i - 1]
       /\ list.cell[Chain[i]].next = IF i = list.length THEN NULL ELSE Chain[i + 1]
  /\ list.head = NULL <=> list.length = 0
  /\ list.tail = IF list.length <= 1 THEN NULL ELSE Chain[list.length]

(* The nodes and pointers implement a sequence: every call has on it the    *)
(* effect, and returns of it the item, that the same call on a sequence     *)
(* would.                                                                   *)
Sequence ==
  INSTANCE ItemList WITH
    items <- [i \in 1 .. list.length |-> list.cell[NodeAt(list, i - 1)].item],
    ret   <- result

ImplementsSequence == Sequence!ListSpec

=============================================================================
