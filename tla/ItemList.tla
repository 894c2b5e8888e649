------------------------------ MODULE ItemList ------------------------------
(***************************************************************************)
(* What LinkedList.h promises: a sequence of items, and for every call its  *)
(* effect on the sequence and its result.  Module LinkedList, with its      *)
(* nodes and pointers, is checked to implement it.                          *)
(***************************************************************************)
EXTENDS Integers, Sequences, SequencesExt

CONSTANTS Items, NULL

VARIABLES
  items,  \* the sequence
  ret,    \* the item that the last call returned, or NULL
  call    \* the last call: [f : its name, x : an item or NULL, i : an index]

lvars == <<items, ret, call>>

FirstOf(x) == SelectInSeq(items, LAMBDA y : y = x)

(* Indices of the calls begin at 0.                                         *)
Places == 0 .. Len(items) - 1

Item(i) == IF i \in Places THEN items[i + 1] ELSE NULL

Without(i) == IF i \in Places THEN RemoveAt(items, i + 1) ELSE items

Takes(i) == items' = Without(i) /\ ret' = Item(i)

(* A node that malloc has no room for is silently left out.                 *)
Adds(i, x) ==
  /\ items' \in {items, InsertAt(items, i + 1, x)}
  /\ UNCHANGED ret

Moves(x, end) ==
  LET rest == Without(FirstOf(x) - 1)
  IN /\ items' \in {rest, InsertAt(rest, end + 1, x)}
     /\ UNCHANGED ret

Effect(f, x, i) ==
  \/ f = "AddFirst" /\ Adds(0, x)
  \/ f = "AddLast" /\ Adds(Len(items), x)
  \/ f = "Add" /\ i <= Len(items) /\ Adds(i, x)
  \/ f = "Add" /\ i > Len(items) /\ UNCHANGED <<items, ret>>
  \/ f = "InsertBefore" /\ i \in Places /\ Adds(i, x)
  \/ f = "Get" /\ ret' = Item(i) /\ UNCHANGED items
  \/ f = "GetLast" /\ ret' = Item(Len(items) - 1) /\ UNCHANGED items
  \/ f = "RemoveAt" /\ Takes(i)
  \/ f = "RemoveFirst" /\ Takes(0)
  \/ f = "RemoveLast" /\ Takes(Len(items) - 1)
  \/ f = "Remove" /\ FirstOf(x) # 0 /\ Takes(FirstOf(x) - 1)
  \/ f = "Remove" /\ FirstOf(x) = 0 /\ ret' = NULL /\ UNCHANGED items
  \/ f = "MoveToStart" /\ FirstOf(x) # 0 /\ Moves(x, 0)
  \/ f = "MoveToEnd" /\ FirstOf(x) # 0 /\ Moves(x, Len(items) - 1)
  \/ f \in {"MoveToStart", "MoveToEnd"} /\ FirstOf(x) = 0 /\ UNCHANGED <<items, ret>>
  \/ f \in {"Clear", "Dispose"} /\ items' = <<>> /\ UNCHANGED ret

ListInit == items = <<>> /\ ret = NULL /\ call.f = "Initialize"

ListSpec == ListInit /\ [][Effect(call'.f, call'.x, call'.i)]_lvars

=============================================================================
