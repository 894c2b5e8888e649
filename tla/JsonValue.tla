------------------------------ MODULE JsonValue ------------------------------
(***************************************************************************)
(* The values of jansson (value.c) and who owns them: every value counts    *)
(* its references, a function whose name ends in _new takes over the        *)
(* caller's reference whether it succeeds or not, the others make one of    *)
(* their own, and what json_object_get or json_array_get return is          *)
(* borrowed from its container.                                             *)
(*                                                                          *)
(* The handlers, the city files and the loader build and release their JSON *)
(* with these functions.  An array is the sequence of its entries and the   *)
(* room of its table; an object is an OrderedMap, which is what Hashtable   *)
(* implements, and the number of buckets that it has come to.  Both have    *)
(* entries [key, value]; an array has no keys.                              *)
(***************************************************************************)
EXTENDS Integers, Sequences, FiniteSets, SequencesExt

CONSTANTS
  Types,       \* the kinds of values that the program makes
  Values,      \* addresses that malloc may return
  Keys,
  ArraySize,   \* the entries that a new array has room for: 8 in json_array
  ObjectSize,  \* the buckets of a new object: 8
  MayLoop,     \* the program puts containers below themselves
  MaxOwned,    \* bound on the references of the program
  MaxLive,     \* bound on the values alive between two calls
  MaxEntries,  \* bound on the entries of a container, and half its room
  MaxMallocs,  \* bound on the mallocs of one call before one fails
  NULL

JsonAssumption ==
  /\ Types \subseteq {"object", "array", "scalar"}
  /\ {ArraySize, ObjectSize} \subseteq Nat \ {0}
  /\ MayLoop \in BOOLEAN
  /\ MaxLive \in Nat
  /\ {MaxOwned, MaxEntries, MaxMallocs} \subseteq Nat
  /\ NULL \notin Values /\ NULL \notin Keys

VARIABLES
  heap,    \* what is at each address
  own,     \* the references that the program holds
  touched  \* a call has touched what was freed

vars == <<heap, own, touched>>

Free == [type |-> "free", refcount |-> 0, entries |-> <<>>, size |-> 0]

(* A call works on the heap, on the number of mallocs that still succeed,   *)
(* and it fails for good when it touches what was freed.                    *)
Calm(h, n) == [heap |-> h, mem |-> n, touched |-> FALSE]

Live(s, v) == s.heap[v].type # "free"

Type(s, v) == IF v = NULL THEN "NULL" ELSE s.heap[v].type

Entries(s, v) == s.heap[v].entries

Touch(s, v) == [s EXCEPT !.touched = @ \/ ~Live(s, v)]

WithEntries(s, v, entries) == [s EXCEPT !.heap[v].entries = entries]

KeyAt(s, v, k) == SelectInSeq(Entries(s, v), LAMBDA e : e.key = k)

(* json_object_get and json_array_get: a borrowed reference.                *)
json_object_get(s, v, k) ==
  IF Type(s, v) # "object" \/ KeyAt(s, v, k) = 0 THEN NULL
  ELSE Entries(s, v)[KeyAt(s, v, k)].value

-----------------------------------------------------------------------------
(* jsonp_malloc: an address that is free, while there is one.               *)
NoMemory(s) == s.mem = 0 \/ \A v \in Values : Live(s, v)

Spend(s) == [s EXCEPT !.mem = @ - 1]

NewSize(type) ==
  CASE type = "array" -> ArraySize [] type = "object" -> ObjectSize
    [] OTHER -> 0

(* json_object, json_array, and json_string, json_integer or json_real.     *)
Create(s, type) ==
  IF NoMemory(s) THEN [s |-> s, value |-> NULL]
  ELSE LET v == CHOOSE a \in Values : ~Live(s, a)
       IN [s |-> [Spend(s) EXCEPT !.heap[v] =
                    [type |-> type, refcount |-> 1, entries |-> <<>>,
                     size |-> NewSize(type)]],
           value |-> v]

json_incref(s, v) ==
  IF v = NULL THEN s ELSE [Touch(s, v) EXCEPT !.heap[v].refcount = @ + 1]

(* json_decref and json_delete: the entries go before their container does. *)
RECURSIVE json_decref(_, _)
json_decref(s, v) ==
  IF v = NULL THEN s
  ELSE IF ~Live(s, v) THEN Touch(s, v)
  ELSE LET less == [s EXCEPT !.heap[v].refcount = @ - 1]
           gone == FoldLeft(LAMBDA r, e : json_decref(r, e.value),
                            less, Entries(less, v))
       IN IF s.heap[v].refcount # 1 THEN less
          ELSE [gone EXCEPT !.heap[v] = Free]

(* Mutant: the value is not released when the call fails.                   *)
Refuses_Leaks(s, v) == [s |-> s, done |-> FALSE]

Refuses(s, v) == [s |-> json_decref(s, v), done |-> FALSE]

Done(s) == [s |-> s, done |-> TRUE]

HasRoom(s, a, amount) == Len(Entries(s, a)) + amount <= s.heap[a].size

(* hashtable_do_rehash, which every set of a full table begins with.        *)
hashtable_rehash(s, o) ==
  IF HasRoom(s, o, 1) THEN Done(s)
  ELSE IF s.mem = 0 THEN [s |-> s, done |-> FALSE]
  ELSE Done([Spend(s) EXCEPT !.heap[o].size = 2 * @])

(***************************************************************************)
(* json_object_set_new: hashtable_set may fail for want of buckets before   *)
(* it looks for the key; it releases the value that it replaces.            *)
(***************************************************************************)
json_object_set_new(s, o, k, v) ==
  LET i   == KeyAt(s, o, k)
      old == Entries(s, o)[i].value
      r   == hashtable_rehash(s, o)
  IN IF v = NULL THEN [s |-> s, done |-> FALSE]
     ELSE IF Type(s, o) # "object" \/ o = v THEN Refuses(s, v)
     ELSE IF ~r.done THEN Refuses(s, v)
     ELSE IF i # 0
       THEN Done([json_decref(r.s, old) EXCEPT !.heap[o].entries[i].value = v])
     ELSE IF r.s.mem = 0 THEN Refuses(r.s, v)
     ELSE Done(WithEntries(Spend(r.s), o,
                           Append(Entries(s, o), [key |-> k, value |-> v])))

json_object_set(s, o, k, v) == json_object_set_new(json_incref(s, v), o, k, v)

json_object_del(s, o, k) ==
  LET i == KeyAt(s, o, k)
  IN IF Type(s, o) # "object" \/ i = 0 THEN [s |-> s, done |-> FALSE]
     ELSE Done(json_decref(WithEntries(s, o, RemoveAt(Entries(s, o), i)),
                           Entries(s, o)[i].value))

(* json_object_clear, json_array_clear.                                     *)
Clear(s, v) ==
  LET released == FoldLeft(LAMBDA r, e : json_decref(r, e.value), s, Entries(s, v))
  IN Done(WithEntries(released, v, <<>>))

-----------------------------------------------------------------------------
Larger(m, n) == IF m > n THEN m ELSE n

Grown(size, amount) == Larger(size + amount, 2 * size)

json_array_grow(s, a, amount) ==
  IF HasRoom(s, a, amount) THEN Done(s)
  ELSE IF s.mem = 0 THEN [s |-> s, done |-> FALSE]
  ELSE Done([Spend(s) EXCEPT !.heap[a].size = Grown(@, amount)])

Item(v) == [key |-> NULL, value |-> v]

(* The entry moves into the place index, and those behind it one further;   *)
(* json_array_append_new is this with the number of entries.                *)
json_array_insert_new(s, a, index, v) ==
  LET grown == json_array_grow(s, a, 1)
  IN IF v = NULL THEN [s |-> s, done |-> FALSE]
     ELSE IF Type(s, a) # "array" \/ a = v THEN Refuses(s, v)
     ELSE IF index > Len(Entries(s, a)) \/ ~grown.done THEN Refuses(s, v)
     ELSE Done(WithEntries(grown.s, a, InsertAt(Entries(s, a), index + 1, Item(v))))

json_array_append_new(s, a, v) ==
  json_array_insert_new(s, a, IF Type(s, a) = "array" THEN Len(Entries(s, a)) ELSE 0, v)

json_array_set_new(s, a, index, v) ==
  IF v = NULL THEN [s |-> s, done |-> FALSE]
  ELSE IF Type(s, a) # "array" \/ a = v THEN Refuses(s, v)
  ELSE IF index >= Len(Entries(s, a)) THEN Refuses(s, v)
  ELSE Done([json_decref(s, Entries(s, a)[index + 1].value)
               EXCEPT !.heap[a].entries[index + 1] = Item(v)])

json_array_remove(s, a, index) ==
  IF Type(s, a) # "array" \/ index >= Len(Entries(s, a)) THEN [s |-> s, done |-> FALSE]
  ELSE Done(WithEntries(json_decref(s, Entries(s, a)[index + 1].value), a,
                        RemoveAt(Entries(s, a), index + 1)))

json_array_extend(s, a, b) ==
  LET grown   == json_array_grow(s, a, Len(Entries(s, b)))
      counted == FoldLeft(LAMBDA r, e : json_incref(r, e.value),
                          grown.s, Entries(s, b))
  IN IF "array" # Type(s, a) \/ "array" # Type(s, b) \/ ~grown.done
       THEN [s |-> s, done |-> FALSE]
     ELSE Done(WithEntries(counted, a, Entries(s, a) \o Entries(s, b)))

-----------------------------------------------------------------------------
(***************************************************************************)
(* json_object_update (all keys), ..._existing and ..._missing: a foreach   *)
(* over other.  Only the first one stops at a member it cannot set.         *)
(***************************************************************************)
Affected(s, o, k, how) ==
  CASE how = "all"      -> TRUE
    [] how = "existing" -> json_object_get(s, o, k) # NULL
    [] how = "missing"  -> json_object_get(s, o, k) = NULL

json_object_update(s, o, other, how) ==
  FoldLeft(LAMBDA r, e :
             IF ~r.done \/ ~Affected(r.s, o, e.key, how) THEN r
             ELSE LET next == json_object_set(Touch(r.s, other), o, e.key, e.value)
                  IN IF how = "all" THEN next ELSE Done(next.s),
           Done(s), Entries(s, other))

(***************************************************************************)
(* json_deep_copy: parents are the containers on the way down, so that a    *)
(* cycle ends it; a copy that cannot be finished is released.               *)
(***************************************************************************)
Created(s, type) == [s |-> Create(s, type).s, copy |-> Create(s, type).value]

Attach(r, c, e) ==
  LET put == IF e.key = NULL THEN json_array_append_new(c.s, r.copy, c.copy)
                             ELSE json_object_set_new(c.s, r.copy, e.key, c.copy)
  IN IF put.done THEN [s |-> put.s, copy |-> r.copy]
     ELSE [s |-> json_decref(put.s, r.copy), copy |-> NULL]

RECURSIVE do_deep_copy(_, _, _)
do_deep_copy(s, v, parents) ==
  IF Type(s, v) = "scalar" THEN Created(s, "scalar")
  ELSE IF v \in parents \/ s.mem = 0 THEN [s |-> s, copy |-> NULL]
  ELSE FoldLeft(LAMBDA r, e :
                  IF r.copy = NULL THEN r
                  ELSE Attach(r, do_deep_copy(r.s, e.value, parents \cup {v}), e),
                Created(Spend(s), Type(s, v)), Entries(s, v))

(* json_copy: the entries are shared, and one that cannot be added is       *)
(* missing from the copy.                                                   *)
json_copy(s, v) ==
  LET new  == Created(s, Type(s, v))
      c    == new.copy
      Put(r, e) == IF e.key = NULL
                     THEN json_array_append_new(json_incref(r, e.value), c, e.value).s
                     ELSE json_object_set(r, c, e.key, e.value).s
  IN IF c = NULL THEN new
     ELSE [s |-> FoldLeft(Put, new.s, Entries(s, v)), copy |-> c]

RECURSIVE json_equal(_, _, _)
json_equal(s, v, w) ==
  \/ v = w
  \/ /\ Type(s, v) = Type(s, w)
     /\ Len(Entries(s, v)) = Len(Entries(s, w))
     /\ \A i \in DOMAIN Entries(s, v) :
          LET e == Entries(s, v)[i]
          IN json_equal(s, e.value,
               IF e.key = NULL THEN Entries(s, w)[i].value
                               ELSE json_object_get(s, w, e.key))

-----------------------------------------------------------------------------
(* The program.  It uses what it can reach from what it owns.               *)
Now == Calm(heap, MaxMallocs)

LiveNow == {v \in Values : Live(Now, v)}

Kids(v) == {Entries(Now, v)[i].value : i \in DOMAIN Entries(Now, v)}

RECURSIVE Below(_)
Below(S) ==
  LET more == S \cup UNION {Kids(v) : v \in S}
  IN IF more = S THEN S ELSE Below(more)

Owned == {v \in Values : own[v] > 0}

Reachable == Below(Owned)

RefsOwned == FoldSet(LAMBDA v, n : own[v] + n, 0, Values)

Fits(s) ==
  /\ Cardinality({v \in Values : Live(s, v)}) <= MaxLive
  /\ \A v \in Values : /\ Len(s.heap[v].entries) <= MaxEntries
                       /\ s.heap[v].size <= 2 * MaxEntries

(* The first or the second malloc of a call fails, or none does.            *)
Mallocs == {0, 1, MaxMallocs}

Call(F(_)) ==
  \E mem \in Mallocs :
    LET s == F(Calm(heap, mem))
    IN /\ Fits(s)
       /\ heap' = s.heap
       /\ touched' = (touched \/ s.touched)

Create_json(type) ==
  /\ RefsOwned < MaxOwned
  /\ \E mem \in {0, 1} :
       LET new == Create(Calm(heap, mem), type)
       IN /\ Fits(new.s)
          /\ heap' = new.s.heap
          /\ own' = IF new.value = NULL THEN own
                    ELSE [own EXCEPT ![new.value] = 1]
          /\ UNCHANGED touched

Keep(v) ==
  /\ RefsOwned < MaxOwned
  /\ own' = [own EXCEPT ![v] = @ + 1]
  /\ Call(LAMBDA s : json_incref(s, v))

Release(v) ==
  /\ own[v] > 0
  /\ own' = [own EXCEPT ![v] = @ - 1]
  /\ Call(LAMBDA s : json_decref(s, v))

(* A value is handed over, or lent to a function that counts it.            *)
Give(v, F(_, _)) ==
  \/ /\ own[v] > 0
     /\ own' = [own EXCEPT ![v] = @ - 1]
     /\ Call(LAMBDA s : F(s, v).s)
  \/ /\ Call(LAMBDA s : F(json_incref(s, v), v).s)
     /\ UNCHANGED own

SetMember(o, k, v) ==
  Give(v, LAMBDA s, x : json_object_set_new(s, o, k, x))

InsertEntry(a, index, v) ==
  Give(v, LAMBDA s, x : json_array_insert_new(s, a, index, x))

AppendEntry(a, v) ==
  Give(v, LAMBDA s, x : json_array_append_new(s, a, x))

SetEntry(a, index, v) ==
  Give(v, LAMBDA s, x : json_array_set_new(s, a, index, x))

Takes(F(_)) ==
  /\ Call(LAMBDA s : F(s).s)
  /\ UNCHANGED own

(* Whoever passes an object to be read from holds a reference to it.        *)
UpdateObject(o, other, how) ==
  /\ own[other] > 0
  /\ Type(Now, o) = "object" /\ Type(Now, other) = "object"
  /\ Takes(LAMBDA s : json_object_update(s, o, other, how))

(* The program gets a copy, or NULL.                                        *)
Gets(r) ==
  /\ RefsOwned < MaxOwned
  /\ Fits(r.s)
  /\ heap' = r.s.heap
  /\ touched' = (touched \/ r.s.touched)
  /\ own' = IF r.copy = NULL THEN own ELSE [own EXCEPT ![r.copy] = @ + 1]

Copy(v) ==
  \E mem \in Mallocs :
    \/ Gets(json_copy(Calm(heap, mem), v))
    \/ Gets(do_deep_copy(Calm(heap, mem), v, {}))

Init ==
  /\ heap = [v \in Values |-> Free]
  /\ own = [v \in Values |-> 0]
  /\ touched = FALSE

Places(v) == 0 .. Len(heap[v].entries)

Next ==
  \/ \E type \in Types : Create_json(type)
  \/ \E v \in Reachable :
       \/ Keep(v)
       \/ Release(v)
       \/ Copy(v)
       \/ \E k \in Keys : Takes(LAMBDA s : json_object_del(s, v, k))
       \/ Takes(LAMBDA s : Clear(s, v))
       \/ \E i \in Places(v) : Takes(LAMBDA s : json_array_remove(s, v, i))
       \/ \E w \in Reachable :
            /\ MayLoop \/ v \notin Below({w})
            /\ \/ \E k \in Keys : SetMember(v, k, w)
               \/ \E i \in Places(v) : InsertEntry(v, i, w) \/ SetEntry(v, i, w)
               \/ AppendEntry(v, w)
               \/ Takes(LAMBDA s : json_array_extend(s, v, w))
               \/ \E how \in {"all", "existing", "missing"} : UpdateObject(v, w, how)

Spec == Init /\ [][Next]_vars

-----------------------------------------------------------------------------
(* Types.                                                                   *)
TypeOK ==
  /\ \A v \in Values :
       /\ heap[v] = Free \/ (heap[v].type \in Types /\ heap[v].refcount \in Nat \ {0})
       /\ \A e \in ToSet(heap[v].entries) : e.value \in Values
       /\ IsInjective([i \in DOMAIN heap[v].entries |->
                         IF heap[v].type = "object" THEN heap[v].entries[i].key ELSE i])
  /\ own \in [Values -> Nat]

Holders(v) ==
  {<<c, i>> \in LiveNow \X (1 .. MaxEntries) :
     i \in DOMAIN heap[c].entries /\ heap[c].entries[i].value = v}

(***************************************************************************)
(* A value counts exactly the references of the program and of the          *)
(* containers it is in, after every call, also one that failed half-way:    *)
(* it is neither freed too early nor kept too long.                         *)
(***************************************************************************)
RefcountsAreExact ==
  \A v \in Values : heap[v].refcount = own[v] + Cardinality(Holders(v))

(* No call touches a value that was freed, and none is left in a container. *)
NothingDangles ==
  /\ ~touched
  /\ \A v \in LiveNow : Kids(v) \subseteq LiveNow
  /\ Owned \subseteq LiveNow

OnCycle(v) == v \in Below(Kids(v))

(* What the program can no longer reach is freed, unless a container was    *)
(* put below itself: a failed call loses nothing.                           *)
OnlyCyclesLeak ==
  \A v \in LiveNow \ Reachable :
    \E c \in LiveNow \ Reachable : OnCycle(c) /\ v \in Below({c})

(* The entries of an array stay in its table, however it grew, and an       *)
(* object has no more of them than buckets.                                 *)
EntriesInTable == \A v \in LiveNow : Len(heap[v].entries) <= heap[v].size

(***************************************************************************)
(* A deep copy is equal to its original and shares nothing with it; there   *)
(* is none of a value with a cycle below it, and none when malloc fails;    *)
(* then everything that was copied so far is free again.                    *)
(***************************************************************************)
DeepCopyIsWhole ==
  \A v \in Reachable, mem \in 0 .. MaxMallocs :
    LET r      == do_deep_copy(Calm(heap, mem), v, {})
        cyclic == \E w \in Below({v}) : OnCycle(w)
    IN /\ ~r.s.touched
       /\ IF r.copy = NULL THEN r.s.heap = heap
          ELSE /\ ~cyclic
               /\ json_equal(r.s, v, r.copy)
               /\ \A w \in LiveNow : r.s.heap[w] = heap[w]

=============================================================================
