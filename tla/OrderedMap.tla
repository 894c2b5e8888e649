----------------------------- MODULE OrderedMap -----------------------------
(***************************************************************************)
(* What a JSON object of jansson promises to those who use it: a map whose  *)
(* entries keep the order in which their keys came in (the order that       *)
(* JSON_PRESERVE_ORDER prints).                                             *)
(***************************************************************************)
EXTENDS Integers, Sequences, SequencesExt, FiniteSets

CONSTANTS Keys, Values

VARIABLE entries    \* <<key, value>> pairs, in order

KeyOf(e) == e[1]

Mapped == {KeyOf(entries[i]) : i \in DOMAIN entries}

Put(k, v) ==
  entries' = IF k \in Mapped
               THEN [i \in DOMAIN entries |->
                       IF KeyOf(entries[i]) = k THEN <<k, v>> ELSE entries[i]]
               ELSE Append(entries, <<k, v>>)

Drop(k) ==
  \E i \in DOMAIN entries :
    KeyOf(entries[i]) = k /\ entries' = RemoveAt(entries, i)

Empty == entries' = <<>>

MapInit == entries = <<>>

MapNext ==
  \/ \E k \in Keys, v \in Values : Put(k, v)
  \/ \E k \in Keys : Drop(k)
  \/ Empty

MapSpec == MapInit /\ [][MapNext]_entries

=============================================================================
