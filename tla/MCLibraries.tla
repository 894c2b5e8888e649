----------------------------- MODULE MCLibraries -----------------------------
(* The libraries, each on a small instance.                                 *)
EXTENDS Libraries, TLC

CONSTANTS
  node1, node2, node3, node4,   \* nodes of the list
  one, two                      \* what is stored in a list or a table

(* Four nodes: a list that has a first, a last and two between them.        *)
MCNodes == {node1, node2, node3, node4}

MCItems == {one, two}

(* Three keys, in a table that starts with one bucket.                      *)
MCKeys == 1 .. 3

(* Two clients, and a descriptor for each.                                  *)
MCContexts == {"c1", "c2"}

ASSUME LibrariesAssumption ==
  ListAssumption /\ HashtableAssumption /\ ClientAssumption

(* Addresses and what is stored differ in nothing but their name.           *)
Symmetric ==
  Permutations(MCNodes) \cup Permutations(MCItems)

-----------------------------------------------------------------------------
(* The keys are numbered in the order of their hashes, whatever those are.  *)
MCInit ==
  /\ LibrariesInit
  /\ hash[1] <= hash[2] /\ hash[2] <= hash[3]
  /\ library # "table" => hash[3] = 0

MCSpec == MCInit /\ [][LibrariesNext]_librariesVars

=============================================================================
