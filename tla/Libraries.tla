------------------------------ MODULE Libraries ------------------------------
(***************************************************************************)
(* The linked list, the hash table of jansson and the HTTP client, each on  *)
(* its own.  They share no state, so a behaviour uses one of them, and the  *)
(* others stay as they begin.                                               *)
(***************************************************************************)
EXTENDS LinkedList, Hashtable, HTTPClient

VARIABLE library    \* the one in use

LibrariesInit ==
  /\ library \in {"list", "table", "client"}
  /\ Init /\ TableInit /\ ClientInit

UsesList ==
  /\ library = "list" /\ Next
  /\ UNCHANGED <<library, tableVars, allVars>>

UsesTable ==
  /\ library = "table" /\ TableNext
  /\ UNCHANGED <<library, vars, allVars>>

UsesClient ==
  /\ library = "client" /\ ClientNext
  /\ UNCHANGED <<library, vars, tableVars>>

LibrariesNext == UsesList \/ UsesTable \/ UsesClient

librariesVars == <<library, vars, tableVars, allVars>>

LibrariesSpec == LibrariesInit /\ [][LibrariesNext]_librariesVars

(* No call of the list or the table, however many came before and whichever *)
(* of them failed, leaves a node that is lost, linked one way only, in the  *)
(* wrong bucket or not found (LinkedList, Hashtable).                       *)
NodesAreLinked ==
  /\ TypeOK /\ WellLinked
  /\ TableTypeOK /\ BucketsPartition /\ FindsWhatIsStored

=============================================================================
