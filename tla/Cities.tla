------------------------------- MODULE Cities -------------------------------
(***************************************************************************)
(* glenns_metro/src/Cities.c: the list of cities that the server loads from *)
(* the directory cities/ when it starts, file by file, while it may itself  *)
(* add files to the directory it is reading; and the handler of GEO, which  *)
(* writes a file for every city it has fetched.                             *)
(*                                                                          *)
(* The list is the sequence that module LinkedList implements.  What        *)
(* readdir returns of files that appear while it is running is open, as in  *)
(* POSIX: once or not at all.                                               *)
(***************************************************************************)
EXTENDS Integers, Sequences, FiniteSets, SequencesExt

CONSTANTS
  Names,      \* the names of cities; cities/<name>.json is the file of one
  Others,     \* other files that end in .json, put there by somebody
  NotUTF8,    \* the names that json_string refuses
  MaxFaults   \* bound on failing calls, torn writes and deaths

ASSUME CitiesAssumption ==
  /\ Names # {}
  /\ Names \cap Others = {}
  /\ Names \cap {"absent", "torn", "invalid"} = {}
  /\ NotUTF8 \subseteq Names
  /\ IsFiniteSet(Names \cup Others)
  /\ MaxFaults \in Nat

DirFiles == Names \cup Others

VARIABLES
  file,    \* what is in each file
  dir,     \* tinydir: the entries that are still to come
  list,    \* the names of the cities in the list
  pc, name,  \* what the process is doing, and for which city
  complete,  \* the last load was not cut short
  before,  \* the files as they were when the load began
  hurt,    \* the names whose last write was cut short
  faults

vars == <<file, dir, list, pc, name, complete, before, hurt, faults>>

(* A file without a name, a latitude or a longitude is JSON, too.           *)
Readable == Names \ NotUTF8

Contents == Readable \cup {"absent", "torn", "invalid"}

Parses(c) == c \notin {"absent", "torn"}

Fault == faults < MaxFaults /\ faults' = faults + 1

NoFault == UNCHANGED faults

(* The entries of the directory; it is read one by one, in any order.       *)
tinydir_open == dir' = {f \in DirFiles : file[f] # "absent"}

tinydir_next(f) == dir' = dir \ {f}

tinydir_close == dir' = {}

-----------------------------------------------------------------------------
(* Cities_Init and the opening of the directory, which may fail.            *)
Cities_Init ==
  /\ pc = "down"
  /\ list' = <<>>
  /\ before' = file
  /\ \/ /\ tinydir_open
        /\ pc' = "load"
        /\ complete' = TRUE
        /\ NoFault
     \/ /\ Fault
        /\ pc' = "running"
        /\ complete' = FALSE
        /\ tinydir_close
  /\ UNCHANGED <<file, name, hurt>>

(* Mutant: the next entry is not asked for after a file that was skipped.   *)
SkipFile_Again(f) ==
  /\ file[f] \notin Readable
  /\ UNCHANGED <<file, dir, list, pc, name, complete, before, hurt, faults>>

(* Mutant: a file that cannot be used ends the load.                        *)
SkipFile_Ends(f) ==
  /\ file[f] \notin Readable
  /\ tinydir_close
  /\ UNCHANGED <<file, list, pc, name, complete, before, hurt, faults>>

(* A file that does not parse, or has not what a city needs.                *)
SkipFile(f) ==
  /\ file[f] \notin Readable
  /\ tinydir_next(f)
  /\ UNCHANGED <<file, list, pc, name, complete, before, hurt, faults>>

(* tinydir_readfile fails: the load is given up.                            *)
ReadFileFails ==
  /\ Fault
  /\ pc' = "running"
  /\ complete' = FALSE
  /\ tinydir_close
  /\ UNCHANGED <<file, list, name, before, hurt>>

(* City_Init: without memory there is no city.                              *)
City_InitFails ==
  /\ Fault
  /\ pc' = "load"
  /\ complete' = FALSE
  /\ UNCHANGED list

(* LinkedList_Push; nobody notices when it fails.                           *)
Push(n) ==
  /\ pc' = "check"
  /\ \/ list' = Append(list, n) /\ NoFault /\ UNCHANGED complete
     \/ UNCHANGED list /\ Fault /\ complete' = FALSE

Cities_Create(f) ==
  /\ file[f] \in Readable
  /\ tinydir_next(f)
  /\ City_InitFails \/ Push(file[f])
  /\ name' = file[f]
  /\ UNCHANGED <<file, before, hurt>>

(* Mutant: the file is not looked for.                                      *)
Present_Never(n) == FALSE

(* json_load_file in Cities_WriteToFile.                                    *)
Present(n) == Parses(file[n])

(* Mutant: the two cases are swapped.                                       *)
Cities_WriteToFile_Swapped ==
  /\ pc = "check"
  /\ pc' = IF Present(name) THEN "open" ELSE "load"
  /\ UNCHANGED <<file, dir, list, name, complete, before, hurt, faults>>

Cities_WriteToFile ==
  /\ pc = "check"
  /\ pc' = IF Present(name) THEN "load" ELSE "open"
  /\ UNCHANGED <<file, dir, list, name, complete, before, hurt, faults>>

(* json_dump_file truncates or creates the file, and fills it.  A new file  *)
(* may come up among the entries.                                           *)
OpenForDump ==
  /\ pc = "open"
  /\ \/ /\ file' = [file EXCEPT ![name] = "torn"]
        /\ \/ UNCHANGED dir
           \/ file[name] = "absent" /\ dir' = dir \cup {name}
        /\ pc' = "dump"
        /\ hurt' = hurt \cup {name}
        /\ NoFault
     \/ /\ Fault
        /\ hurt' = hurt \cup {name}
        /\ pc' = "load"
        /\ UNCHANGED <<file, dir>>
  /\ UNCHANGED <<list, name, complete, before>>

Dump ==
  /\ pc = "dump"
  /\ pc' = "load"
  /\ \/ /\ file' = [file EXCEPT ![name] = name]
        /\ hurt' = hurt \ {name}
        /\ NoFault
     \/ /\ Fault
        /\ UNCHANGED <<file, hurt>>
  /\ UNCHANGED <<dir, list, name, complete, before>>

Loaded ==
  /\ pc = "load"
  /\ dir = {}
  /\ pc' = "running"
  /\ tinydir_close
  /\ UNCHANGED <<file, list, name, complete, before, hurt, faults>>

Cities_AddFromCache ==
  \/ pc = "load" /\ \E f \in dir : SkipFile(f) \/ Cities_Create(f)
  \/ pc = "load" /\ dir # {} /\ ReadFileFails
  \/ Loaded

-----------------------------------------------------------------------------
(* GEO_CacheResponse writes the file of a city, whatever is in it, and the  *)
(* server goes on.  A name that is no UTF-8 is left out of the text.        *)
GEO_OpenCity(n) ==
  /\ pc = "running"
  /\ pc' = "fetched"
  /\ name' = n
  /\ file' = [file EXCEPT ![n] = "torn"]
  /\ hurt' = hurt \cup {n}
  /\ UNCHANGED <<dir, list, complete, before, faults>>

GEO_DumpCity ==
  /\ pc = "fetched"
  /\ pc' = "running"
  /\ \/ /\ file' = [file EXCEPT ![name] = IF name \in NotUTF8 THEN "invalid" ELSE name]
        /\ hurt' = hurt \ {name}
        /\ NoFault
     \/ /\ Fault
        /\ UNCHANGED <<file, hurt>>
  /\ UNCHANGED <<dir, list, name, complete, before>>

(* The first city of the name, as by Cities_GetName, is taken from the list.*)
Cities_Destroy(n) ==
  /\ pc = "running"
  /\ \E i \in DOMAIN list :
       /\ list[i] = n
       /\ \A j \in 1 .. i - 1 : list[j] # n
       /\ list' = RemoveAt(list, i)
  /\ UNCHANGED <<file, dir, pc, name, complete, before, hurt, faults>>

(* The end of the server, in order, or by a kill at any point.              *)
Cities_Dispose ==
  /\ pc = "running"
  /\ pc' = "down"
  /\ list' = <<>>
  /\ tinydir_close
  /\ UNCHANGED <<file, name, complete, before, hurt, faults>>

Killed ==
  /\ pc # "down"
  /\ Fault
  /\ pc' = "down"
  /\ list' = <<>>
  /\ tinydir_close
  /\ complete' = FALSE
  /\ UNCHANGED <<file, name, before, hurt>>

-----------------------------------------------------------------------------
Init ==
  /\ file \in [DirFiles -> Contents]
  /\ dir = {}
  /\ list = <<>>
  /\ pc = "down"
  /\ name = CHOOSE n \in Names : TRUE
  /\ complete = FALSE
  /\ before = file
  /\ hurt = {}
  /\ faults = 0

Loading ==
  \/ Cities_AddFromCache
  \/ Cities_WriteToFile
  \/ OpenForDump
  \/ Dump

Next ==
  \/ Cities_Init
  \/ Loading
  \/ GEO_DumpCity
  \/ \E n \in Names : GEO_OpenCity(n) \/ Cities_Destroy(n)
  \/ Cities_Dispose
  \/ Killed

(* The process goes on loading; nobody has to start or to end it.           *)
Spec == Init /\ [][Next]_vars /\ WF_vars(Loading)

-----------------------------------------------------------------------------
Times(n) == Cardinality({i \in DOMAIN list : list[i] = n})

FilesOf(content, n) == Cardinality({f \in DirFiles : content[f] = n})

(* Types.                                                                   *)
TypeOK ==
  /\ file \in [DirFiles -> Contents]
  /\ before \in [DirFiles -> Contents]
  /\ dir \subseteq DirFiles
  /\ list \in Seq(Readable)
  /\ pc \in {"down", "load", "check", "open", "dump", "running", "fetched"}
  /\ name \in Names
  /\ complete \in BOOLEAN
  /\ hurt \subseteq Names
  /\ faults \in 0 .. MaxFaults

(***************************************************************************)
(* What a load puts into the list: every file that was there when it began  *)
(* and has a city in it, and never more cities than there are files, even   *)
(* though the load adds files to the directory it is reading and readdir    *)
(* may or may not return those.                                             *)
(***************************************************************************)
LoadsEveryFileOnce ==
  [][Loaded /\ complete =>
       \A n \in Readable : Times(n) \in FilesOf(before, n) .. FilesOf(file, n)]_vars

(* The content c of the file of n is JSON, but not the city n: somebody put *)
(* it there.                                                                *)
Foreign(c, n) == Parses(c) /\ c # n

(***************************************************************************)
(* A city that is listed stands in the file of its own name, unless a write *)
(* of that file was cut short, or something foreign stood in it when the    *)
(* server started and is still there: a load writes what is missing, and    *)
(* only that (Cities_WriteToFile), and GEO writes the city.  So the next    *)
(* start finds every listed city in its own file, apart from the two        *)
(* exceptions: such a city is found only as long as the file of another     *)
(* name that it was read from keeps it, which GEO may rewrite.              *)
(***************************************************************************)
ListedHaveFiles ==
  pc \in {"load", "running"} =>
    \A n \in ToSet(list) \ hurt :
      \/ file[n] = n
      \/ Foreign(before[n], n) /\ file[n] = before[n]

(* The list is of cities that stand in their own files.                     *)
ListIsSound == TypeOK /\ ListedHaveFiles

(* Loading never takes a city away: wherever it fails or is killed, a file  *)
(* that was whole when it began is as it was.                               *)
LoadingKeepsWhole ==
  pc \in {"load", "check", "open", "dump"} =>
    \A f \in DirFiles : Parses(before[f]) => file[f] = before[f]

(* The load ends, although every file it adds may come up as an entry.      *)
LoadEnds == pc = "load" ~> pc \in {"running", "down"}

=============================================================================
