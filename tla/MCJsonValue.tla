----------------------------- MODULE MCJsonValue -----------------------------
(***************************************************************************)
(* Two programs that use the values of jansson: one that builds trees, and  *)
(* one that also puts containers below themselves, with smaller containers. *)
(* Six addresses of which three are used between two calls; arrays start    *)
(* with room for one entry.  The objects of the trees never fill their      *)
(* buckets; those of the other program have one bucket at first.            *)
(***************************************************************************)
EXTENDS Integers

CONSTANT NULL

VARIABLES shape, heap, own, touched

Trees ==
  INSTANCE JsonValue
    WITH Types <- {"object", "array", "scalar"}, Values <- 1 .. 6, Keys <- {"lat", "lon"},
         ArraySize <- 1, ObjectSize <- 4, MayLoop <- FALSE, MaxOwned <- 2, MaxLive <- 3,
         MaxEntries <- 2, MaxMallocs <- 6

Loops ==
  INSTANCE JsonValue
    WITH Types <- {"object", "array"}, Values <- 1 .. 6, Keys <- {"lat"},
         ArraySize <- 1, ObjectSize <- 1, MayLoop <- TRUE, MaxOwned <- 2, MaxLive <- 3,
         MaxEntries <- 1, MaxMallocs <- 6

ASSUME ValuesAssumption == Trees!JsonAssumption /\ Loops!JsonAssumption

Init == shape \in {"trees", "loops"} /\ Trees!Init

BuildsTrees == shape = "trees" /\ Trees!Next /\ UNCHANGED shape

BuildsLoops == shape = "loops" /\ Loops!Next /\ UNCHANGED shape

Next == BuildsTrees \/ BuildsLoops

Spec == Init /\ [][Next]_<<shape, heap, own, touched>>

-----------------------------------------------------------------------------
(* Every value counts its references exactly, none that is used was freed,  *)
(* and what the program cannot reach any more is free, unless it was put    *)
(* below itself; a deep copy is whole or nothing (JsonValue).               *)
ValuesAreKept ==
  /\ shape = "trees" => /\ Trees!TypeOK
                        /\ Trees!RefcountsAreExact
                        /\ Trees!NothingDangles
                        /\ Trees!EntriesInTable
                        /\ Trees!OnlyCyclesLeak
                        /\ Trees!DeepCopyIsWhole
  /\ shape = "loops" => /\ Loops!TypeOK
                        /\ Loops!RefcountsAreExact
                        /\ Loops!NothingDangles
                        /\ Loops!EntriesInTable
                        /\ Loops!OnlyCyclesLeak
                        /\ Loops!DeepCopyIsWhole

=============================================================================
