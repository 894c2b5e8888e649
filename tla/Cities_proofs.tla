----------------------------- MODULE Cities_proofs -----------------------------
(***************************************************************************)
(* Proofs about the list of cities and its directory, for any names, any    *)
(* files that are there at the start, and any number of failing calls and   *)
(* deaths.                                                                  *)
(***************************************************************************)
EXTENDS Cities, FiniteSetTheorems, TLAPS

(* A file is only opened to be written when it has no city in it, and what  *)
(* is written is a city that JSON can hold.                                 *)
WritesWhatIsMissing ==
  /\ pc \in {"check", "open", "dump"} => name \in Readable
  /\ pc = "open" => ~Parses(file[name])
  /\ pc = "dump" => file[name] = "torn"

(* A load changes a file only into what a write of its city makes of it.    *)
WritesOnlyCities ==
  pc \in {"load", "check", "open", "dump"} =>
    \A f \in DirFiles : file[f] \in {before[f], f, "torn"}

(* The city n stands in its file, or something foreign has stood there      *)
(* since the server started.                                                *)
Stands(n) == file[n] = n \/ (Foreign(before[n], n) /\ file[n] = before[n])

(* Whoever is listed stands there, or will before the load goes on.         *)
Listed ==
  \A n \in ToSet(list) \ hurt :
    Stands(n) \/ (pc \in {"check", "open"} /\ n = name)

Inv ==
  /\ TypeOK
  /\ LoadingKeepsWhole
  /\ WritesWhatIsMissing
  /\ WritesOnlyCities
  /\ Listed

(* The files of the city n that readdir has still to return.                *)
StillToCome(n) == Cardinality({f \in dir : file[f] = n})

(* While a load goes on, the cities listed and those still to come are no   *)
(* more than there are files, and no less than there were, unless one of    *)
(* them got lost on the way.                                                *)
Counted ==
  pc \in {"load", "check", "open", "dump"} =>
    \A n \in Readable :
      /\ Times(n) + StillToCome(n) <= FilesOf(file, n)
      /\ complete => FilesOf(before, n) <= Times(n) + StillToCome(n)

-----------------------------------------------------------------------------
(* What a list holds after a city was taken out of it.                      *)
LEMMA Removed ==
  ASSUME NEW S, NEW s \in Seq(S), NEW i \in DOMAIN s
  PROVE  RemoveAt(s, i) \in Seq(S) /\ ToSet(RemoveAt(s, i)) \subseteq ToSet(s)
<1> DEFINE r == RemoveAt(s, i)
<1>1. i \in 1 .. Len(s) /\ Len(s) \in Nat
  OBVIOUS
<1>2. /\ SubSeq(s, 1, i - 1) \in Seq(S)
      /\ SubSeq(s, i + 1, Len(s)) \in Seq(S)
  BY <1>1
<1>3. r \in Seq(S)
  BY <1>2 DEF RemoveAt
<1>4. ASSUME NEW k \in DOMAIN r
      PROVE  \E j \in DOMAIN s : r[k] = s[j]
  <2> DEFINE a == SubSeq(s, 1, i - 1)
             b == SubSeq(s, i + 1, Len(s))
  <2>1. Len(a) = i - 1 /\ \A j \in 1 .. i - 1 : a[j] = s[j]
    BY <1>1
  <2>2. Len(b) = Len(s) - i /\ \A j \in 1 .. Len(s) - i : b[j] = s[i + j]
    BY <1>1
  <2>3. r = a \o b
    BY DEF RemoveAt
  <2>4. a \in Seq(S) /\ b \in Seq(S)
    BY <1>2
  <2>5. k \in 1 .. Len(a) + Len(b)
    BY <2>3, <2>4
  <2> HIDE DEF a, b, r
  <2>6. CASE k <= Len(a)
    <3>1. r[k] = a[k]
      BY <2>3, <2>4, <2>5, <2>6
    <3> QED
      BY <1>1, <2>1, <2>5, <2>6, <3>1
  <2>7. CASE k > Len(a)
    <3>1. r[k] = b[k - Len(a)]
      BY <2>3, <2>4, <2>5, <2>7
    <3>2. k - Len(a) \in 1 .. Len(s) - i
      <4>1. Len(a) = i - 1 /\ Len(b) = Len(s) - i
        BY <2>1, <2>2
      <4>2. k \in 1 .. (i - 1) + (Len(s) - i) /\ k > i - 1
        BY <2>5, <2>7, <4>1
      <4>3. k - (i - 1) \in 1 .. Len(s) - i
        BY <1>1, <4>2
      <4> QED
        BY <4>1, <4>3
    <3>3. r[k] = s[i + (k - Len(a))]
      BY <2>2, <3>1, <3>2
    <3>4. i + (k - Len(a)) \in DOMAIN s
      BY <1>1, <3>2
    <3> QED
      BY <3>3, <3>4
  <2> QED
    BY <1>1, <2>1, <2>2, <2>5, <2>6, <2>7
<1> QED
  BY <1>3, <1>4 DEF ToSet

(* What a list holds after a city was put at its end.                       *)
LEMMA Appended ==
  ASSUME NEW S, NEW s \in Seq(S), NEW x \in S
  PROVE  Append(s, x) \in Seq(S) /\ ToSet(Append(s, x)) = ToSet(s) \cup {x}
<1>1. Append(s, x) \in Seq(S) /\ DOMAIN Append(s, x) = 1 .. Len(s) + 1
  OBVIOUS
<1>2. ToSet(Append(s, x)) \subseteq ToSet(s) \cup {x}
  BY DEF ToSet
<1>3. x \in ToSet(Append(s, x))
  BY <1>1 DEF ToSet
<1>4. ToSet(s) \subseteq ToSet(Append(s, x))
  BY <1>1 DEF ToSet
<1> QED
  BY <1>1, <1>2, <1>3, <1>4

(* The bound on what fails is kept.                                         *)
LEMMA FaultsBounded ==
  ASSUME TypeOK, Fault \/ NoFault
  PROVE  faults' \in 0 .. MaxFaults
  BY CitiesAssumption DEF TypeOK, Fault, NoFault

(* Init: the list is empty.                                                 *)
LEMMA InvInit ==
  ASSUME Init
  PROVE  Inv
<1>1. TypeOK
  <2>1. name \in Names
    BY CitiesAssumption DEF Init
  <2>2. list \in Seq(Readable)
    BY DEF Init
  <2>3. faults \in 0 .. MaxFaults
    BY CitiesAssumption DEF Init
  <2> QED
    BY <2>1, <2>2, <2>3 DEF Init, TypeOK
<1>2. LoadingKeepsWhole /\ WritesWhatIsMissing /\ WritesOnlyCities
  BY DEF Init, LoadingKeepsWhole, WritesWhatIsMissing, WritesOnlyCities
<1>3. Listed
  BY DEF Init, Listed, ToSet
<1> QED
  BY <1>1, <1>2, <1>3 DEF Inv

(* Cities_Init: what is kept is what is there now.                          *)
LEMMA CitiesInitKeeps ==
  ASSUME Inv, Cities_Init
  PROVE  Inv'
<1>1. TypeOK'
  <2>1. faults' \in 0 .. MaxFaults
    BY FaultsBounded DEF Inv, Cities_Init
  <2>2. list' \in Seq(Readable)
    BY DEF Cities_Init
  <2> QED
    BY <2>1, <2>2 DEF Inv, TypeOK, Cities_Init, tinydir_open, tinydir_close
<1>2. LoadingKeepsWhole' /\ WritesWhatIsMissing' /\ WritesOnlyCities'
  BY DEF WritesOnlyCities, Inv, Cities_Init, LoadingKeepsWhole, WritesWhatIsMissing
<1>3. Listed'
  BY DEF Cities_Init, Listed, ToSet
<1> QED
  BY <1>1, <1>2, <1>3 DEF Inv

(* SkipFile, ReadFileFails and Loaded leave the files and the list alone.   *)
LEMMA SkipKeeps ==
  ASSUME Inv, pc = "load",
         \/ ReadFileFails \/ Loaded
         \/ \E f \in dir : SkipFile(f)
  PROVE  Inv'
<1>1. TypeOK'
  <2>1. faults' \in 0 .. MaxFaults
    BY FaultsBounded DEF Inv, TypeOK, ReadFileFails, Loaded, SkipFile, NoFault
  <2> QED
    BY <2>1 DEF Inv, TypeOK, ReadFileFails, Loaded, SkipFile, tinydir_next,
            tinydir_close
<1>2. LoadingKeepsWhole' /\ WritesWhatIsMissing' /\ WritesOnlyCities'
  BY DEF WritesOnlyCities, Inv, LoadingKeepsWhole, WritesWhatIsMissing, ReadFileFails, Loaded,
         SkipFile
<1>3. Listed'
  BY DEF Inv, Listed, Stands, ReadFileFails, Loaded, SkipFile
<1> QED
  BY <1>1, <1>2, <1>3 DEF Inv

(* Cities_Create: a city comes to the list, and its file is looked at next. *)
LEMMA CreateKeeps ==
  ASSUME Inv, pc = "load", NEW f \in dir, Cities_Create(f)
  PROVE  Inv'
<1>1. file[f] \in Readable /\ list \in Seq(Readable)
  BY DEF Inv, TypeOK, Cities_Create
<1>2. /\ Append(list, file[f]) \in Seq(Readable)
      /\ ToSet(Append(list, file[f])) = ToSet(list) \cup {file[f]}
  BY <1>1, Appended
<1>3. list' \in Seq(Readable)
  BY <1>1, <1>2 DEF Cities_Create, City_InitFails, Push
<1>4. TypeOK'
  <2>1. faults' \in 0 .. MaxFaults
    BY FaultsBounded DEF Inv, Cities_Create, City_InitFails, Push
  <2>2. pc' \in {"load", "check"} /\ complete' \in BOOLEAN
    BY DEF Inv, TypeOK, Cities_Create, City_InitFails, Push
  <2> QED
    BY <1>1, <1>3, <2>1, <2>2
    DEF Inv, TypeOK, Cities_Create, tinydir_next, Readable
<1>5. LoadingKeepsWhole' /\ WritesWhatIsMissing' /\ WritesOnlyCities'
  BY <1>1 DEF WritesOnlyCities, Inv, LoadingKeepsWhole, WritesWhatIsMissing, Cities_Create,
         City_InitFails, Push
<1>6. Listed'
  <2>1. CASE pc' = "load" /\ list' = list
    BY <2>1 DEF Inv, Listed, Stands, Cities_Create
  <2>2. CASE pc' = "check" /\ list' = list
    BY <2>2 DEF Inv, Listed, Stands, Cities_Create
  <2>3. CASE pc' = "check" /\ list' = Append(list, file[f])
    BY <1>2, <2>3 DEF Inv, Listed, Stands, Cities_Create
  <2> QED
    BY <2>1, <2>2, <2>3 DEF Cities_Create, City_InitFails, Push
<1> QED
  BY <1>4, <1>5, <1>6 DEF Inv

(* Cities_WriteToFile: a city without a file is about to get one.           *)
LEMMA WriteToFileKeeps ==
  ASSUME Inv, Cities_WriteToFile
  PROVE  Inv'
<1>1. TypeOK'
  BY DEF Inv, TypeOK, Cities_WriteToFile
<1>2. LoadingKeepsWhole' /\ WritesWhatIsMissing' /\ WritesOnlyCities'
  BY DEF WritesOnlyCities, Inv, LoadingKeepsWhole, WritesWhatIsMissing, Cities_WriteToFile,
         Present
<1>3. Listed'
  <2> SUFFICES ASSUME NEW n \in ToSet(list) \ hurt, pc' = "load", n = name
               PROVE  Stands(n)
    BY DEF Inv, Listed, Stands, Cities_WriteToFile
  <2>1. Parses(file[n]) /\ pc = "check"
    BY DEF Cities_WriteToFile, Present
  <2>2. n \in DirFiles /\ file[n] \in {before[n], n, "torn"}
    BY <2>1 DEF Inv, TypeOK, DirFiles, WritesOnlyCities
  <2> QED
    BY <2>1, <2>2 DEF Stands, Foreign, Parses
<1> QED
  BY <1>1, <1>2, <1>3 DEF Inv

(* OpenForDump: what is truncated had no city in it.                        *)
LEMMA OpenKeeps ==
  ASSUME Inv, OpenForDump
  PROVE  Inv'
<1>1. name \in Names /\ name \in DirFiles
  BY DEF Inv, TypeOK, DirFiles
<1>2. dir' \subseteq DirFiles
  BY <1>1 DEF Inv, TypeOK, OpenForDump
<1>3. file' \in [DirFiles -> Contents]
  BY <1>1 DEF Inv, TypeOK, OpenForDump, Contents
<1>4. TypeOK'
  <2>1. faults' \in 0 .. MaxFaults
    BY FaultsBounded DEF Inv, OpenForDump
  <2> QED
    BY <1>1, <1>2, <1>3, <2>1 DEF Inv, TypeOK, OpenForDump
<1>5. LoadingKeepsWhole'
  BY <1>1 DEF Inv, TypeOK, LoadingKeepsWhole, WritesWhatIsMissing, OpenForDump
<1>6. WritesWhatIsMissing'
  BY <1>1 DEF Inv, TypeOK, WritesWhatIsMissing, OpenForDump
<1>7. WritesOnlyCities'
  BY <1>1 DEF Inv, TypeOK, WritesOnlyCities, OpenForDump
<1>8. Listed'
  <2> SUFFICES ASSUME NEW n \in ToSet(list) \ hurt'
               PROVE  Stands(n)'
    BY DEF Listed, OpenForDump
  <2>1. name \in hurt'
    BY DEF OpenForDump
  <2>2. n # name /\ n \notin hurt
    BY <2>1 DEF OpenForDump
  <2>3. Stands(n)
    BY <2>2 DEF Inv, Listed
  <2>4. n \in DirFiles
    BY DEF Inv, TypeOK, ToSet, DirFiles, Readable
  <2> QED
    BY <2>2, <2>3, <2>4 DEF Inv, TypeOK, OpenForDump, Stands
<1> QED
  BY <1>4, <1>5, <1>6, <1>7, <1>8 DEF Inv

(* Dump: a torn file becomes whole, or stays hurt.                          *)
LEMMA DumpKeeps ==
  ASSUME Inv, Dump
  PROVE  Inv'
<1>1. /\ name \in Readable /\ name \in DirFiles
      /\ name \notin {"absent", "torn"}
  BY CitiesAssumption
  DEF Inv, TypeOK, WritesWhatIsMissing, DirFiles, Readable, Dump
<1>2. TypeOK'
  <2>1. faults' \in 0 .. MaxFaults
    BY FaultsBounded DEF Inv, Dump
  <2>2. file' \in [DirFiles -> Contents]
    BY <1>1 DEF Inv, TypeOK, Dump, Contents
  <2> QED
    BY <2>1, <2>2 DEF Inv, TypeOK, Dump
<1>3. LoadingKeepsWhole'
  BY <1>1
  DEF Inv, TypeOK, LoadingKeepsWhole, WritesWhatIsMissing, Dump, Parses
<1>4. WritesWhatIsMissing'
  BY DEF WritesWhatIsMissing, Dump
<1>5. WritesOnlyCities'
  BY <1>1 DEF Inv, TypeOK, WritesOnlyCities, Dump
<1>6. ASSUME NEW n \in ToSet(list) \ hurt'
      PROVE  Stands(n)'
  <2>1. n \in DirFiles
    BY DEF Inv, TypeOK, ToSet, DirFiles, Readable
  <2>2. n \notin hurt => Stands(n)
    BY DEF Inv, Listed, Dump
  <2>3. CASE n = name
    BY <1>1, <2>1, <2>2, <2>3 DEF Inv, TypeOK, Dump, Stands
  <2>4. CASE n # name
    BY <1>1, <2>1, <2>2, <2>4 DEF Inv, TypeOK, Dump, Stands
  <2> QED
    BY <2>3, <2>4
<1>7. Listed'
  BY <1>6 DEF Listed, Dump
<1> QED
  BY <1>2, <1>3, <1>4, <1>5, <1>7 DEF Inv

(* GEO_OpenCity and GEO_DumpCity: nothing is loaded then, and a file that   *)
(* is not whole is hurt.                                                    *)
LEMMA GeoKeeps ==
  ASSUME Inv, GEO_DumpCity \/ \E n \in Names : GEO_OpenCity(n)
  PROVE  Inv'
<1>1. TypeOK'
  <2>1. faults' \in 0 .. MaxFaults
    BY FaultsBounded DEF Inv, TypeOK, GEO_DumpCity, GEO_OpenCity
  <2>2. file' \in [DirFiles -> Contents]
    BY DEF Inv, TypeOK, GEO_DumpCity, GEO_OpenCity, Contents, Readable,
           DirFiles
  <2> QED
    BY <2>1, <2>2 DEF Inv, TypeOK, GEO_DumpCity, GEO_OpenCity
<1>2. LoadingKeepsWhole' /\ WritesWhatIsMissing' /\ WritesOnlyCities'
  BY DEF WritesOnlyCities, LoadingKeepsWhole, WritesWhatIsMissing, GEO_DumpCity, GEO_OpenCity
<1>3. ASSUME NEW n \in ToSet(list) \ hurt'
      PROVE  Stands(n)'
  <2>1. n \in DirFiles /\ n \in Readable
    BY DEF Inv, TypeOK, ToSet, DirFiles, Readable
  <2>2. n \notin hurt => Stands(n)
    BY DEF Inv, Listed, GEO_DumpCity, GEO_OpenCity
  <2>3. CASE GEO_DumpCity
    BY <2>1, <2>2, <2>3 DEF Inv, TypeOK, GEO_DumpCity, Stands, Readable
  <2>4. CASE \E m \in Names : GEO_OpenCity(m)
    BY <2>1, <2>2, <2>4 DEF Inv, TypeOK, GEO_OpenCity, Stands
  <2> QED
    BY <2>3, <2>4
<1>4. Listed'
  BY <1>3 DEF Listed, GEO_DumpCity, GEO_OpenCity
<1> QED
  BY <1>1, <1>2, <1>4 DEF Inv

(* Cities_Destroy: the list gets shorter.                                   *)
LEMMA DestroyKeeps ==
  ASSUME Inv, NEW n \in Names, Cities_Destroy(n)
  PROVE  Inv'
<1>1. list' \in Seq(Readable) /\ ToSet(list') \subseteq ToSet(list)
  BY Removed DEF Inv, TypeOK, Cities_Destroy
<1>2. TypeOK'
  BY <1>1 DEF Inv, TypeOK, Cities_Destroy
<1>3. LoadingKeepsWhole' /\ WritesWhatIsMissing' /\ WritesOnlyCities'
  BY DEF WritesOnlyCities, LoadingKeepsWhole, WritesWhatIsMissing, Cities_Destroy
<1>4. Listed'
  BY <1>1 DEF Inv, Listed, Stands, Cities_Destroy
<1> QED
  BY <1>2, <1>3, <1>4 DEF Inv

(* Cities_Dispose and Killed: nobody is listed.                             *)
LEMMA EndKeeps ==
  ASSUME Inv, Cities_Dispose \/ Killed
  PROVE  Inv'
<1>1. TypeOK'
  <2>1. faults' \in 0 .. MaxFaults
    <3>1. CASE Cities_Dispose
      BY <3>1 DEF Inv, TypeOK, Cities_Dispose
    <3>2. CASE Killed
      BY <3>2, FaultsBounded DEF Inv, Killed
    <3> QED
      BY <3>1, <3>2
  <2>2. list' = <<>>
    BY DEF Cities_Dispose, Killed
  <2>3. list' \in Seq(Readable)
    BY <2>2
  <2> QED
    BY <2>1, <2>3 DEF Inv, TypeOK, Cities_Dispose, Killed, tinydir_close
<1>2. LoadingKeepsWhole' /\ WritesWhatIsMissing' /\ WritesOnlyCities'
  BY DEF WritesOnlyCities, LoadingKeepsWhole, WritesWhatIsMissing, Cities_Dispose, Killed
<1>3. Listed'
  BY DEF Listed, ToSet, Cities_Dispose, Killed
<1> QED
  BY <1>1, <1>2, <1>3 DEF Inv

-----------------------------------------------------------------------------
(* Every step keeps the invariant.                                          *)
LEMMA InvNext ==
  ASSUME Inv, [Next]_vars
  PROVE  Inv'
<1>1. CASE Cities_AddFromCache
  <2>1. CASE pc = "load" /\ \E f \in dir : Cities_Create(f)
    BY <2>1, CreateKeeps
  <2>2. Loaded => pc = "load"
    BY DEF Loaded
  <2> QED
    BY <1>1, <2>1, <2>2, SkipKeeps DEF Cities_AddFromCache
<1>2. CASE UNCHANGED vars
  BY <1>2
  DEF vars, Inv, TypeOK, LoadingKeepsWhole, WritesWhatIsMissing,
      WritesOnlyCities, Listed, Stands
<1> QED
  BY <1>1, <1>2, CitiesInitKeeps, WriteToFileKeeps, OpenKeeps, DumpKeeps,
     GeoKeeps, DestroyKeeps, EndKeeps DEF Next, Loading

(* The invariant holds.                                                     *)
THEOREM DirectoryInvariant == Spec => []Inv
<1>1. Init => Inv
  BY InvInit
<1>2. Inv /\ [Next]_vars => Inv'
  BY InvNext
<1> QED
  BY <1>1, <1>2, PTL DEF Spec

(* Wherever a load fails or is killed, a file that was whole when it began  *)
(* is as it was (LoadingKeepsWhole).                                        *)
THEOREM NothingIsLost == Spec => []LoadingKeepsWhole
<1>1. Inv => LoadingKeepsWhole
  BY DEF Inv
<1> QED
  BY <1>1, DirectoryInvariant, PTL

(* Every listed city stands in the file of its own name, unless a write of  *)
(* that file was cut short or something foreign has stood there since the   *)
(* server started (ListIsSound).                                            *)
THEOREM TheListIsSound == Spec => []ListIsSound
<1>1. Inv => ListIsSound
  BY DEF Inv, Listed, Stands, ListIsSound, ListedHaveFiles
<1> QED
  BY <1>1, DirectoryInvariant, PTL

-----------------------------------------------------------------------------
(* What is counted is finite.                                               *)
LEMMA CountsAreNumbers ==
  ASSUME TypeOK, NEW n
  PROVE  /\ IsFiniteSet({i \in DOMAIN list : list[i] = n})
         /\ IsFiniteSet({f \in dir : file[f] = n})
         /\ IsFiniteSet({f \in DirFiles : file[f] = n})
         /\ Times(n) \in Nat /\ StillToCome(n) \in Nat
         /\ FilesOf(file, n) \in Nat /\ FilesOf(before, n) \in Nat
<1>1. IsFiniteSet(DirFiles)
  BY CitiesAssumption DEF DirFiles
<1>2. IsFiniteSet(DOMAIN list)
  <2>1. DOMAIN list = 1 .. Len(list) /\ Len(list) \in Nat
    BY DEF TypeOK
  <2> QED
    BY <2>1, FS_Interval
<1>3. IsFiniteSet({i \in DOMAIN list : list[i] = n})
  BY <1>2, FS_Subset
<1>4. IsFiniteSet({f \in dir : file[f] = n})
  <2>1. {f \in dir : file[f] = n} \in SUBSET DirFiles
    BY DEF TypeOK
  <2> QED
    BY <1>1, <2>1, FS_Subset
<1>5. /\ IsFiniteSet({f \in DirFiles : file[f] = n})
      /\ IsFiniteSet({f \in DirFiles : before[f] = n})
  BY <1>1, FS_Subset
<1> QED
  BY <1>3, <1>4, <1>5, FS_CardinalityType DEF Times, StillToCome, FilesOf

(* A list that is one city longer has that city once more.                  *)
LEMMA PushCounts ==
  ASSUME TypeOK, NEW c \in Readable, list' = Append(list, c),
         NEW n
  PROVE  Times(n)' = IF n = c THEN Times(n) + 1 ELSE Times(n)
<1> DEFINE at == {i \in DOMAIN list : list[i] = n}
<1>1. /\ DOMAIN list = 1 .. Len(list) /\ Len(list) \in Nat
      /\ DOMAIN list' = 1 .. Len(list) + 1
      /\ list'[Len(list) + 1] = c
      /\ \A i \in 1 .. Len(list) : list'[i] = list[i]
  BY DEF TypeOK
<1>2. Len(list) + 1 \notin at
  BY <1>1
<1>3. {i \in DOMAIN list' : list'[i] = n} =
        IF n = c THEN at \cup {Len(list) + 1} ELSE at
  BY <1>1
<1>4. IsFiniteSet(at)
  BY CountsAreNumbers
<1>5. Cardinality(at \cup {Len(list) + 1}) = Cardinality(at) + 1
  BY <1>2, <1>4, FS_AddElement
<1>6. Times(n) = Cardinality(at)
  BY DEF Times
<1>7. Times(n)' = Cardinality({i \in DOMAIN list' : list'[i] = n})
  BY DEF Times
<1> HIDE DEF at
<1> QED
  BY <1>3, <1>5, <1>6, <1>7

(* An entry that readdir has returned is no longer to come.                 *)
LEMMA EntryCounts ==
  ASSUME TypeOK, NEW f \in dir, tinydir_next(f), UNCHANGED file, NEW n
  PROVE  StillToCome(n)' =
           IF n = file[f] THEN StillToCome(n) - 1 ELSE StillToCome(n)
<1> DEFINE entries == {g \in dir : file[g] = n}
<1>1. {g \in dir' : file'[g] = n} = entries \ {f}
  BY DEF tinydir_next
<1>2. f \in entries <=> n = file[f]
  OBVIOUS
<1>3. IsFiniteSet(entries)
  BY CountsAreNumbers
<1>4. Cardinality(entries \ {f}) =
        IF f \in entries THEN Cardinality(entries) - 1 ELSE Cardinality(entries)
  BY <1>3, FS_RemoveElement
<1>5. /\ StillToCome(n) = Cardinality(entries)
      /\ StillToCome(n)' = Cardinality({g \in dir' : file'[g] = n})
  BY DEF StillToCome
<1> HIDE DEF entries
<1> QED
  BY <1>1, <1>2, <1>4, <1>5

(* Cities_Init: every city is still to come.                                *)
LEMMA CitiesInitCounts ==
  ASSUME Inv, Inv', Cities_Init, pc' = "load"
  PROVE  Counted'
<1> SUFFICES ASSUME NEW n \in Readable
             PROVE  /\ Times(n)' + StillToCome(n)' <= FilesOf(file, n)'
                    /\ FilesOf(before, n)' <= Times(n)' + StillToCome(n)'
  BY DEF Counted
<1>1. TypeOK'
  BY DEF Inv
<1>2. list' = <<>> /\ file' = file /\ before' = file
  BY DEF Cities_Init
<1>3. dir' = {f \in DirFiles : file[f] # "absent"}
  BY DEF Cities_Init, tinydir_open
<1>4. n # "absent"
  BY CitiesAssumption DEF Readable
<1>5. {f \in dir' : file'[f] = n} = {f \in DirFiles : file[f] = n}
  BY <1>2, <1>3, <1>4
<1>6. StillToCome(n)' = Cardinality({f \in dir' : file'[f] = n})
  BY DEF StillToCome
<1>7. FilesOf(file, n)' = Cardinality({f \in DirFiles : file[f] = n})
  BY <1>2 DEF FilesOf
<1>8. FilesOf(before, n)' = Cardinality({f \in DirFiles : file[f] = n})
  BY <1>2 DEF FilesOf
<1>9. Times(n)' = 0
  <2>1. {i \in DOMAIN list' : list'[i] = n} = {}
    BY <1>2
  <2> QED
    BY <2>1, FS_EmptySet DEF Times
<1>10. FilesOf(file, n)' \in Nat
  BY <1>2, CountsAreNumbers DEF Inv, FilesOf
<1> QED
  BY <1>5, <1>6, <1>7, <1>8, <1>9, <1>10

(* SkipFile: what is skipped is no city.                                    *)
LEMMA SkipCounts ==
  ASSUME Inv, Counted, pc = "load", NEW f \in dir, SkipFile(f)
  PROVE  Counted'
<1> SUFFICES ASSUME NEW n \in Readable
             PROVE  /\ Times(n)' = Times(n)
                    /\ StillToCome(n)' = StillToCome(n)
                    /\ FilesOf(file, n)' = FilesOf(file, n)
                    /\ FilesOf(before, n)' = FilesOf(before, n)
  BY DEF Counted, SkipFile
<1>1. n # file[f]
  BY DEF SkipFile
<1>2. StillToCome(n)' = StillToCome(n)
  BY <1>1, EntryCounts DEF Inv, SkipFile
<1> QED
  BY <1>2 DEF SkipFile, Times, FilesOf

(* Cities_Create: the city goes over from the entries to the list, or gets  *)
(* lost, and then the load is not complete.                                 *)
LEMMA CreateCounts ==
  ASSUME Inv, Counted, pc = "load", NEW f \in dir, Cities_Create(f)
  PROVE  Counted'
<1> SUFFICES ASSUME NEW n \in Readable
             PROVE  /\ Times(n)' + StillToCome(n)' <= FilesOf(file, n)'
                    /\ complete' => FilesOf(before, n)' <= Times(n)' + StillToCome(n)'
  BY DEF Counted
<1>1. /\ Times(n) + StillToCome(n) <= FilesOf(file, n)
      /\ complete => FilesOf(before, n) <= Times(n) + StillToCome(n)
  BY DEF Counted
<1>2. /\ Times(n) \in Nat /\ StillToCome(n) \in Nat
      /\ FilesOf(file, n) \in Nat /\ FilesOf(before, n) \in Nat
  BY CountsAreNumbers DEF Inv
<1>3. UNCHANGED file /\ UNCHANGED before /\ tinydir_next(f) /\ file[f] \in Readable
  BY DEF Cities_Create
<1>4. FilesOf(file, n)' = FilesOf(file, n) /\ FilesOf(before, n)' = FilesOf(before, n)
  BY <1>3 DEF FilesOf
<1>5. StillToCome(n)' =
        IF n = file[f] THEN StillToCome(n) - 1 ELSE StillToCome(n)
  BY <1>3, EntryCounts DEF Inv
<1>6. CASE list' = Append(list, file[f]) /\ UNCHANGED complete
  <2>1. Times(n)' = IF n = file[f] THEN Times(n) + 1 ELSE Times(n)
    BY <1>3, <1>6, PushCounts DEF Inv
  <2> QED
    BY <1>1, <1>2, <1>4, <1>5, <1>6, <2>1
<1>7. CASE list' = list /\ ~complete'
  <2>1. Times(n)' = Times(n)
    BY <1>7 DEF Times
  <2> QED
    BY <1>1, <1>2, <1>4, <1>5, <1>7, <2>1
<1> QED
  BY <1>6, <1>7 DEF Cities_Create, City_InitFails, Push

(* OpenForDump: no file of a city comes or goes.                            *)
LEMMA OpenCounts ==
  ASSUME Inv, Counted, OpenForDump
  PROVE  Counted'
<1> SUFFICES ASSUME NEW n \in Readable
             PROVE  /\ Times(n)' = Times(n)
                    /\ StillToCome(n)' = StillToCome(n)
                    /\ FilesOf(file, n)' = FilesOf(file, n)
                    /\ FilesOf(before, n)' = FilesOf(before, n)
  BY DEF Counted, OpenForDump
<1>1. n \notin {"absent", "torn"}
  BY CitiesAssumption DEF Readable
<1>2. name \in DirFiles /\ file[name] \in {"absent", "torn"}
  BY DEF Inv, TypeOK, DirFiles, WritesWhatIsMissing, OpenForDump, Parses
<1>3. file' \in {file, [file EXCEPT ![name] = "torn"]}
      /\ dir' \in {dir, dir \cup {name}}
      /\ (dir' # dir => file' # file \/ file[name] = "absent")
  BY DEF OpenForDump
<1>4. \A g \in DirFiles : file'[g] = n <=> file[g] = n
  BY <1>1, <1>2, <1>3 DEF Inv, TypeOK
<1>5. file'[name] # n /\ file[name] # n
  BY <1>1, <1>2, <1>4
<1>6. {g \in dir' : file'[g] = n} = {g \in dir : file[g] = n}
  BY <1>3, <1>4, <1>5 DEF Inv, TypeOK
<1>7. {g \in DirFiles : file'[g] = n} = {g \in DirFiles : file[g] = n}
  BY <1>4
<1>8. StillToCome(n)' = StillToCome(n)
  BY <1>6 DEF StillToCome
<1>9. FilesOf(file, n)' = FilesOf(file, n)
  BY <1>7 DEF FilesOf
<1> QED
  BY <1>8, <1>9 DEF OpenForDump, Times, FilesOf

(* Dump: a city has a file more, which may be still to come.                *)
LEMMA DumpCounts ==
  ASSUME Inv, Counted, Dump
  PROVE  Counted'
<1> SUFFICES ASSUME NEW n \in Readable
             PROVE  /\ Times(n)' + StillToCome(n)' <= FilesOf(file, n)'
                    /\ complete' => FilesOf(before, n)' <= Times(n)' + StillToCome(n)'
  BY DEF Counted
<1>1. /\ Times(n) + StillToCome(n) <= FilesOf(file, n)
      /\ complete => FilesOf(before, n) <= Times(n) + StillToCome(n)
  BY DEF Counted, Dump
<1>2. /\ Times(n) \in Nat /\ StillToCome(n) \in Nat
      /\ FilesOf(file, n) \in Nat /\ FilesOf(before, n) \in Nat
      /\ IsFiniteSet({g \in dir : file[g] = n})
      /\ IsFiniteSet({g \in DirFiles : file[g] = n})
  BY CountsAreNumbers DEF Inv
<1>3. UNCHANGED <<dir, list, complete, before>>
  BY DEF Dump
<1>4. Times(n)' = Times(n) /\ FilesOf(before, n)' = FilesOf(before, n)
  BY <1>3 DEF Times, FilesOf
<1>5. CASE UNCHANGED file
  BY <1>1, <1>3, <1>4, <1>5 DEF StillToCome, FilesOf
<1>6. CASE file' = [file EXCEPT ![name] = name]
  <2>1. /\ name \in DirFiles /\ file[name] = "torn" /\ n # "torn"
        /\ dir \subseteq DirFiles
    BY CitiesAssumption
    DEF Inv, TypeOK, DirFiles, WritesWhatIsMissing, Dump, Readable
  <2>2. \A g \in DirFiles : file'[g] = IF g = name THEN name ELSE file[g]
    BY <1>6 DEF Inv, TypeOK
  <2>3. CASE n # name
    <3>1. {g \in dir' : file'[g] = n} = {g \in dir : file[g] = n}
      BY <1>3, <2>1, <2>2, <2>3
    <3>2. {g \in DirFiles : file'[g] = n} = {g \in DirFiles : file[g] = n}
      BY <2>1, <2>2, <2>3
    <3> QED
      BY <1>1, <1>3, <1>4, <3>1, <3>2 DEF StillToCome, FilesOf
  <2>4. CASE n = name
    <3>1. {g \in DirFiles : file'[g] = n} = {g \in DirFiles : file[g] = n} \cup {name}
      BY <2>1, <2>2, <2>4
    <3>2. name \notin {g \in DirFiles : file[g] = n}
      BY <2>1
    <3>3. FilesOf(file, n)' = FilesOf(file, n) + 1
      <4>1. FilesOf(file, n)' = Cardinality({g \in DirFiles : file'[g] = n})
        BY DEF FilesOf
      <4>2. FilesOf(file, n) = Cardinality({g \in DirFiles : file[g] = n})
        BY DEF FilesOf
      <4>3. Cardinality({g \in DirFiles : file[g] = n} \cup {name}) =
              Cardinality({g \in DirFiles : file[g] = n}) + 1
        BY <1>2, <3>2, FS_AddElement
      <4> QED
        BY <3>1, <4>1, <4>2, <4>3
    <3>4. {g \in dir' : file'[g] = n} =
            IF name \in dir THEN {g \in dir : file[g] = n} \cup {name}
                            ELSE {g \in dir : file[g] = n}
      BY <1>3, <2>1, <2>2, <2>4
    <3>5. StillToCome(n)' \in {StillToCome(n), StillToCome(n) + 1}
      <4>1. StillToCome(n)' = Cardinality({g \in dir' : file'[g] = n})
        BY DEF StillToCome
      <4>2. StillToCome(n) = Cardinality({g \in dir : file[g] = n})
        BY DEF StillToCome
      <4>3. Cardinality({g \in dir : file[g] = n} \cup {name}) \in
              {StillToCome(n), StillToCome(n) + 1}
        BY <1>2, <4>2, FS_AddElement
      <4> QED
        BY <3>4, <4>1, <4>2, <4>3
    <3> QED
      BY <1>1, <1>2, <1>3, <1>4, <3>3, <3>5
  <2> QED
    BY <2>3, <2>4
<1> QED
  BY <1>5, <1>6 DEF Dump

(* Every step keeps the counts.                                             *)
LEMMA CountedNext ==
  ASSUME Inv, Inv', Counted, [Next]_vars
  PROVE  Counted'
<1>1. CASE pc' \notin {"load", "check", "open", "dump"}
  BY <1>1 DEF Counted
<1>2. CASE UNCHANGED <<file, dir, list, before, complete>>
           /\ pc \in {"load", "check", "open", "dump"}
  BY <1>2 DEF Counted, Times, StillToCome, FilesOf
<1>3. CASE Cities_Init
  BY <1>1, <1>3, CitiesInitCounts DEF Cities_Init
<1>4. CASE Cities_AddFromCache
  <2>1. CASE Loaded \/ ReadFileFails
    BY <1>1, <2>1 DEF Loaded, ReadFileFails
  <2> QED
    BY <1>4, <2>1, SkipCounts, CreateCounts DEF Cities_AddFromCache
<1>5. CASE Cities_WriteToFile
  BY <1>2, <1>5 DEF Cities_WriteToFile
<1>6. CASE \/ GEO_DumpCity \/ Cities_Dispose \/ Killed
           \/ \E n \in Names : GEO_OpenCity(n) \/ Cities_Destroy(n)
  BY <1>1, <1>6
  DEF GEO_DumpCity, Cities_Dispose, Killed, GEO_OpenCity, Cities_Destroy
<1>7. CASE UNCHANGED vars
  BY <1>1, <1>2, <1>7 DEF vars
<1> QED
  BY <1>3, <1>4, <1>5, <1>6, <1>7, OpenCounts, DumpCounts DEF Next, Loading

(* A load that nothing cut short lists every city once for every file that  *)
(* was there when it began, and no city more often than it has files, even  *)
(* though it adds files to the directory it reads (LoadsEveryFileOnce).     *)
THEOREM EveryFileIsLoadedOnce == Spec => LoadsEveryFileOnce
<1>1. Init => Counted
  BY DEF Init, Counted
<1>2. Inv /\ Inv' /\ Counted /\ [Next]_vars => Counted'
  BY CountedNext
<1>3. Inv /\ Counted /\ Loaded /\ complete =>
        \A n \in Readable : Times(n) \in FilesOf(before, n) .. FilesOf(file, n)
  <2> SUFFICES ASSUME Inv, Counted, Loaded, complete, NEW n \in Readable
               PROVE  Times(n) \in FilesOf(before, n) .. FilesOf(file, n)
    OBVIOUS
  <2>1. StillToCome(n) = 0
    <3>1. {f \in dir : file[f] = n} = {}
      BY DEF Loaded
    <3> QED
      BY <3>1, FS_EmptySet DEF StillToCome
  <2>2. /\ Times(n) + StillToCome(n) <= FilesOf(file, n)
        /\ FilesOf(before, n) <= Times(n) + StillToCome(n)
    BY DEF Counted, Loaded
  <2>3. /\ Times(n) \in Nat /\ FilesOf(file, n) \in Nat
        /\ FilesOf(before, n) \in Nat
    BY CountsAreNumbers DEF Inv
  <2> QED
    BY <2>1, <2>2, <2>3
<1>4. Inv /\ Counted =>
        [Loaded /\ complete =>
           \A n \in Readable :
             Times(n) \in FilesOf(before, n) .. FilesOf(file, n)]_vars
  BY <1>3
<1>5. Spec => []Counted
  BY <1>1, <1>2, DirectoryInvariant, PTL DEF Spec
<1> QED
  BY <1>4, <1>5, DirectoryInvariant, PTL DEF LoadsEveryFileOnce

=============================================================================
