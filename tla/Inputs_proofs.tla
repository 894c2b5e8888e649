----------------------------- MODULE Inputs_proofs -----------------------------
(***************************************************************************)
(* Proofs about what the server makes of its inputs: the name of a city     *)
(* that is decoded over itself, the URL of a request, and what upstream     *)
(* sends; for names, URLs and answers of any length.                        *)
(***************************************************************************)
EXTENDS URLDecoder, URLHandler, Responses, FiniteSetTheorems, SequenceTheorems,
        WellFoundedInduction, TLAPS

-----------------------------------------------------------------------------
(* A set of naturals has a least element: induction, for all that follows.  *)
LEMMA LeastNumber ==
  ASSUME NEW T, T \subseteq Nat, T # {}
  PROVE  \E n \in T : \A m \in T : n <= m
<1> DEFINE R == OpToRel(<, Nat)
<1>1. IsWellFoundedOn(R, Nat)
  BY NatLessThanWellFounded
<1>2. \A x, y \in Nat : <<y, x>> \in R <=> y < x
  BY DEF OpToRel
<1> HIDE DEF R
<1>3. PICK n \in T : \A y \in T : ~ (<<y, n>> \in R)
  BY <1>1, WFMin
<1>4. ASSUME NEW m \in T
      PROVE  n <= m
  <2>1. ~ (m < n)
    BY <1>2, <1>3
  <2> QED
    BY <2>1
<1> QED
  BY <1>4

(* What holds of 0 and of each successor holds of all numbers.              *)
LEMMA AllNumbers ==
  ASSUME NEW T, 0 \in T, \A j \in Nat : j \in T => j + 1 \in T
  PROVE  Nat \subseteq T
<1> SUFFICES ASSUME NEW k \in Nat, k \notin T
             PROVE  FALSE
  OBVIOUS
<1> DEFINE bad == Nat \ T
<1>1. PICK j \in bad : \A i \in bad : j <= i
  <2>1. bad \subseteq Nat /\ k \in bad
    OBVIOUS
  <2> HIDE DEF bad
  <2> QED
    BY <2>1, LeastNumber
<1>2. j \in Nat /\ j \notin T /\ j # 0
  BY <1>1
<1>3. j - 1 \in Nat /\ ~ (j <= j - 1) /\ (j - 1) + 1 = j
  BY <1>2
<1>4. j - 1 \in T
  BY <1>1, <1>3
<1> QED
  BY <1>2, <1>3, <1>4

(* The least number of a set is the one that Min chooses.                   *)
LEMMA MinOf ==
  ASSUME NEW T, T \subseteq Nat, NEW n \in T, \A m \in T : n <= m
  PROVE  Min(T) = n
<1> DEFINE c == CHOOSE x \in T : \A y \in T : x =< y
<1>1. c \in T /\ \A y \in T : c =< y
  OBVIOUS
<1>2. c <= n /\ n <= c /\ c \in Nat /\ n \in Nat
  BY <1>1
<1> HIDE DEF c
<1>3. c = n
  BY <1>2
<1> QED
  BY <1>3 DEF Min, c

-----------------------------------------------------------------------------
(***************************************************************************)
(* Names.  When the decoder stands at s, what it has written is what the    *)
(* characters in front of s mean, one for each that begins something, and   *)
(* s is not inside an escape.                                               *)
(***************************************************************************)
Bytes == NameCharacters \cup {"NUL", " "} \cup (Digits \X Digits)

Ended == Append(raw, "NUL")

(* What begins in front of s is decoded, each in its place.                 *)
DecodedTo(k) ==
  \A i \in Starts(raw) : i <= k => buf[Rank(raw, i)] = Meaning(raw, i)

NameTypeOK ==
  /\ raw \in Seq(NameCharacters)
  /\ buf \in Seq(Bytes) /\ Len(buf) = Len(raw) + 1
  /\ s \in 1 .. Len(raw) + 1
  /\ decoding \in {"name", "decode", "done"}

NameInv ==
  /\ NameTypeOK
  /\ decoding = "name" => buf = Ended /\ s = 1 /\ out = 1
  /\ decoding = "decode" =>
       /\ Contains(raw, "%")
       /\ ~EscapeAt(raw, s - 1) /\ ~EscapeAt(raw, s - 2)
       /\ out = Rank(raw, s - 1) + 1
       /\ \A i \in s .. Len(buf) : buf[i] = Ended[i]
       /\ DecodedTo(s - 1)
  /\ decoding = "done" =>
       IF Contains(raw, "%")
         THEN DecodedTo(Len(raw)) /\ buf[Rank(raw, Len(raw)) + 1] = "NUL"
         ELSE buf = Ended

(* How many elements of a set of places are at most i, place by place.      *)
Count(S, i) == Cardinality({j \in S : j <= i})

LEMMA CountSteps ==
  ASSUME NEW n \in Nat, NEW S, \A i \in S : i \in Nat /\ 1 <= i /\ i <= n
  PROVE  /\ IsFiniteSet(S)
         /\ Count(S, 0) = 0
         /\ \A i \in Nat : Count(S, i) \in Nat
         /\ \A i \in Nat :
              Count(S, i + 1) = IF i + 1 \in S THEN Count(S, i) + 1 ELSE Count(S, i)
         /\ Count(S, n) = Cardinality(S)
<1> DEFINE upTo(i) == {j \in S : j <= i}
<1>1. IsFiniteSet(S)
  <2>1. S \subseteq 1 .. n
    OBVIOUS
  <2>2. IsFiniteSet(1 .. n)
    BY FS_Interval
  <2> QED
    BY <2>1, <2>2, FS_Subset
<1>2. \A i \in Nat : IsFiniteSet(upTo(i)) /\ Cardinality(upTo(i)) \in Nat
  BY <1>1, FS_Subset, FS_CardinalityType
<1>3. upTo(0) = {} /\ upTo(n) = S
  OBVIOUS
<1>4. Count(S, 0) = 0 /\ Count(S, n) = Cardinality(S)
  BY <1>3, FS_EmptySet DEF Count
<1>5. ASSUME NEW i \in Nat
      PROVE  Count(S, i + 1) = IF i + 1 \in S THEN Count(S, i) + 1 ELSE Count(S, i)
  <2>1. CASE i + 1 \in S
    <3>1. upTo(i + 1) = upTo(i) \cup {i + 1} /\ i + 1 \notin upTo(i)
      BY <2>1
    <3>2. Cardinality(upTo(i) \cup {i + 1}) = Cardinality(upTo(i)) + 1
      BY <1>2, <3>1, FS_AddElement
    <3> QED
      BY <2>1, <3>1, <3>2 DEF Count
  <2>2. CASE i + 1 \notin S
    <3>1. upTo(i + 1) = upTo(i)
      BY <2>2
    <3> QED
      BY <2>2, <3>1 DEF Count
  <2> QED
    BY <2>1, <2>2
<1> QED
  BY <1>1, <1>2, <1>4, <1>5 DEF Count

(* They number the elements in their order.                                 *)
LEMMA CountOrder ==
  ASSUME NEW n \in Nat, NEW S, \A i \in S : i \in Nat /\ 1 <= i /\ i <= n
  PROVE  /\ \A i, j \in Nat : i <= j => Count(S, i) <= Count(S, j)
         /\ \A i \in Nat : \A j \in S : i < j => Count(S, i) < Count(S, j)
         /\ \A i \in S : Count(S, i) \in 1 .. Cardinality(S)
         /\ \A k \in 1 .. Cardinality(S) : \E i \in S : Count(S, i) = k
<1>1. /\ Count(S, 0) = 0
      /\ \A i \in Nat : Count(S, i) \in Nat
      /\ \A i \in Nat :
           Count(S, i + 1) = IF i + 1 \in S THEN Count(S, i) + 1 ELSE Count(S, i)
      /\ Count(S, n) = Cardinality(S)
  BY CountSteps
<1>2. ASSUME NEW i \in Nat, NEW j \in Nat, i <= j
      PROVE  Count(S, i) <= Count(S, j)
  <2> DEFINE T == {d \in Nat : Count(S, i) <= Count(S, i + d)}
  <2>1. 0 \in T
    <3>1. i + 0 = i
      OBVIOUS
    <3> QED
      BY <1>1, <3>1
  <2>2. ASSUME NEW d \in Nat, d \in T
        PROVE  d + 1 \in T
    <3>1. i + d \in Nat /\ i + (d + 1) = (i + d) + 1
      OBVIOUS
    <3>2. Count(S, i + (d + 1)) \in {Count(S, i + d), Count(S, i + d) + 1}
      BY <1>1, <3>1
    <3>3. Count(S, i + d) \in Nat /\ Count(S, i) \in Nat
      BY <1>1, <3>1
    <3> QED
      BY <2>2, <3>2, <3>3
  <2> HIDE DEF T
  <2>3. j - i \in T
    BY <1>2, <2>1, <2>2, AllNumbers
  <2>4. i + (j - i) = j
    OBVIOUS
  <2> QED
    BY <2>3, <2>4 DEF T
<1>3. ASSUME NEW i \in Nat, NEW j \in S, i < j
      PROVE  Count(S, i) < Count(S, j)
  <2>1. j - 1 \in Nat /\ i <= j - 1 /\ (j - 1) + 1 = j
    BY <1>3
  <2>2. Count(S, j) = Count(S, j - 1) + 1
    BY <1>1, <2>1
  <2>3. Count(S, i) <= Count(S, j - 1)
    BY <1>2, <2>1
  <2>4. Count(S, i) \in Nat /\ Count(S, j - 1) \in Nat
    BY <1>1, <2>1
  <2> QED
    BY <2>2, <2>3, <2>4
<1>4. ASSUME NEW i \in S
      PROVE  Count(S, i) \in 1 .. Cardinality(S)
  <2>1. i \in Nat /\ 0 < i /\ i <= n
    OBVIOUS
  <2>2. Count(S, 0) < Count(S, i)
    BY <1>3, <2>1
  <2>3. Count(S, i) <= Count(S, n)
    BY <1>2, <2>1
  <2>4. Count(S, i) \in Nat /\ Count(S, n) \in Nat
    BY <1>1, <2>1
  <2> QED
    BY <1>1, <2>2, <2>3, <2>4
<1>5. ASSUME NEW k \in 1 .. Cardinality(S)
      PROVE  \E i \in S : Count(S, i) = k
  <2> DEFINE T == {i \in Nat : k <= Count(S, i)}
  <2>0. Cardinality(S) \in Nat /\ k \in Nat /\ 1 <= k /\ k <= Cardinality(S)
    BY <1>1
  <2>1. n \in T
    BY <1>1, <2>0
  <2>2. PICK i \in T : \A m \in T : i <= m
    <3>1. T \subseteq Nat /\ T # {}
      BY <2>1
    <3> HIDE DEF T
    <3> QED
      BY <3>1, LeastNumber
  <2>3. i \in Nat /\ k <= Count(S, i) /\ i # 0
    BY <1>1, <2>0, <2>2
  <2>4. i - 1 \in Nat /\ (i - 1) + 1 = i /\ i - 1 \notin T
    BY <2>2, <2>3
  <2>5. ~ (k <= Count(S, i - 1)) /\ Count(S, i - 1) \in Nat
    BY <1>1, <2>4
  <2>6. Count(S, i) = IF i \in S THEN Count(S, i - 1) + 1 ELSE Count(S, i - 1)
    BY <1>1, <2>4
  <2> QED
    BY <2>0, <2>3, <2>5, <2>6
<1> QED
  BY <1>2, <1>3, <1>4, <1>5

(* The things that begin in a text are numbered in their order.             *)
LEMMA RankSteps ==
  ASSUME NEW A, NEW text \in Seq(A)
  PROVE  /\ \A i \in Starts(text) : i \in Nat /\ 1 <= i /\ i <= Len(text)
         /\ Cardinality(Starts(text)) \in Nat
         /\ Rank(text, 0) = 0
         /\ Rank(text, Len(text)) = Cardinality(Starts(text))
         /\ \A i \in Nat : Rank(text, i) \in Nat
         /\ \A i \in Nat :
              Rank(text, i + 1) = IF i + 1 \in Starts(text) THEN Rank(text, i) + 1
                                                            ELSE Rank(text, i)
         /\ \A i \in Nat : \A j \in Starts(text) :
              i < j => Rank(text, i) < Rank(text, j)
         /\ \A i \in Starts(text) :
              Rank(text, i) \in 1 .. Cardinality(Starts(text))
         /\ \A k \in 1 .. Cardinality(Starts(text)) :
              \E i \in Starts(text) : Rank(text, i) = k
<1>1. Len(text) \in Nat /\ DOMAIN text = 1 .. Len(text)
  BY LenProperties
<1>2. \A i \in Starts(text) : i \in Nat /\ 1 <= i /\ i <= Len(text)
  BY <1>1 DEF Starts
<1> DEFINE S == Starts(text)
<1>3. \A i : Rank(text, i) = Count(S, i)
  BY DEF Rank, Count
<1> HIDE DEF S
<1>4. \A i \in S : i \in Nat /\ 1 <= i /\ i <= Len(text)
  BY <1>2 DEF S
<1>5. /\ IsFiniteSet(S)
      /\ Count(S, 0) = 0
      /\ \A i \in Nat : Count(S, i) \in Nat
      /\ \A i \in Nat :
           Count(S, i + 1) = IF i + 1 \in S THEN Count(S, i) + 1 ELSE Count(S, i)
      /\ Count(S, Len(text)) = Cardinality(S)
  BY <1>1, <1>4, CountSteps
<1>6. /\ \A i \in Nat : \A j \in S : i < j => Count(S, i) < Count(S, j)
      /\ \A i \in S : Count(S, i) \in 1 .. Cardinality(S)
      /\ \A k \in 1 .. Cardinality(S) : \E i \in S : Count(S, i) = k
  BY <1>1, <1>4, CountOrder
<1>7. Cardinality(S) \in Nat
  BY <1>5, FS_CardinalityType
<1> QED
  BY <1>3, <1>4, <1>5, <1>6, <1>7 DEF S

(* A text for C is what is in front of its first NUL.                       *)
LEMMA SameCString ==
  ASSUME NEW A, NEW text1 \in Seq(A), NEW text2 \in Seq(A), NEW k \in Nat,
         k + 1 <= Len(text1), k + 1 <= Len(text2),
         \A i \in 1 .. k + 1 : text1[i] = text2[i],
         text1[k + 1] = "NUL"
  PROVE  CString(text1) = CString(text2)
<1> DEFINE nuls(text) == {i \in 1 .. Len(text) : text[i] = "NUL"}
<1>1. Len(text1) \in Nat /\ Len(text2) \in Nat
  BY LenProperties
<1>2. k + 1 \in nuls(text1)
  BY <1>1
<1>3. PICK p \in nuls(text1) : \A i \in nuls(text1) : p <= i
  <2>1. nuls(text1) \subseteq Nat /\ nuls(text1) # {}
    BY <1>2
  <2> HIDE DEF nuls
  <2> QED
    BY <2>1, LeastNumber
<1>4. p \in 1 .. k + 1 /\ p \in Nat
  BY <1>2, <1>3
<1>5. p \in nuls(text2)
  BY <1>1, <1>3, <1>4
<1>6. ASSUME NEW i \in nuls(text2)
      PROVE  p <= i
  <2>1. CASE i <= k + 1
    <3>1. i \in nuls(text1)
      BY <1>1, <2>1
    <3> QED
      BY <1>3, <3>1
  <2>2. CASE ~ (i <= k + 1)
    BY <1>1, <1>4, <2>2
  <2> QED
    BY <2>1, <2>2
<1>7. Min(nuls(text1)) = p /\ Min(nuls(text2)) = p
  <2>1. nuls(text1) \subseteq Nat /\ nuls(text2) \subseteq Nat
    OBVIOUS
  <2> HIDE DEF nuls
  <2> QED
    BY <1>3, <1>5, <1>6, <2>1, MinOf
<1>8. \A text : nuls(text) # {} =>
        CString(text) = SubSeq(text, 1, Min(nuls(text)) - 1)
  BY DEF CString, SelectInSeq
<1>9. CString(text1) = SubSeq(text1, 1, p - 1) /\ CString(text2) = SubSeq(text2, 1, p - 1)
  <2>1. nuls(text1) # {} /\ nuls(text2) # {}
    BY <1>3, <1>5
  <2> HIDE DEF nuls
  <2> QED
    BY <1>7, <1>8, <2>1
<1> HIDE DEF nuls
<1>10. p - 1 \in Nat /\ p - 1 <= k
  BY <1>4
<1> DEFINE q == p - 1
<1>11. q \in Nat /\ q <= k
  BY <1>10
<1> HIDE DEF q
<1>12. \A i \in 1 .. q : text1[i] \in A /\ text2[i] \in A /\ text1[i] = text2[i]
  <2> SUFFICES ASSUME NEW i \in 1 .. q
               PROVE  text1[i] \in A /\ text2[i] \in A /\ text1[i] = text2[i]
    OBVIOUS
  <2>1. i \in 1 .. Len(text1) /\ i \in 1 .. Len(text2) /\ i \in 1 .. k + 1
    BY <1>1, <1>11
  <2> QED
    BY <2>1, ElementOfSeq
<1>13. /\ SubSeq(text1, 1, q) \in Seq(A) /\ SubSeq(text2, 1, q) \in Seq(A)
       /\ Len(SubSeq(text1, 1, q)) = q /\ Len(SubSeq(text2, 1, q)) = q
       /\ \A i \in 1 .. q : SubSeq(text1, 1, q)[i] = SubSeq(text2, 1, q)[i]
  <2>1. /\ SubSeq(text1, 1, q) \in Seq(A)
        /\ Len(SubSeq(text1, 1, q)) = IF 1 <= q THEN q - 1 + 1 ELSE 0
        /\ \A i \in 1 .. q - 1 + 1 : SubSeq(text1, 1, q)[i] = text1[1 + i - 1]
    BY <1>11, <1>12, SubSeqProperties
  <2>2. /\ SubSeq(text2, 1, q) \in Seq(A)
        /\ Len(SubSeq(text2, 1, q)) = IF 1 <= q THEN q - 1 + 1 ELSE 0
        /\ \A i \in 1 .. q - 1 + 1 : SubSeq(text2, 1, q)[i] = text2[1 + i - 1]
    BY <1>11, <1>12, SubSeqProperties
  <2>3. q - 1 + 1 = q /\ (~ (1 <= q) => q = 0) /\ \A i \in 1 .. q : 1 + i - 1 = i
    BY <1>11
  <2> QED
    BY <1>12, <2>1, <2>2, <2>3
<1>14. SubSeq(text1, 1, q) = SubSeq(text2, 1, q)
  BY <1>13, SeqEqual
<1> QED
  BY <1>9, <1>14 DEF q

(* What came, with its NUL.                                                 *)
LEMMA EndedText ==
  ASSUME DecoderAssumption, raw \in Seq(NameCharacters)
  PROVE  /\ Len(raw) \in Nat /\ DOMAIN raw = 1 .. Len(raw)
         /\ Ended \in Seq(Bytes) /\ Len(Ended) = Len(raw) + 1
         /\ \A i \in 1 .. Len(raw) :
              Ended[i] = raw[i] /\ raw[i] \in NameCharacters /\ raw[i] # "NUL"
         /\ Ended[Len(raw) + 1] = "NUL"
<1>1. Len(raw) \in Nat /\ DOMAIN raw = 1 .. Len(raw)
  BY LenProperties
<1>2. raw \in Seq(Bytes) /\ "NUL" \in Bytes
  <2>1. NameCharacters \subseteq Bytes /\ "NUL" \in Bytes
    BY DEF Bytes
  <2> QED
    BY <2>1, SeqMonotonic
<1>3. /\ Ended \in Seq(Bytes) /\ Len(Ended) = Len(raw) + 1
      /\ \A i \in 1 .. Len(raw) : Ended[i] = raw[i]
      /\ Ended[Len(raw) + 1] = "NUL"
  BY <1>2, <1>1 DEF Ended
<1>4. "NUL" \notin NameCharacters
  BY DEF DecoderAssumption, NameCharacters
<1>5. \A i \in 1 .. Len(raw) : raw[i] \in NameCharacters
  BY ElementOfSeq
<1> QED
  BY <1>1, <1>3, <1>4, <1>5

(* A byte or a character that is decoded.                                   *)
LEMMA DecodedBytes ==
  /\ \A high, low \in Digits : Byte(high, low) \in Bytes
  /\ \A c \in NameCharacters : Plain(c) \in Bytes
<1>1. /\ Digits \X Digits \subseteq Bytes /\ "NUL" \in Bytes /\ " " \in Bytes
      /\ "%" \in Bytes /\ "+" \in Bytes /\ NameCharacters \subseteq Bytes
  BY DEF Bytes, NameCharacters
<1>2. ASSUME NEW high \in Digits, NEW low \in Digits
      PROVE  Byte(high, low) \in Bytes
  <2>1. <<high, low>> \in Digits \X Digits
    OBVIOUS
  <2>2. Byte(high, low) \in {"%", "+", " ", "NUL", <<high, low>>}
    BY Zenon DEF Byte
  <2> QED
    BY <1>1, <2>1, <2>2
<1> QED
  BY <1>1, <1>2 DEF Plain

(* Where the decoder stands, it sees what came.                             *)
LEMMA SeesWhatCame ==
  ASSUME DecoderAssumption, NameInv, decoding = "decode"
  PROVE  /\ buf[s] = "NUL" <=> s = Len(raw) + 1
         /\ EscapeHere <=> EscapeAt(raw, s)
         /\ s <= Len(raw) => s \in Starts(raw) /\ buf[s] = raw[s]
         /\ EscapeAt(raw, s) => /\ s + 3 <= Len(raw) + 1
                                /\ buf[s + 1] = raw[s + 1]
                                /\ buf[s + 2] = raw[s + 2]
<1>1. /\ Len(raw) \in Nat /\ DOMAIN raw = 1 .. Len(raw)
      /\ \A i \in 1 .. Len(raw) :
              Ended[i] = raw[i] /\ raw[i] \in NameCharacters /\ raw[i] # "NUL"
      /\ Ended[Len(raw) + 1] = "NUL"
  BY EndedText DEF NameInv, NameTypeOK
<1>2. /\ s \in 1 .. Len(raw) + 1 /\ Len(buf) = Len(raw) + 1
      /\ \A i \in s .. Len(buf) : buf[i] = Ended[i]
      /\ ~EscapeAt(raw, s - 1) /\ ~EscapeAt(raw, s - 2)
  BY DEF NameInv, NameTypeOK
<1>3. \A i \in s .. Len(raw) : buf[i] = raw[i] /\ raw[i] # "NUL"
  BY <1>1, <1>2
<1>4. buf[Len(raw) + 1] = "NUL"
  BY <1>1, <1>2
<1>5. buf[s] = "NUL" <=> s = Len(raw) + 1
  BY <1>1, <1>2, <1>3, <1>4
<1>6. "NUL" # "%" /\ "NUL" \notin Digits
  BY DEF DecoderAssumption
<1>7. s <= Len(raw) => s \in Starts(raw) /\ buf[s] = raw[s]
  BY <1>1, <1>2, <1>3 DEF Starts
<1>8. EscapeAt(raw, s) => /\ s + 3 <= Len(raw) + 1
                          /\ buf[s] = raw[s]
                          /\ buf[s + 1] = raw[s + 1]
                          /\ buf[s + 2] = raw[s + 2]
  <2> SUFFICES ASSUME s \in 1 .. Len(raw) - 2
               PROVE  /\ s + 3 <= Len(raw) + 1
                      /\ buf[s] = raw[s]
                      /\ buf[s + 1] = raw[s + 1]
                      /\ buf[s + 2] = raw[s + 2]
    BY DEF EscapeAt
  <2>1. s \in s .. Len(raw) /\ s + 1 \in s .. Len(raw) /\ s + 2 \in s .. Len(raw)
    BY <1>1
  <2> QED
    BY <1>1, <1>3, <2>1
<1>9. EscapeAt(raw, s) => EscapeHere
  BY <1>8 DEF EscapeAt, EscapeHere
<1>10. ASSUME EscapeHere
       PROVE  EscapeAt(raw, s)
  <2>1. buf[s] = "%" /\ buf[s + 1] \in Digits /\ buf[s + 2] \in Digits
    BY <1>10 DEF EscapeHere
  <2>2. s <= Len(raw)
    BY <1>1, <1>2, <1>4, <1>6, <2>1
  <2>3. s + 1 <= Len(raw)
    BY <1>1, <1>2, <1>4, <1>6, <2>1, <2>2
  <2>4. s + 2 <= Len(raw)
    <3>1. s + 2 # Len(raw) + 1
      BY <1>4, <1>6, <2>1
    <3> QED
      BY <1>1, <1>2, <2>3, <3>1
  <2>5. s \in s .. Len(raw) /\ s + 1 \in s .. Len(raw) /\ s + 2 \in s .. Len(raw)
    BY <1>1, <1>2, <2>4
  <2>6. buf[s] = raw[s] /\ buf[s + 1] = raw[s + 1] /\ buf[s + 2] = raw[s + 2]
    BY <1>3, <2>5
  <2>7. s \in 1 .. Len(raw) - 2
    BY <1>1, <1>2, <2>4
  <2> QED
    BY <2>1, <2>6, <2>7 DEF EscapeAt
<1> QED
  BY <1>5, <1>7, <1>8, <1>9, <1>10

(* No more begins in front of a place than there are characters.            *)
LEMMA RankBound ==
  ASSUME NEW A, NEW text \in Seq(A), NEW i \in Nat
  PROVE  Rank(text, i) <= i
<1> DEFINE T == {j \in Nat : Rank(text, j) <= j}
<1>1. 0 \in T
  BY RankSteps
<1>2. ASSUME NEW j \in Nat, j \in T
      PROVE  j + 1 \in T
  <2>1. Rank(text, j) \in Nat /\ Rank(text, j) <= j
    BY <1>2, RankSteps
  <2>2. Rank(text, j + 1) = IF j + 1 \in Starts(text) THEN Rank(text, j) + 1
                                                      ELSE Rank(text, j)
    BY RankSteps
  <2>3. Rank(text, j + 1) <= j + 1
    BY <2>1, <2>2
  <2> QED
    BY <2>3
<1> HIDE DEF T
<1>3. i \in T
  BY <1>1, <1>2, AllNumbers
<1> QED
  BY <1>3 DEF T

(* One pass of the loop: what begins at s is written, and the n characters  *)
(* that it takes are passed over.                                           *)
LEMMA WritesOne ==
  ASSUME DecoderAssumption, NameInv, decoding = "decode", s <= Len(raw),
         NEW c \in Bytes, c = Meaning(raw, s), Put(c),
         NEW n \in {1, 3}, s' = s + n, s + n <= Len(raw) + 1,
         n = 3 => s + 1 \notin Starts(raw) /\ s + 2 \notin Starts(raw),
         ~EscapeAt(raw, s + n - 1), ~EscapeAt(raw, s + n - 2),
         UNCHANGED <<raw, decoding>>
  PROVE  NameInv'
<1>1. /\ raw \in Seq(NameCharacters)
      /\ buf \in Seq(Bytes) /\ Len(buf) = Len(raw) + 1
      /\ s \in 1 .. Len(raw) + 1
      /\ Contains(raw, "%")
      /\ out = Rank(raw, s - 1) + 1
      /\ \A i \in s .. Len(buf) : buf[i] = Ended[i]
      /\ DecodedTo(s - 1)
  BY DEF NameInv, NameTypeOK
<1>2. Len(raw) \in Nat /\ DOMAIN buf = 1 .. Len(raw) + 1
  BY <1>1, LenProperties
<1>3. s \in Starts(raw)
  BY SeesWhatCame
<1>4. out = Rank(raw, s) /\ out \in Nat /\ 1 <= out /\ out <= s
  <2>1. s - 1 \in Nat /\ (s - 1) + 1 = s /\ s \in Nat
    BY <1>1, <1>2
  <2>2. Rank(raw, s) = Rank(raw, s - 1) + 1 /\ Rank(raw, s - 1) \in Nat
    BY <1>1, <1>3, <2>1, RankSteps
  <2>3. Rank(raw, s) <= s
    BY <1>1, <2>1, RankBound
  <2> QED
    BY <1>1, <2>1, <2>2, <2>3
<1>5. out = Rank(raw, s + n - 1)
  <2>1. s \in Nat /\ s + 1 \in Nat /\ (s + 1) + 1 = s + 2 /\ s + 1 - 1 = s /\ s + 3 - 1 = s + 2
    BY <1>1, <1>2
  <2>2. n = 3 => Rank(raw, s + 1) = Rank(raw, s) /\ Rank(raw, s + 2) = Rank(raw, s + 1)
    <3>1. \A i \in Nat :
            i + 1 \notin Starts(raw) => Rank(raw, i + 1) = Rank(raw, i)
      BY <1>1, RankSteps
    <3>2. n = 3 => Rank(raw, s + 1) = Rank(raw, s)
      BY <2>1, <3>1
    <3>3. n = 3 => Rank(raw, (s + 1) + 1) = Rank(raw, s + 1)
      BY <2>1, <3>1
    <3> QED
      BY <2>1, <3>2, <3>3
  <2>3. n = 1 \/ n = 3
    OBVIOUS
  <2> QED
    BY <1>4, <2>1, <2>2, <2>3
<1>6. /\ buf' \in Seq(Bytes) /\ Len(buf') = Len(raw) + 1
      /\ \A j \in 1 .. Len(raw) + 1 : buf'[j] = IF j = out THEN c ELSE buf[j]
  <2>1. out \in 1 .. Len(buf) /\ buf' = [buf EXCEPT ![out] = c]
    BY <1>1, <1>2, <1>4 DEF Put
  <2> QED
    BY <1>1, <2>1, ExceptSeq
<1>7. \A i \in s' .. Len(buf') : buf'[i] = Ended[i]
  <2> SUFFICES ASSUME NEW i \in s' .. Len(buf')
               PROVE  buf'[i] = Ended[i]
    OBVIOUS
  <2>1. i \in s .. Len(buf) /\ i # out /\ i \in 1 .. Len(raw) + 1
    BY <1>1, <1>2, <1>4, <1>6
  <2> QED
    BY <1>1, <1>6, <2>1
<1>8. \A i \in Starts(raw) : i <= s + n - 1 => buf'[Rank(raw, i)] = Meaning(raw, i)
  <2> SUFFICES ASSUME NEW i \in Starts(raw), i <= s + n - 1
               PROVE  buf'[Rank(raw, i)] = Meaning(raw, i)
    OBVIOUS
  <2>1. i \in Nat /\ 1 <= i /\ i <= Len(raw)
    BY <1>1, RankSteps
  <2>2. i <= s
    BY <1>1, <1>2, <2>1
  <2>3. CASE i = s
    <3>1. Rank(raw, i) = out /\ Meaning(raw, i) = c
      BY <1>4, <2>3
    <3>2. out \in 1 .. Len(raw) + 1
      BY <1>1, <1>2, <1>4
    <3> QED
      BY <1>6, <3>1, <3>2
  <2>4. CASE i # s
    <3>1. i <= s - 1 /\ i < s
      BY <1>1, <1>2, <2>1, <2>2, <2>4
    <3>2. buf[Rank(raw, i)] = Meaning(raw, i)
      BY <1>1, <3>1 DEF DecodedTo
    <3>3. Rank(raw, i) < Rank(raw, s)
      BY <1>1, <1>3, <2>1, <3>1, RankSteps
    <3>4. Rank(raw, i) \in 1 .. Len(raw) + 1
      <4>1. Rank(raw, i) \in 1 .. Cardinality(Starts(raw)) /\ Cardinality(Starts(raw)) \in Nat
        BY <1>1, RankSteps
      <4>2. Rank(raw, i) <= i
        BY <1>1, <2>1, RankBound
      <4> QED
        BY <1>2, <2>1, <4>1, <4>2
    <3> QED
      BY <1>4, <1>6, <3>2, <3>3, <3>4
  <2> QED
    BY <2>3, <2>4
<1>9. Ended' = Ended /\ s' \in 1 .. Len(raw) + 1
  BY <1>1, <1>2 DEF Ended
<1>10. out' = Rank(raw', s' - 1) + 1
  <2>1. s' - 1 = s + n - 1 /\ out' = out + 1 /\ raw' = raw
    BY <1>1, <1>2 DEF Put
  <2> QED
    BY <1>5, <2>1
<1>11. DecodedTo(s - 1)'
  <2>1. raw' = raw /\ s' - 1 = s + n - 1
    BY <1>1, <1>2
  <2>2. \A i \in Starts(raw') :
          i <= s' - 1 => buf'[Rank(raw', i)] = Meaning(raw', i)
    BY <1>8, <2>1
  <2> QED
    BY <2>2 DEF DecodedTo
<1>12. ~EscapeAt(raw', s' - 1) /\ ~EscapeAt(raw', s' - 2)
  <2>1. raw' = raw /\ s' - 1 = s + n - 1 /\ s' - 2 = s + n - 2
    BY <1>1, <1>2
  <2> QED
    BY <2>1
<1> QED
  BY <1>1, <1>6, <1>7, <1>9, <1>10, <1>11, <1>12 DEF NameInv, NameTypeOK

LEMMA NameInvInitially ==
  ASSUME DecoderAssumption
  PROVE  NameInit => NameInv
<1> SUFFICES ASSUME NameInit
             PROVE  NameInv
  OBVIOUS
<1>1. raw \in Seq(NameCharacters)
  <2>1. PICK m \in 0 .. MaxLen : raw \in [1 .. m -> NameCharacters]
    BY DEF NameInit, SeqOf
  <2>2. m \in Nat
    BY DEF DecoderAssumption
  <2> QED
    BY <2>1, <2>2, IsASeq
<1>2. /\ Len(raw) \in Nat /\ Ended \in Seq(Bytes) /\ Len(Ended) = Len(raw) + 1
  BY <1>1, EndedText
<1>3. buf = Ended /\ s = 1 /\ out = 1 /\ decoding = "name"
  BY DEF NameInit, Ended
<1> QED
  BY <1>1, <1>2, <1>3 DEF NameInv, NameTypeOK

LEMMA CheckNameKeeps ==
  ASSUME DecoderAssumption, NameInv, CheckName
  PROVE  NameInv'
<1>1. /\ decoding = "name" /\ buf = Ended /\ s = 1 /\ out = 1
      /\ raw \in Seq(NameCharacters)
  BY DEF NameInv, NameTypeOK, CheckName
<1>2. /\ raw' = raw /\ buf' = buf /\ s' = s /\ out' = out /\ Ended' = Ended
  BY DEF CheckName, Ended
<1>3. NameTypeOK'
  BY <1>2 DEF CheckName, NameInv, NameTypeOK
<1>4. CASE Contains(raw, "%")
  <2>1. decoding' = "decode" /\ Contains(raw', "%")
    BY <1>2, <1>4 DEF CheckName
  <2>2. ~EscapeAt(raw, 0) /\ ~EscapeAt(raw, -1)
    <3>1. Len(raw) \in Nat
      BY <1>1, LenProperties
    <3> QED
      BY <3>1 DEF EscapeAt
  <2>3. ~EscapeAt(raw', s' - 1) /\ ~EscapeAt(raw', s' - 2)
    <3>1. s' - 1 = 0 /\ s' - 2 = -1
      BY <1>1, <1>2
    <3> QED
      BY <1>2, <2>2, <3>1
  <2>4. out' = Rank(raw', s' - 1) + 1
    <3>1. s' - 1 = 0 /\ Rank(raw, 0) = 0
      BY <1>1, <1>2, RankSteps
    <3> QED
      BY <1>1, <1>2, <3>1
  <2>5. \A i \in s' .. Len(buf') : buf'[i] = Ended'[i]
    BY <1>1, <1>2
  <2>6. DecodedTo(s - 1)'
    <3>1. \A i \in Starts(raw') : ~ (i <= s' - 1)
      <4>1. \A i \in Starts(raw) : i \in Nat /\ 1 <= i
        BY <1>1, RankSteps
      <4> QED
        BY <1>1, <1>2, <4>1
    <3> QED
      BY <3>1 DEF DecodedTo
  <2> QED
    BY <1>3, <2>1, <2>3, <2>4, <2>5, <2>6 DEF NameInv
<1>5. CASE ~Contains(raw, "%")
  <2>1. decoding' = "done" /\ ~Contains(raw', "%") /\ buf' = Ended'
    BY <1>1, <1>2, <1>5 DEF CheckName
  <2> QED
    BY <1>3, <2>1 DEF NameInv
<1> QED
  BY <1>4, <1>5

LEMMA DecodeEscapeKeeps ==
  ASSUME DecoderAssumption, NameInv, DecodeEscape
  PROVE  NameInv'
<1>1. /\ decoding = "decode" /\ raw \in Seq(NameCharacters)
      /\ s \in Nat /\ Len(raw) \in Nat /\ 1 <= s
      /\ DOMAIN raw = 1 .. Len(raw)
  BY LenProperties DEF NameInv, NameTypeOK, DecodeEscape
<1>2. /\ EscapeAt(raw, s)
      /\ s + 3 <= Len(raw) + 1
      /\ buf[s + 1] = raw[s + 1] /\ buf[s + 2] = raw[s + 2]
  BY <1>1, SeesWhatCame DEF DecodeEscape
<1>3. raw[s + 1] \in Digits /\ raw[s + 2] \in Digits
  BY <1>2 DEF EscapeAt
<1>4. "%" \notin Digits
  BY DEF DecoderAssumption
<1> DEFINE c == Byte(raw[s + 1], raw[s + 2])
<1>5. c \in Bytes /\ c = Meaning(raw, s) /\ Put(c)
  BY <1>2, <1>3, DecodedBytes DEF Meaning, DecodeEscape
<1>6. ~EscapeAt(raw, s + 1) /\ ~EscapeAt(raw, s + 2)
  BY <1>3, <1>4 DEF EscapeAt
<1>7. s + 1 \notin Starts(raw) /\ s + 2 \notin Starts(raw)
  <2>1. (s + 1) - 1 = s /\ (s + 2) - 2 = s
    BY <1>1
  <2> QED
    BY <1>2, <2>1 DEF Starts
<1>8. ~EscapeAt(raw, s + 3 - 1) /\ ~EscapeAt(raw, s + 3 - 2)
  <2>1. s + 3 - 1 = s + 2 /\ s + 3 - 2 = s + 1
    BY <1>1
  <2> QED
    BY <1>6, <2>1
<1>9. s' = s + 3 /\ UNCHANGED <<raw, decoding>> /\ s <= Len(raw) /\ 3 \in {1, 3}
  BY <1>1, <1>2 DEF DecodeEscape
<1> HIDE DEF c
<1> QED
  BY <1>1, <1>2, <1>5, <1>7, <1>8, <1>9, WritesOne

LEMMA CopyOneKeeps ==
  ASSUME DecoderAssumption, NameInv, CopyOne
  PROVE  NameInv'
<1>1. /\ decoding = "decode" /\ raw \in Seq(NameCharacters)
      /\ s \in Nat /\ Len(raw) \in Nat /\ s <= Len(raw) + 1 /\ 1 <= s
      /\ ~EscapeAt(raw, s - 1)
      /\ DOMAIN raw = 1 .. Len(raw)
  BY LenProperties DEF NameInv, NameTypeOK, CopyOne
<1>2. /\ ~EscapeAt(raw, s) /\ s # Len(raw) + 1
      /\ s <= Len(raw) => buf[s] = raw[s]
  BY <1>1, SeesWhatCame DEF CopyOne
<1>3. s <= Len(raw) /\ buf[s] = raw[s] /\ raw[s] \in NameCharacters
  BY <1>1, <1>2, ElementOfSeq
<1> DEFINE c == Plain(raw[s])
<1>4. c \in Bytes /\ c = Meaning(raw, s) /\ Put(c)
  BY <1>2, <1>3, DecodedBytes DEF Meaning, CopyOne
<1>5. ~EscapeAt(raw, s + 1 - 1) /\ ~EscapeAt(raw, s + 1 - 2)
  <2>1. s + 1 - 1 = s /\ s + 1 - 2 = s - 1
    BY <1>1
  <2> QED
    BY <1>1, <1>2, <2>1
<1>6. s' = s + 1 /\ UNCHANGED <<raw, decoding>> /\ s + 1 <= Len(raw) + 1 /\ 1 \in {1, 3}
      /\ 1 # 3
  BY <1>1, <1>3 DEF CopyOne
<1> HIDE DEF c
<1> QED
  BY <1>1, <1>3, <1>4, <1>5, <1>6, WritesOne

(* The NUL comes after what was decoded, which stays.                       *)
LEMMA EndDecodeKeeps ==
  ASSUME DecoderAssumption, NameInv, EndDecode
  PROVE  NameInv'
<1>1. /\ decoding = "decode" /\ raw \in Seq(NameCharacters)
      /\ buf \in Seq(Bytes) /\ Len(buf) = Len(raw) + 1
      /\ s \in 1 .. Len(raw) + 1
      /\ Contains(raw, "%")
      /\ out = Rank(raw, s - 1) + 1
      /\ DecodedTo(s - 1)
  BY DEF NameInv, NameTypeOK, EndDecode
<1>2. Len(raw) \in Nat /\ DOMAIN buf = 1 .. Len(raw) + 1
  BY <1>1, LenProperties
<1>3. s = Len(raw) + 1
  BY <1>1, SeesWhatCame DEF EndDecode
<1>4. /\ out = Rank(raw, Len(raw)) + 1 /\ DecodedTo(Len(raw))
      /\ Rank(raw, Len(raw)) \in Nat /\ Rank(raw, Len(raw)) <= Len(raw)
  <2>1. s - 1 = Len(raw)
    BY <1>2, <1>3
  <2> QED
    BY <1>1, <1>2, <2>1, RankSteps, RankBound
<1>5. "NUL" \in Bytes
  BY DEF Bytes
<1>6. /\ buf' \in Seq(Bytes) /\ Len(buf') = Len(raw) + 1
      /\ \A j \in 1 .. Len(raw) + 1 : buf'[j] = IF j = out THEN "NUL" ELSE buf[j]
  <2>1. out \in 1 .. Len(buf) /\ buf' = [buf EXCEPT ![out] = "NUL"]
    BY <1>1, <1>2, <1>4 DEF EndDecode, Put
  <2> QED
    BY <1>1, <1>5, <2>1, ExceptSeq
<1>7. buf'[Rank(raw, Len(raw)) + 1] = "NUL"
  BY <1>2, <1>4, <1>6
<1>8. \A i \in Starts(raw) : buf'[Rank(raw, i)] = Meaning(raw, i)
  <2> SUFFICES ASSUME NEW i \in Starts(raw)
               PROVE  buf'[Rank(raw, i)] = Meaning(raw, i)
    OBVIOUS
  <2>1. i \in Nat /\ i <= Len(raw)
    BY <1>1, RankSteps
  <2>2. buf[Rank(raw, i)] = Meaning(raw, i)
    BY <1>4, <2>1 DEF DecodedTo
  <2>3. /\ Rank(raw, i) \in 1 .. Cardinality(Starts(raw))
        /\ Cardinality(Starts(raw)) = Rank(raw, Len(raw))
    BY <1>1, RankSteps
  <2>4. Rank(raw, i) \in 1 .. Len(raw) + 1 /\ Rank(raw, i) # out
    BY <1>2, <1>4, <2>3
  <2> QED
    BY <1>6, <2>2, <2>4
<1>9. raw' = raw /\ s' = s /\ decoding' = "done"
  BY DEF EndDecode
<1>10. NameTypeOK'
  BY <1>1, <1>6, <1>9 DEF NameTypeOK
<1>11. DecodedTo(Len(raw))'
  <2>1. \A i \in Starts(raw') :
          i <= Len(raw') => buf'[Rank(raw', i)] = Meaning(raw', i)
    BY <1>8, <1>9
  <2> QED
    BY <2>1 DEF DecodedTo
<1>12. Contains(raw', "%") /\ buf'[Rank(raw', Len(raw')) + 1] = "NUL"
  BY <1>1, <1>7, <1>9
<1> QED
  BY <1>9, <1>10, <1>11, <1>12 DEF NameInv

LEMMA NameInvInductive ==
  ASSUME DecoderAssumption, NameInv, [NameNext]_nameVars
  PROVE  NameInv'
<1>1. CASE CheckName
  BY <1>1, CheckNameKeeps
<1>2. CASE DecodeEscape
  BY <1>2, DecodeEscapeKeeps
<1>3. CASE CopyOne
  BY <1>3, CopyOneKeeps
<1>4. CASE EndDecode
  BY <1>4, EndDecodeKeeps
<1>5. CASE UNCHANGED nameVars
  <2>1. UNCHANGED <<raw, buf, s, out, decoding>>
    BY <1>5 DEF nameVars
  <2> QED
    BY <2>1 DEF NameInv, NameTypeOK, DecodedTo, Ended
<1> QED
  BY <1>1, <1>2, <1>3, <1>4, <1>5 DEF NameNext

(* The writer is behind the reader, and what is to be read is what came.    *)
LEMMA NameInvReads ==
  ASSUME DecoderAssumption, NameInv
  PROVE  ReadsWhatCame
<1>1. /\ raw \in Seq(NameCharacters)
      /\ buf \in Seq(Bytes) /\ Len(buf) = Len(raw) + 1
      /\ s \in 1 .. Len(raw) + 1
      /\ decoding \in {"name", "decode", "done"}
  BY DEF NameInv, NameTypeOK
<1>2. Len(raw) \in Nat /\ Ended \in Seq(Bytes) /\ Len(Ended) = Len(raw) + 1
  BY <1>1, EndedText
<1>3. out <= s \/ decoding = "done"
  <2>1. decoding = "name" => out <= s
    BY DEF NameInv
  <2>2. decoding = "decode" => out <= s
    <3>1. s - 1 \in Nat /\ s \in Nat
      BY <1>1, <1>2
    <3>2. Rank(raw, s - 1) <= s - 1 /\ Rank(raw, s - 1) \in Nat
      BY <1>1, <3>1, RankBound, RankSteps
    <3>3. decoding = "decode" => out = Rank(raw, s - 1) + 1
      BY DEF NameInv
    <3> QED
      BY <3>1, <3>2, <3>3
  <2> QED
    BY <1>1, <2>1, <2>2
<1>4. ASSUME decoding = "decode"
      PROVE  SubSeq(buf, s, Len(buf)) = SubSeq(Ended, s, Len(buf))
  <2>1. \A i \in s .. Len(buf) : buf[i] = Ended[i] /\ buf[i] \in Bytes /\ Ended[i] \in Bytes
    <3>1. \A i \in s .. Len(buf) : buf[i] = Ended[i]
      BY <1>4 DEF NameInv
    <3>2. \A i \in s .. Len(buf) : i \in 1 .. Len(buf)
      BY <1>1, <1>2
    <3> QED
      BY <1>1, <3>1, <3>2, ElementOfSeq
  <2>2. s \in Int /\ Len(buf) \in Int
    BY <1>1, <1>2
  <2>3. /\ SubSeq(buf, s, Len(buf)) \in Seq(Bytes)
        /\ Len(SubSeq(buf, s, Len(buf))) = IF s <= Len(buf) THEN Len(buf) - s + 1 ELSE 0
        /\ \A i \in 1 .. Len(buf) - s + 1 : SubSeq(buf, s, Len(buf))[i] = buf[s + i - 1]
    BY <2>1, <2>2, SubSeqProperties
  <2>4. /\ SubSeq(Ended, s, Len(buf)) \in Seq(Bytes)
        /\ Len(SubSeq(Ended, s, Len(buf))) = IF s <= Len(buf) THEN Len(buf) - s + 1 ELSE 0
        /\ \A i \in 1 .. Len(buf) - s + 1 : SubSeq(Ended, s, Len(buf))[i] = Ended[s + i - 1]
    BY <2>1, <2>2, SubSeqProperties
  <2>5. s <= Len(buf)
    BY <1>1, <1>2
  <2>6. \A i \in 1 .. Len(buf) - s + 1 : s + i - 1 \in s .. Len(buf)
    BY <1>1, <1>2
  <2>7. \A i \in 1 .. Len(SubSeq(buf, s, Len(buf))) :
          SubSeq(buf, s, Len(buf))[i] = SubSeq(Ended, s, Len(buf))[i]
    BY <2>1, <2>3, <2>4, <2>5, <2>6
  <2> QED
    BY <2>3, <2>4, <2>7, SeqEqual
<1> QED
  BY <1>1, <1>2, <1>3, <1>4 DEF ReadsWhatCame, Ended

(* The decoded name, and what the service makes of the text that came.      *)
LEMMA FormTextIs ==
  ASSUME DecoderAssumption, raw \in Seq(NameCharacters)
  PROVE  /\ Append(FormText(raw), "NUL") \in Seq(Bytes)
         /\ Len(Append(FormText(raw), "NUL")) = Cardinality(Starts(raw)) + 1
         /\ Append(FormText(raw), "NUL")[Cardinality(Starts(raw)) + 1] = "NUL"
         /\ \A n \in 1 .. Cardinality(Starts(raw)) : \E i \in Starts(raw) :
              /\ Rank(raw, i) = n
              /\ Append(FormText(raw), "NUL")[n] = Meaning(raw, i)
<1> DEFINE N == Cardinality(Starts(raw))
           at(n) == CHOOSE i \in Starts(raw) : Rank(raw, i) = n
<1>1. N \in Nat
  BY RankSteps
<1>2. \A n \in 1 .. N : at(n) \in Starts(raw) /\ Rank(raw, at(n)) = n
  <2>1. \A n \in 1 .. N : \E i \in Starts(raw) : Rank(raw, i) = n
    BY RankSteps
  <2> QED
    BY <2>1
<1>3. FormText(raw) = [n \in 1 .. N |-> Meaning(raw, at(n))]
  BY DEF FormText
<1> HIDE DEF at, N
<1>4. \A i \in Starts(raw) : Meaning(raw, i) \in Bytes
  <2> SUFFICES ASSUME NEW i \in Starts(raw)
               PROVE  Meaning(raw, i) \in Bytes
    OBVIOUS
  <2>1. CASE EscapeAt(raw, i)
    <3>1. raw[i + 1] \in Digits /\ raw[i + 2] \in Digits
      BY <2>1 DEF EscapeAt
    <3> QED
      BY <2>1, <3>1, DecodedBytes DEF Meaning
  <2>2. CASE ~EscapeAt(raw, i)
    <3>1. i \in 1 .. Len(raw)
      BY EndedText DEF Starts
    <3>2. raw[i] \in NameCharacters
      BY <3>1, ElementOfSeq
    <3> QED
      BY <2>2, <3>2, DecodedBytes DEF Meaning
  <2> QED
    BY <2>1, <2>2
<1>5. \A n \in 1 .. N : Meaning(raw, at(n)) \in Bytes
  BY <1>2, <1>4
<1>6. FormText(raw) \in Seq(Bytes) /\ Len(FormText(raw)) = N
  <2>1. [n \in 1 .. N |-> Meaning(raw, at(n))] \in [1 .. N -> Bytes]
    BY <1>5
  <2>2. FormText(raw) \in Seq(Bytes) /\ DOMAIN FormText(raw) = 1 .. N
    BY <1>1, <1>3, <2>1
  <2> QED
    BY <1>1, <2>2, LenProperties
<1>7. "NUL" \in Bytes
  BY DEF Bytes
<1>8. /\ Append(FormText(raw), "NUL") \in Seq(Bytes)
      /\ Len(Append(FormText(raw), "NUL")) = N + 1
      /\ \A i \in 1 .. N : Append(FormText(raw), "NUL")[i] = FormText(raw)[i]
      /\ Append(FormText(raw), "NUL")[N + 1] = "NUL"
  BY <1>6, <1>7, AppendProperties
<1>9. \A n \in 1 .. N : FormText(raw)[n] = Meaning(raw, at(n))
  BY <1>3
<1>10. \A n \in 1 .. N : \E i \in Starts(raw) :
         Rank(raw, i) = n /\ Append(FormText(raw), "NUL")[n] = Meaning(raw, i)
  BY <1>2, <1>8, <1>9
<1> QED
  BY <1>8, <1>10 DEF N

(* The key is the name as it came, or the text that it means.               *)
LEMMA NameInvKey ==
  ASSUME DecoderAssumption, NameInv
  PROVE  KeyIsKnown
<1> SUFFICES ASSUME decoding = "done"
             PROVE  CString(buf) = CString(Append(KeyText(raw), "NUL"))
  BY DEF KeyIsKnown
<1>0. CASE Contains(raw, "+") /\ ~Contains(raw, "%")
  BY <1>0 DEF NameInv, Ended, KeyText
<1> SUFFICES ASSUME Contains(raw, "+") => Contains(raw, "%")
             PROVE  CString(buf) = CString(Append(FormText(raw), "NUL"))
  BY <1>0 DEF KeyText
<1> DEFINE text == Append(FormText(raw), "NUL")
           N == Cardinality(Starts(raw))
<1>1. /\ raw \in Seq(NameCharacters)
      /\ buf \in Seq(Bytes) /\ Len(buf) = Len(raw) + 1
  BY DEF NameInv, NameTypeOK
<1>2. /\ text \in Seq(Bytes) /\ Len(text) = N + 1 /\ text[N + 1] = "NUL"
      /\ \A n \in 1 .. N : \E i \in Starts(raw) :
           Rank(raw, i) = n /\ text[n] = Meaning(raw, i)
  BY <1>1, FormTextIs
<1>3. /\ N \in Nat /\ N = Rank(raw, Len(raw)) /\ N <= Len(raw)
      /\ \A i \in Starts(raw) : i \in Nat /\ 1 <= i /\ i <= Len(raw)
      /\ Len(raw) \in Nat
  BY <1>1, RankSteps, RankBound, LenProperties
<1> HIDE DEF text, N
<1>4. CASE Contains(raw, "%")
  <2>1. DecodedTo(Len(raw)) /\ buf[N + 1] = "NUL"
    BY <1>3, <1>4 DEF NameInv
  <2>2. \A n \in 1 .. N : buf[n] = text[n]
    <3> SUFFICES ASSUME NEW n \in 1 .. N
                 PROVE  buf[n] = text[n]
      OBVIOUS
    <3>1. PICK i \in Starts(raw) : Rank(raw, i) = n /\ text[n] = Meaning(raw, i)
      BY <1>2
    <3> QED
      BY <1>3, <2>1, <3>1 DEF DecodedTo
  <2>3. \A n \in 1 .. N + 1 : buf[n] = text[n]
    BY <1>2, <1>3, <2>1, <2>2
  <2>4. N + 1 <= Len(buf) /\ N + 1 <= Len(text)
    BY <1>1, <1>2, <1>3
  <2> QED
    BY <1>1, <1>2, <1>3, <2>1, <2>3, <2>4, SameCString DEF text
<1>5. CASE ~Contains(raw, "%")
  <2>1. buf = Ended /\ ~Contains(raw, "+")
    BY <1>5 DEF NameInv
  <2>2. /\ Ended[Len(raw) + 1] = "NUL"
        /\ \A i \in 1 .. Len(raw) : Ended[i] = raw[i] /\ raw[i] # "%" /\ raw[i] # "+"
    BY <1>1, <1>5, <2>1, EndedText DEF Contains
  <2>3. \A i \in Int : ~EscapeAt(raw, i)
    <3>1. \A i \in Int : i \in 1 .. Len(raw) - 2 => i \in 1 .. Len(raw)
      BY <1>3
    <3> QED
      BY <2>2, <3>1 DEF EscapeAt
  <2>4. \A i \in Nat : 1 <= i /\ i <= Len(raw) => i \in Starts(raw)
    <3>1. DOMAIN raw = 1 .. Len(raw)
      BY <1>1, LenProperties
    <3> QED
      BY <2>3, <3>1, <1>3 DEF Starts
  <2>5. \A i \in 1 .. Len(raw) : Meaning(raw, i) = raw[i]
    <3>1. \A i \in 1 .. Len(raw) : i \in Int
      BY <1>3
    <3>2. \A i \in 1 .. Len(raw) : ~EscapeAt(raw, i) /\ raw[i] # "+"
      BY <2>2, <2>3, <3>1
    <3>3. \A i \in 1 .. Len(raw) : Plain(raw[i]) = raw[i]
      BY <3>2 DEF Plain
    <3> QED
      BY <3>2, <3>3 DEF Meaning
  <2>6. \A i \in Nat : i <= Len(raw) => Rank(raw, i) = i
    <3> DEFINE T == {i \in Nat : i <= Len(raw) => Rank(raw, i) = i}
    <3>1. 0 \in T
      BY <1>1, RankSteps
    <3>2. ASSUME NEW j \in Nat, j \in T
          PROVE  j + 1 \in T
      <4>1. Rank(raw, j + 1) = IF j + 1 \in Starts(raw) THEN Rank(raw, j) + 1
                                                      ELSE Rank(raw, j)
        BY <1>1, RankSteps
      <4>2. j + 1 <= Len(raw) => j + 1 \in Starts(raw) /\ Rank(raw, j) = j
        BY <1>3, <2>4, <3>2
      <4> QED
        BY <4>1, <4>2
    <3> HIDE DEF T
    <3>3. Nat \subseteq T
      BY <3>1, <3>2, AllNumbers
    <3> QED
      BY <3>3 DEF T
  <2>7. N = Len(raw)
    BY <1>3, <2>6
  <2>8. \A n \in 1 .. N : buf[n] = text[n]
    <3> SUFFICES ASSUME NEW n \in 1 .. N
                 PROVE  buf[n] = text[n]
      OBVIOUS
    <3>1. PICK i \in Starts(raw) : Rank(raw, i) = n /\ text[n] = Meaning(raw, i)
      BY <1>2
    <3>2. i \in Nat /\ 1 <= i /\ i <= Len(raw) /\ i = n
      BY <1>3, <2>6, <3>1
    <3> QED
      BY <1>3, <2>1, <2>2, <2>5, <2>7, <3>1, <3>2
  <2>9. \A n \in 1 .. N + 1 : buf[n] = text[n]
    BY <1>2, <1>3, <2>1, <2>2, <2>7, <2>8
  <2>10. N + 1 <= Len(buf) /\ N + 1 <= Len(text) /\ buf[N + 1] = "NUL"
    BY <1>1, <1>2, <1>3, <2>1, <2>2, <2>7
  <2> QED
    BY <1>1, <1>2, <1>3, <2>9, <2>10, SameCString DEF text
<1> QED
  BY <1>4, <1>5

(***************************************************************************)
(* url_decode_inplace overwrites only what it has read, neither of its      *)
(* pointers leaves the text, and the key of a city is what its name means   *)
(* to the service, or the name itself where it has a plus and no escape,    *)
(* for names of any length.                                                 *)
(***************************************************************************)
THEOREM NamesDecoded ==
  ASSUME DecoderAssumption
  PROVE  NameSpec => []NamesAreDecoded
<1>1. NameInit => NameInv
  BY NameInvInitially
<1>2. NameInv /\ [NameNext]_nameVars => NameInv'
  BY NameInvInductive
<1>3. NameInv => NamesAreDecoded
  BY NameInvReads, NameInvKey DEF NamesAreDecoded
<1> QED
  BY <1>1, <1>2, <1>3, PTL DEF NameSpec

-----------------------------------------------------------------------------
(***************************************************************************)
(* URLs.  Places in a text, and parts of it.                                *)
(***************************************************************************)
LEMMA FirstPlace ==
  ASSUME NEW A, NEW text \in Seq(A), NEW t
  PROVE  /\ First(t, text) \in Nat /\ First(t, text) <= Len(text)
         /\ First(t, text) = 0 => \A i \in 1 .. Len(text) : text[i] # t
         /\ First(t, text) # 0 =>
              /\ text[First(t, text)] = t
              /\ \A i \in 1 .. First(t, text) - 1 : text[i] # t
<1> DEFINE I == {i \in 1 .. Len(text) : text[i] = t}
<1>1. Len(text) \in Nat
  BY LenProperties
<1>2. First(t, text) = IF I # {} THEN Min(I) ELSE 0
  BY DEF First, SelectInSeq
<1>3. \A i : i \in I <=> i \in 1 .. Len(text) /\ text[i] = t
  OBVIOUS
<1> HIDE DEF I
<1>4. CASE I = {}
  BY <1>1, <1>2, <1>3, <1>4
<1>5. CASE I # {}
  <2>1. I \subseteq Nat
    BY <1>1, <1>3
  <2>2. PICK p \in I : \A i \in I : p <= i
    BY <1>5, <2>1, LeastNumber
  <2>3. First(t, text) = p
    BY <1>2, <1>5, <2>1, <2>2, MinOf
  <2>4. p \in Nat /\ 1 <= p /\ p <= Len(text) /\ text[p] = t
    BY <1>1, <1>3, <2>2
  <2>5. \A i \in 1 .. p - 1 : text[i] # t
    <3> SUFFICES ASSUME NEW i \in 1 .. p - 1, text[i] = t
                 PROVE  FALSE
      OBVIOUS
    <3>1. i \in I
      BY <1>1, <1>3, <2>4
    <3> QED
      BY <2>2, <2>4, <3>1
  <2> QED
    BY <2>3, <2>4, <2>5
<1> QED
  BY <1>4, <1>5

LEMMA Part ==
  ASSUME NEW A, NEW text \in Seq(A), NEW a \in Nat, NEW b \in Nat,
         1 <= a, a <= b + 1, b <= Len(text)
  PROVE  /\ SubSeq(text, a, b) \in Seq(A)
         /\ Len(SubSeq(text, a, b)) = b - a + 1
         /\ \A i \in 1 .. b - a + 1 : SubSeq(text, a, b)[i] = text[a + i - 1]
<1>1. Len(text) \in Nat
  BY LenProperties
<1>2. \A i \in a .. b : text[i] \in A
  <2>1. \A i \in a .. b : i \in 1 .. Len(text)
    BY <1>1
  <2> QED
    BY <2>1, ElementOfSeq
<1>3. /\ SubSeq(text, a, b) \in Seq(A)
      /\ Len(SubSeq(text, a, b)) = IF a <= b THEN b - a + 1 ELSE 0
      /\ \A i \in 1 .. b - a + 1 : SubSeq(text, a, b)[i] = text[a + i - 1]
  BY <1>2, SubSeqProperties
<1>4. ~ (a <= b) => b - a + 1 = 0
  OBVIOUS
<1> QED
  BY <1>3, <1>4

LEMMA PartOfPart ==
  ASSUME NEW A, NEW text \in Seq(A), NEW a \in Nat, NEW b \in Nat,
         1 <= a, a <= b + 1, b <= Len(text),
         NEW c \in Nat, NEW e \in Nat, 1 <= c, c <= e + 1, e <= b - a + 1
  PROVE  SubSeq(SubSeq(text, a, b), c, e) = SubSeq(text, a + c - 1, a + e - 1)
<1> DEFINE outer == SubSeq(text, a, b)
           a2 == a + c - 1
           b2 == a + e - 1
<1>1. /\ outer \in Seq(A) /\ Len(outer) = b - a + 1
      /\ \A i \in 1 .. b - a + 1 : outer[i] = text[a + i - 1]
  BY Part
<1>2. /\ a2 \in Nat /\ b2 \in Nat /\ 1 <= a2 /\ a2 <= b2 + 1 /\ b2 <= Len(text)
      /\ b2 - a2 + 1 = e - c + 1
  BY LenProperties
<1> HIDE DEF outer
<1>3. /\ SubSeq(outer, c, e) \in Seq(A) /\ Len(SubSeq(outer, c, e)) = e - c + 1
      /\ \A i \in 1 .. e - c + 1 : SubSeq(outer, c, e)[i] = outer[c + i - 1]
  BY <1>1, Part
<1>4. \A i \in 1 .. e - c + 1 : c + i - 1 \in 1 .. b - a + 1 /\ a + (c + i - 1) - 1 = a2 + i - 1
  OBVIOUS
<1>5. \A i \in 1 .. e - c + 1 : SubSeq(outer, c, e)[i] = text[a2 + i - 1]
  <2> SUFFICES ASSUME NEW i \in 1 .. e - c + 1
               PROVE  SubSeq(outer, c, e)[i] = text[a2 + i - 1]
    OBVIOUS
  <2>1. SubSeq(outer, c, e)[i] = outer[c + i - 1]
    BY <1>3
  <2>2. outer[c + i - 1] = text[a + (c + i - 1) - 1]
    BY <1>1, <1>4
  <2> QED
    BY <1>4, <2>1, <2>2
<1> HIDE DEF a2, b2
<1>6. /\ SubSeq(text, a2, b2) \in Seq(A) /\ Len(SubSeq(text, a2, b2)) = b2 - a2 + 1
      /\ \A i \in 1 .. b2 - a2 + 1 : SubSeq(text, a2, b2)[i] = text[a2 + i - 1]
  BY <1>2, Part
<1>7. SubSeq(outer, c, e) = SubSeq(text, a2, b2)
  <2>1. PICK x : x = SubSeq(outer, c, e)
    OBVIOUS
  <2>2. PICK y : y = SubSeq(text, a2, b2)
    OBVIOUS
  <2>3. PICK n \in Nat : n = e - c + 1
    OBVIOUS
  <2>4. x \in Seq(A) /\ Len(x) = n /\ \A i \in 1 .. n : x[i] = text[a2 + i - 1]
    BY <1>3, <1>5, <2>1, <2>3
  <2>5. y \in Seq(A) /\ Len(y) = n /\ \A i \in 1 .. n : y[i] = text[a2 + i - 1]
    BY <1>2, <1>6, <2>2, <2>3
  <2>6. x = y
    BY <2>4, <2>5, SeqEqual
  <2> QED
    BY <2>1, <2>2, <2>6
<1> QED
  BY <1>7 DEF outer, a2, b2

(* A pair is its token, cut at the first '='.                               *)
LEMMA PairOfToken ==
  ASSUME NEW A, NEW token \in Seq(A), First("=", token) # 0
  PROVE  /\ Pair(token) \in [key : Seq(A), value : Seq(A)]
         /\ Pair(token).key \o <<"=">> \o Pair(token).value = token
         /\ "=" \notin ToSet(Pair(token).key)
<1> DEFINE f == First("=", token)
<1>1. /\ f \in Nat /\ 1 <= f /\ f <= Len(token) /\ token[f] = "="
      /\ \A i \in 1 .. f - 1 : token[i] # "="
      /\ Len(token) \in Nat
  BY FirstPlace, LenProperties
<1>2. /\ Pair(token).key = SubSeq(token, 1, f - 1)
      /\ Pair(token).value = SubSeq(token, f + 1, Len(token))
      /\ Pair(token) = [key |-> Pair(token).key, value |-> Pair(token).value]
  BY DEF Pair, Before, After
<1> HIDE DEF f
<1>3. PICK k : k = SubSeq(token, 1, f - 1)
  OBVIOUS
<1>4. PICK v : v = SubSeq(token, f + 1, Len(token))
  OBVIOUS
<1>5. /\ k \in Seq(A) /\ Len(k) = f - 1
      /\ \A i \in 1 .. f - 1 : k[i] = token[i]
  <2>1. f - 1 \in Nat /\ 1 <= f /\ f - 1 <= Len(token) /\ f - 1 - 1 + 1 = f - 1
        /\ \A i \in 1 .. f - 1 : 1 + i - 1 = i
    BY <1>1
  <2>2. /\ SubSeq(token, 1, f - 1) \in Seq(A)
        /\ Len(SubSeq(token, 1, f - 1)) = f - 1 - 1 + 1
        /\ \A i \in 1 .. f - 1 - 1 + 1 : SubSeq(token, 1, f - 1)[i] = token[1 + i - 1]
    BY <1>1, <2>1, Part
  <2> QED
    BY <1>3, <2>1, <2>2
<1>6. /\ v \in Seq(A) /\ Len(v) = Len(token) - f
      /\ \A i \in 1 .. Len(token) - f : v[i] = token[f + i]
  <2>1. PICK a \in Nat : a = f + 1
    BY <1>1
  <2>2. PICK n \in Nat : n = Len(token)
    BY <1>1
  <2>3. 1 <= a /\ a <= n + 1 /\ n <= Len(token)
    BY <1>1, <2>1, <2>2
  <2>4. /\ SubSeq(token, a, n) \in Seq(A)
        /\ Len(SubSeq(token, a, n)) = n - a + 1
        /\ \A i \in 1 .. n - a + 1 : SubSeq(token, a, n)[i] = token[a + i - 1]
    BY <2>3, Part
  <2>5. n - a + 1 = Len(token) - f /\ \A i \in 1 .. Len(token) - f : a + i - 1 = f + i
    BY <1>1, <2>1, <2>2
  <2>6. v = SubSeq(token, a, n)
    BY <1>4, <2>1, <2>2
  <2> QED
    BY <2>4, <2>5, <2>6
<1>7. k \o <<"=">> \o v = token
  <2>1. "=" \in A
    BY <1>1, ElementOfSeq
  <2>2. <<"=">> \in Seq(A) /\ Len(<<"=">>) = 1 /\ <<"=">>[1] = "="
    BY <2>1
  <2>3. PICK h : h = k \o <<"=">>
    OBVIOUS
  <2>4. /\ h \in Seq(A) /\ Len(h) = f
        /\ \A i \in 1 .. f : h[i] = token[i]
    <3>1. /\ h \in Seq(A) /\ Len(h) = (f - 1) + 1
          /\ \A i \in 1 .. (f - 1) + 1 :
                h[i] = IF i <= f - 1 THEN k[i] ELSE <<"=">>[i - (f - 1)]
      BY <1>5, <2>2, <2>3, ConcatProperties
    <3>2. (f - 1) + 1 = f /\ f - (f - 1) = 1
      BY <1>1
    <3>3. ASSUME NEW i \in 1 .. f
          PROVE  h[i] = token[i]
      <4>1. CASE i <= f - 1
        BY <1>1, <1>5, <3>1, <3>2, <4>1
      <4>2. CASE ~ (i <= f - 1)
        <5>1. i = f
          BY <1>1, <4>2
        <5> QED
          BY <1>1, <2>2, <3>1, <3>2, <4>2, <5>1
      <4> QED
        BY <4>1, <4>2
    <3> QED
      BY <3>1, <3>2, <3>3
  <2>5. /\ h \o v \in Seq(A) /\ Len(h \o v) = f + (Len(token) - f)
        /\ \A i \in 1 .. f + (Len(token) - f) :
              (h \o v)[i] = IF i <= f THEN h[i] ELSE v[i - f]
    <3>1. /\ h \o v \in Seq(A) /\ Len(h \o v) = Len(h) + Len(v)
          /\ \A i \in 1 .. Len(h) + Len(v) :
                (h \o v)[i] = IF i <= Len(h) THEN h[i] ELSE v[i - Len(h)]
      BY <1>6, <2>4, ConcatProperties
    <3> QED
      BY <1>6, <2>4, <3>1
  <2>6. f + (Len(token) - f) = Len(token)
    BY <1>1
  <2>7. \A i \in 1 .. Len(token) : (h \o v)[i] = token[i]
    <3> SUFFICES ASSUME NEW i \in 1 .. Len(token)
                 PROVE  (h \o v)[i] = token[i]
      OBVIOUS
    <3>1. CASE i <= f
      BY <1>1, <2>4, <2>5, <2>6, <3>1
    <3>2. CASE ~ (i <= f)
      <4>1. i - f \in 1 .. Len(token) - f /\ f + (i - f) = i
        BY <1>1, <3>2
      <4>2. v[i - f] = token[i]
        BY <1>6, <4>1
      <4> QED
        BY <2>5, <2>6, <3>2, <4>2
    <3> QED
      BY <3>1, <3>2
  <2>8. h \o v = token
    BY <2>5, <2>6, <2>7, SeqEqual
  <2> QED
    BY <2>3, <2>8
<1>8. "=" \notin ToSet(k)
  <2>1. DOMAIN k = 1 .. f - 1
    BY <1>5, LenProperties
  <2> QED
    BY <1>1, <1>5, <2>1 DEF ToSet
<1> QED
  BY <1>2, <1>3, <1>4, <1>5, <1>6, <1>7, <1>8

(* The next part without '&', from d + 1 to e, is the only cut that ends    *)
(* after d and by d2, where strtok goes on.                                 *)
LEMMA NextCut ==
  ASSUME NEW A, NEW q \in Seq(A), NEW d \in Nat, NEW e \in Nat, NEW d2 \in Nat,
         d + 1 <= e, e <= Len(q),
         d = 0 \/ q[d] = "&",
         \A i \in d + 1 .. e : q[i] # "&",
         (e = Len(q) /\ d2 = e) \/ (e + 1 <= Len(q) /\ q[e + 1] = "&" /\ d2 = e + 1)
  PROVE  /\ <<d + 1, e>> \in Cuts(q)
         /\ \A p \in Cuts(q) : p[2] <= d2 => p[2] <= d \/ p = <<d + 1, e>>
         /\ \A p \in Cuts(q) : p[2] <= d2 <=> p[2] <= e
         /\ d <= d2
<1>0. Len(q) \in Nat
  BY LenProperties
<1>1. <<d + 1, e>> \in Cuts(q)
  <2>1. d + 1 \in 1 .. Len(q) /\ e \in 1 .. Len(q)
    BY <1>0
  <2>2. (d + 1) - 1 = d /\ d + 1 <= e
    OBVIOUS
  <2>3. d + 1 = 1 \/ q[(d + 1) - 1] = "&"
    BY <2>2
  <2>4. e = Len(q) \/ q[e + 1] = "&"
    OBVIOUS
  <2>5. <<d + 1, e>> \in (1 .. Len(q)) \X (1 .. Len(q))
    BY <2>1
  <2>6. <<d + 1, e>>[1] = d + 1 /\ <<d + 1, e>>[2] = e
    OBVIOUS
  <2> QED
    BY <2>2, <2>3, <2>4, <2>5, <2>6 DEF Cuts
<1>2. ASSUME NEW p \in Cuts(q), p[2] <= d2
      PROVE  p[2] <= e /\ (p[2] <= d \/ p = <<d + 1, e>>)
  <2>1. PICK a \in 1 .. Len(q), b \in 1 .. Len(q) : p = <<a, b>>
    BY DEF Cuts
  <2>2. p[1] = a /\ p[2] = b
    BY <2>1
  <2>3. /\ a <= b
        /\ \A i \in a .. b : q[i] # "&"
        /\ a = 1 \/ q[a - 1] = "&"
        /\ b = Len(q) \/ q[b + 1] = "&"
    BY <2>2 DEF Cuts
  <2>4. a \in Nat /\ b \in Nat /\ 1 <= a /\ b <= Len(q) /\ b <= d2
    BY <1>0, <1>2, <2>1, <2>2
  <2>5. b <= e
    <3>1. b \in a .. b
      BY <2>3, <2>4
    <3>2. q[b] # "&"
      BY <2>3, <3>1
    <3> QED
      BY <1>0, <2>4, <3>2
  <2>6. ASSUME ~ (b <= d)
        PROVE  a = d + 1 /\ b = e
    <3>1. b = e
      <4> SUFFICES ASSUME b < e
                   PROVE  FALSE
        BY <2>4, <2>5
      <4>1. b + 1 \in d + 1 .. e /\ b # Len(q)
        BY <1>0, <2>4, <2>6
      <4> QED
        BY <2>3, <4>1
    <3>2. ~ (a > d + 1)
      <4> SUFFICES ASSUME a > d + 1
                   PROVE  FALSE
        OBVIOUS
      <4>1. a - 1 \in d + 1 .. e /\ a # 1
        BY <2>3, <2>4, <3>1
      <4> QED
        BY <2>3, <4>1
    <3>3. ~ (a <= d)
      <4> SUFFICES ASSUME a <= d
                   PROVE  FALSE
        OBVIOUS
      <4>1. d \in a .. b /\ d # 0
        BY <2>4, <2>6
      <4> QED
        BY <2>3, <4>1
    <3> QED
      BY <2>4, <3>1, <3>2, <3>3
  <2> QED
    BY <2>1, <2>2, <2>5, <2>6
<1>3. \A p \in Cuts(q) : p[2] <= e => p[2] <= d2
  <2> SUFFICES ASSUME NEW p \in Cuts(q), p[2] <= e
               PROVE  p[2] <= d2
    OBVIOUS
  <2>1. p[2] \in 1 .. Len(q)
    BY DEF Cuts
  <2> QED
    BY <1>0, <2>1
<1>4. d <= d2
  BY <1>0
<1> QED
  BY <1>1, <1>2, <1>3, <1>4

(* The pairs are counted.                                                   *)
LEMMA PairsCounted ==
  ASSUME NEW A, NEW q \in Seq(A)
  PROVE  /\ IsFiniteSet(PairCuts(q))
         /\ \A p \in PairCuts(q) : p[2] \in Nat /\ 1 <= p[2] /\ p[2] <= Len(q)
         /\ PairsBy(q, 0) = 0
         /\ PairsBy(q, Len(q)) = Cardinality(PairCuts(q))
         /\ \A i \in Nat : PairsBy(q, i) \in Nat
         /\ \A i \in Nat : \A p \in PairCuts(q) :
              p[2] <= i => PairsBy(q, p[2]) \in 1 .. PairsBy(q, i)
<1>0. Len(q) \in Nat
  BY LenProperties
<1> DEFINE S == PairCuts(q)
           by(i) == {p \in S : p[2] <= i}
<1>1. IsFiniteSet(S)
  <2>1. IsFiniteSet(1 .. Len(q))
    BY <1>0, FS_Interval
  <2>2. IsFiniteSet((1 .. Len(q)) \X (1 .. Len(q)))
    BY <2>1, FS_Product
  <2>3. S \subseteq (1 .. Len(q)) \X (1 .. Len(q))
    BY DEF PairCuts, Cuts
  <2> QED
    BY <2>2, <2>3, FS_Subset
<1>2. \A p \in S : p[2] \in Nat /\ 1 <= p[2] /\ p[2] <= Len(q)
  <2>1. \A p \in S : p[2] \in 1 .. Len(q)
    BY DEF PairCuts, Cuts
  <2> QED
    BY <1>0, <2>1
<1>3. \A i : PairsBy(q, i) = Cardinality(by(i))
  BY DEF PairsBy
<1> HIDE DEF S
<1>4. \A i : IsFiniteSet(by(i)) /\ Cardinality(by(i)) \in Nat
  BY <1>1, FS_Subset, FS_CardinalityType
<1>5. by(0) = {} /\ by(Len(q)) = S
  BY <1>2
<1>6. PairsBy(q, 0) = 0 /\ PairsBy(q, Len(q)) = Cardinality(S)
  BY <1>3, <1>5, FS_EmptySet
<1>7. ASSUME NEW i \in Nat, NEW p \in S, p[2] <= i
      PROVE  PairsBy(q, p[2]) \in 1 .. PairsBy(q, i)
  <2>1. by(p[2]) \subseteq by(i) /\ p \in by(p[2])
    BY <1>2, <1>7
  <2>2. Cardinality(by(p[2])) <= Cardinality(by(i))
    BY <1>4, <2>1, FS_Subset
  <2>3. Cardinality(by(p[2])) # 0
    BY <1>4, <2>1, FS_EmptySet
  <2>4. Cardinality(by(p[2])) \in Nat /\ Cardinality(by(i)) \in Nat
    BY <1>4
  <2> QED
    BY <1>3, <2>2, <2>3, <2>4
<1> QED
  BY <1>1, <1>2, <1>3, <1>4, <1>6, <1>7 DEF S

LEMMA PairsGrow ==
  ASSUME NEW A, NEW q \in Seq(A), NEW d \in Nat, NEW e \in Nat, NEW d2 \in Nat,
         d + 1 <= e, e <= Len(q),
         d = 0 \/ q[d] = "&",
         \A i \in d + 1 .. e : q[i] # "&",
         (e = Len(q) /\ d2 = e) \/ (e + 1 <= Len(q) /\ q[e + 1] = "&" /\ d2 = e + 1)
  PROVE  /\ \A p \in PairCuts(q) : p[2] <= d2 => p[2] <= d \/ p = <<d + 1, e>>
         /\ PairsBy(q, d2) = PairsBy(q, e)
         /\ PairsBy(q, d2) = IF "=" \in ToSet(SubSeq(q, d + 1, e)) THEN PairsBy(q, d) + 1
                                                                  ELSE PairsBy(q, d)
<1> DEFINE S == PairCuts(q)
           by(i) == {p \in S : p[2] <= i}
           c == <<d + 1, e>>
<1>1. /\ c \in Cuts(q)
      /\ \A p \in Cuts(q) : p[2] <= d2 => p[2] <= d \/ p = c
      /\ \A p \in Cuts(q) : p[2] <= d2 <=> p[2] <= e
      /\ d <= d2
  BY NextCut
<1>2. /\ IsFiniteSet(S)
      /\ \A p \in S : p[2] \in Nat /\ 1 <= p[2] /\ p[2] <= Len(q)
      /\ S \subseteq Cuts(q)
  BY PairsCounted DEF PairCuts
<1>3. \A i : PairsBy(q, i) = Cardinality(by(i))
  BY DEF PairsBy
<1>4. c \in S <=> "=" \in ToSet(SubSeq(q, d + 1, e))
  <2>1. c[1] = d + 1 /\ c[2] = e
    OBVIOUS
  <2> QED
    BY <1>1, <2>1 DEF PairCuts
<1>5. c[2] = e
  OBVIOUS
<1> HIDE DEF S, c
<1>6. by(d2) = by(e)
  BY <1>1, <1>2
<1>7. c \notin by(d) /\ IsFiniteSet(by(d))
  BY <1>2, <1>5, FS_Subset
<1>8. CASE c \in S
  <2>1. by(d2) = by(d) \cup {c}
    BY <1>1, <1>2, <1>5, <1>8
  <2>2. Cardinality(by(d) \cup {c}) = Cardinality(by(d)) + 1
    BY <1>7, FS_AddElement
  <2> QED
    BY <1>1, <1>2, <1>3, <1>4, <1>6, <1>8, <2>1, <2>2 DEF S, c
<1>9. CASE c \notin S
  <2>1. by(d2) = by(d)
    BY <1>1, <1>2, <1>5, <1>9
  <2> QED
    BY <1>1, <1>2, <1>3, <1>4, <1>6, <1>9, <2>1 DEF S, c
<1> QED
  BY <1>8, <1>9

(* The invariant: what is behind strtok, up to d, is taken.                 *)
PairIs(q, pairs, p) ==
  LET pair == pairs[PairsBy(q, p[2])]
  IN /\ pair.key \o <<"=">> \o pair.value = SubSeq(q, p[1], p[2])
     /\ "=" \notin ToSet(pair.key)

Taken(q, pairs, d) ==
  /\ d \in Nat /\ d <= Len(q)
  /\ d = 0 \/ d = Len(q) \/ q[d] = "&"
  /\ Len(pairs) = PairsBy(q, d)
  /\ \A p \in PairCuts(q) : p[2] <= d => PairIs(q, pairs, p)

Query == After("?", url)

UrlTypeOK ==
  /\ url \in Urls
  /\ room \in Nat /\ 1 <= room
  /\ parameters \in Seq([key : Seq(ToSet(url)), value : Seq(ToSet(url))])

UrlInv ==
  /\ UrlTypeOK
  /\ Len(parameters) <= room
  /\ routes = IF handling = "boot" THEN <<>> ELSE Registered
  /\ handling \in {"boot", "endPoint"} => parameters = <<>>
  /\ handling \in {"parameters", "handler"} =>
       /\ end_point = URLHandler_ParseEndPoint(url) /\ end_point # NULL
       /\ \E d \in Nat : /\ rest = SubSeq(Query, d + 1, Len(Query))
                         /\ Taken(Query, parameters, d)
  /\ handling = "handler" => /\ rest = <<>>
                             /\ handler = RouteHandler_FindRoute(routes, end_point)

(* r begins with a token that goes up to e, and strtok goes on behind d2.    *)
TokenTo(A, q, d, r, e, d2) ==
  /\ d + 1 <= e /\ e <= Len(q)
  /\ d = 0 \/ q[d] = "&"
  /\ \A i \in d + 1 .. e : q[i] # "&"
  /\ \/ e = Len(q) /\ d2 = e
     \/ e + 1 <= Len(q) /\ q[e + 1] = "&" /\ d2 = e + 1
  /\ Before("&", r) = SubSeq(q, d + 1, e)
  /\ Before("&", r) \in Seq(A)
  /\ After("&", IF First("&", r) = 0 THEN Append(r, "&") ELSE r)
       = SubSeq(q, d2 + 1, Len(q))

(* What is left after d is a part of the query, and so is its next token.   *)
LEMMA TokenAhead ==
  ASSUME NEW A, NEW q \in Seq(A), NEW d \in Nat, d <= Len(q),
         d = 0 \/ d = Len(q) \/ q[d] = "&", NEW r
  PROVE  r = SubSeq(q, d + 1, Len(q)) /\ r # <<>> /\ Head(r) # "&" =>
         \E e, d2 \in Nat : TokenTo(A, q, d, r, e, d2)
<1>r. SUFFICES ASSUME r = SubSeq(q, d + 1, Len(q)), r # <<>>, Head(r) # "&"
               PROVE  \E e, d2 \in Nat : TokenTo(A, q, d, r, e, d2)
  OBVIOUS
<1>0. PICK n \in Nat : n = Len(q)
  BY LenProperties
<1>1. PICK a \in Nat : a = d + 1
  OBVIOUS
<1>2. r = SubSeq(q, a, n) /\ 1 <= a /\ a <= n + 1 /\ n <= Len(q)
  BY <1>r, <1>0, <1>1
<1>3. /\ r \in Seq(A) /\ Len(r) = n - d
      /\ \A i \in 1 .. n - d : r[i] = q[d + i]
  <2>1. /\ r \in Seq(A) /\ Len(r) = n - a + 1
        /\ \A i \in 1 .. n - a + 1 : r[i] = q[a + i - 1]
    BY <1>2, Part
  <2>2. n - a + 1 = n - d /\ \A i \in 1 .. n - d : a + i - 1 = d + i
    BY <1>1
  <2>3. \A i \in 1 .. n - d : r[i] = q[a + i - 1]
    BY <2>1, <2>2
  <2> QED
    BY <2>1, <2>2, <2>3
<1>4. Len(r) # 0 /\ d < n
  <2>1. Len(r) # 0
    BY <1>r, <1>3, EmptySeq
  <2> QED
    BY <1>0, <1>3, <2>1
<1>5. d = 0 \/ q[d] = "&"
  BY <1>0, <1>4
<1>6. q[d + 1] # "&" /\ r[1] # "&"
  <2>1. r[1] = Head(r) /\ r[1] = q[d + 1]
    BY <1>0, <1>3, <1>4
  <2> QED
    BY <1>r, <2>1
<1> DEFINE f == First("&", r)
<1>7. /\ f \in Nat /\ f <= Len(r)
      /\ f = 0 => \A i \in 1 .. Len(r) : r[i] # "&"
      /\ f # 0 => r[f] = "&" /\ \A i \in 1 .. f - 1 : r[i] # "&"
  BY <1>3, FirstPlace
<1>8. /\ Before("&", r) = IF f = 0 THEN r ELSE SubSeq(r, 1, f - 1)
      /\ After("&", r) = SubSeq(r, f + 1, Len(r))
  BY DEF Before, After
<1> HIDE DEF f
<1>9. CASE f = 0
  <2>1. \A i \in d + 1 .. n : q[i] # "&"
    <3> SUFFICES ASSUME NEW i \in d + 1 .. n
                 PROVE  q[i] # "&"
      OBVIOUS
    <3>1. i - d \in 1 .. n - d /\ d + (i - d) = i
      BY <1>0
    <3> QED
      BY <1>3, <1>7, <1>9, <3>1
  <2>2. Before("&", r) = SubSeq(q, d + 1, n) /\ Before("&", r) \in Seq(A)
    BY <1>1, <1>2, <1>3, <1>8, <1>9
  <2>3. After("&", Append(r, "&")) = <<>>
    <3> DEFINE B == A \cup {"&"}
    <3>1. r \in Seq(B) /\ "&" \in B
      BY <1>3, SeqMonotonic
    <3> HIDE DEF B
    <3>2. PICK x : x = Append(r, "&")
      OBVIOUS
    <3>3. /\ x \in Seq(B) /\ Len(x) = Len(r) + 1
          /\ \A i \in 1 .. Len(r) : x[i] = r[i]
          /\ x[Len(r) + 1] = "&"
      BY <3>1, <3>2, AppendProperties
    <3>4. Len(x) = n - d + 1 /\ \A i \in 1 .. n - d : x[i] # "&"
      BY <1>3, <1>7, <1>9, <3>3
    <3>5. /\ First("&", x) \in Nat /\ First("&", x) <= Len(x)
          /\ First("&", x) = 0 => \A i \in 1 .. Len(x) : x[i] # "&"
          /\ First("&", x) # 0 => x[First("&", x)] = "&"
      BY <3>3, FirstPlace
    <3>6. First("&", x) = Len(x)
      <4>1. Len(x) \in 1 .. Len(x) /\ x[Len(x)] = "&"
        BY <1>0, <1>3, <3>3, <3>4
      <4>2. First("&", x) # 0
        BY <3>5, <4>1
      <4>3. ~ (First("&", x) \in 1 .. n - d)
        BY <3>4, <3>5, <4>2
      <4> QED
        BY <1>0, <3>4, <3>5, <4>2, <4>3
    <3>7. After("&", x) = SubSeq(x, Len(x) + 1, Len(x))
      BY <3>6 DEF After
    <3>8. Len(x) \in Int /\ Len(x) < Len(x) + 1
      BY <1>0, <3>4
    <3>9. SubSeq(x, Len(x) + 1, Len(x)) = <<>>
      BY <3>8, SubSeqEmpty
    <3> QED
      BY <3>2, <3>7, <3>9
  <2>4. SubSeq(q, n + 1, n) = <<>>
    <3>1. n + 1 \in Int /\ n \in Int /\ n < n + 1
      OBVIOUS
    <3> QED
      BY <3>1, SubSeqEmpty
  <2>5. d + 1 <= n
    BY <1>4
  <2>6. After("&", IF First("&", r) = 0 THEN Append(r, "&") ELSE r) = SubSeq(q, n + 1, n)
    <3>1. First("&", r) = 0
      BY <1>9 DEF f
    <3> QED
      BY <2>3, <2>4, <3>1
  <2> WITNESS n \in Nat, n \in Nat
  <2> QED
    BY <1>0, <1>5, <2>1, <2>2, <2>5, <2>6 DEF TokenTo
<1>10. CASE f # 0
  <2>1. f # 0 /\ f # 1 /\ f \in Nat /\ f <= n - d
    BY <1>3, <1>6, <1>7, <1>10
  <2>2. PICK e \in Nat : e = d + f - 1
    BY <2>1
  <2>3. PICK d2 \in Nat : d2 = d + f
    BY <2>1
  <2>4. d + 1 <= e /\ e <= n /\ e + 1 <= n /\ d2 = e + 1
    BY <1>0, <2>1, <2>2, <2>3
  <2>5. q[e + 1] = "&"
    <3>1. f \in 1 .. n - d /\ d + f = e + 1
      BY <2>1, <2>2
    <3> QED
      BY <1>3, <1>7, <1>10, <3>1
  <2>6. \A i \in d + 1 .. e : q[i] # "&"
    <3> SUFFICES ASSUME NEW i \in d + 1 .. e
                 PROVE  q[i] # "&"
      OBVIOUS
    <3>1. i - d \in 1 .. n - d /\ i - d \in 1 .. f - 1 /\ d + (i - d) = i
      BY <1>0, <2>1, <2>2
    <3> QED
      BY <1>3, <1>7, <1>10, <3>1
  <2>7. SubSeq(r, 1, f - 1) = SubSeq(q, d + 1, e)
    <3>1. PICK g \in Nat : g = f - 1
      BY <2>1
    <3>2. 1 <= g + 1 /\ g <= n - a + 1
      BY <1>0, <1>1, <2>1, <3>1
    <3>3. SubSeq(SubSeq(q, a, n), 1, g) = SubSeq(q, a + 1 - 1, a + g - 1)
      BY <1>2, <3>2, PartOfPart
    <3>4. a + 1 - 1 = d + 1 /\ a + g - 1 = e
      BY <1>1, <2>1, <2>2, <3>1
    <3> QED
      BY <1>2, <3>1, <3>3, <3>4
  <2>8. SubSeq(q, d + 1, e) \in Seq(A)
    <3>1. 1 <= a /\ a <= e + 1 /\ e <= Len(q)
      BY <1>0, <1>1, <2>4
    <3> QED
      BY <1>1, <3>1, Part
  <2>9. SubSeq(r, f + 1, Len(r)) = SubSeq(q, d2 + 1, n)
    <3>1. PICK g \in Nat : g = f + 1
      BY <2>1
    <3>2. PICK k \in Nat : k = n - d
      <4>1. n - d \in Nat
        BY <1>4
      <4> QED
        BY <4>1
    <3>3. 1 <= g /\ g <= k + 1 /\ k <= n - a + 1
      BY <1>0, <1>1, <2>1, <3>1, <3>2
    <3>4. SubSeq(SubSeq(q, a, n), g, k) = SubSeq(q, a + g - 1, a + k - 1)
      BY <1>2, <3>3, PartOfPart
    <3>5. a + g - 1 = d2 + 1 /\ a + k - 1 = n
      BY <1>0, <1>1, <2>1, <2>3, <3>1, <3>2
    <3> QED
      BY <1>2, <1>3, <3>1, <3>2, <3>4, <3>5
  <2>10. After("&", IF First("&", r) = 0 THEN Append(r, "&") ELSE r) = SubSeq(q, d2 + 1, n)
    <3>1. First("&", r) # 0
      BY <1>10 DEF f
    <3> QED
      BY <1>8, <2>9, <3>1
  <2>11. Before("&", r) = SubSeq(q, d + 1, e)
    BY <1>8, <1>10, <2>7
  <2> WITNESS e \in Nat, d2 \in Nat
  <2> QED
    BY <1>0, <1>5, <2>4, <2>5, <2>6, <2>8, <2>10, <2>11 DEF TokenTo
<1> QED
  BY <1>9, <1>10

LEMMA NoSign ==
  ASSUME NEW A, NEW token \in Seq(A)
  PROVE  First("=", token) = 0 <=> "=" \notin ToSet(token)
<1>1. DOMAIN token = 1 .. Len(token) /\ Len(token) \in Nat
  BY LenProperties
<1>2. /\ First("=", token) \in Nat /\ First("=", token) <= Len(token)
      /\ First("=", token) = 0 => \A i \in 1 .. Len(token) : token[i] # "="
      /\ First("=", token) # 0 => token[First("=", token)] = "="
  BY FirstPlace
<1>3. First("=", token) # 0 => First("=", token) \in DOMAIN token
  BY <1>1, <1>2
<1> QED
  BY <1>1, <1>2, <1>3 DEF ToSet

(* A token is passed over or taken.                                         *)
LEMMA TokenTaken ==
  ASSUME NEW A, NEW q \in Seq(A), NEW d \in Nat, NEW e \in Nat, NEW d2 \in Nat,
         d + 1 <= e, e <= Len(q),
         d = 0 \/ q[d] = "&",
         \A i \in d + 1 .. e : q[i] # "&",
         (e = Len(q) /\ d2 = e) \/ (e + 1 <= Len(q) /\ q[e + 1] = "&" /\ d2 = e + 1),
         NEW P, NEW pairs \in Seq(P), Taken(q, pairs, d),
         NEW token \in Seq(A), token = SubSeq(q, d + 1, e)
  PROVE  /\ First("=", token) = 0 => Taken(q, pairs, d2)
         /\ First("=", token) # 0 /\ Pair(token) \in P =>
              Taken(q, Append(pairs, Pair(token)), d2)
<1>1. /\ \A p \in PairCuts(q) : p[2] <= d2 => p[2] <= d \/ p = <<d + 1, e>>
      /\ PairsBy(q, d2) = PairsBy(q, e)
      /\ PairsBy(q, d2) = IF "=" \in ToSet(token) THEN PairsBy(q, d) + 1
                                                  ELSE PairsBy(q, d)
  BY PairsGrow
<1>2. /\ Len(pairs) = PairsBy(q, d) /\ Len(pairs) \in Nat
      /\ \A p \in PairCuts(q) : p[2] <= d => PairIs(q, pairs, p)
  BY LenProperties DEF Taken
<1>3. First("=", token) = 0 <=> "=" \notin ToSet(token)
  BY NoSign
<1>4. d2 \in Nat /\ d2 <= Len(q) /\ (d2 = 0 \/ d2 = Len(q) \/ q[d2] = "&")
  OBVIOUS
<1>5. CASE First("=", token) = 0
  <2>1. Len(pairs) = PairsBy(q, d2)
    BY <1>1, <1>2, <1>3, <1>5
  <2>2. <<d + 1, e>> \notin PairCuts(q)
    <3>1. <<d + 1, e>>[1] = d + 1 /\ <<d + 1, e>>[2] = e
      OBVIOUS
    <3> QED
      BY <1>3, <1>5, <3>1 DEF PairCuts
  <2>3. \A p \in PairCuts(q) : p[2] <= d2 => PairIs(q, pairs, p)
    BY <1>1, <1>2, <2>2
  <2> QED
    BY <1>4, <1>5, <2>1, <2>3 DEF Taken
<1>6. ASSUME First("=", token) # 0, Pair(token) \in P
      PROVE  Taken(q, Append(pairs, Pair(token)), d2)
  <2>1. PICK new : new = Append(pairs, Pair(token))
    OBVIOUS
  <2>2. /\ Len(new) = Len(pairs) + 1
        /\ \A i \in 1 .. Len(pairs) : new[i] = pairs[i]
        /\ new[Len(pairs) + 1] = Pair(token)
    BY <1>6, <2>1, AppendProperties
  <2>3. Len(new) = PairsBy(q, d2) /\ PairsBy(q, e) = Len(pairs) + 1
    BY <1>1, <1>2, <1>3, <1>6, <2>2
  <2>4. ASSUME NEW p \in PairCuts(q), p[2] <= d2
        PROVE  PairIs(q, new, p)
    <3>1. CASE p[2] <= d
      <4>1. PairIs(q, pairs, p)
        BY <1>2, <3>1
      <4>2. PairsBy(q, p[2]) \in 1 .. PairsBy(q, d)
        BY <3>1, PairsCounted
      <4>3. new[PairsBy(q, p[2])] = pairs[PairsBy(q, p[2])]
        BY <1>2, <2>2, <4>2
      <4> QED
        BY <4>1, <4>3 DEF PairIs
    <3>2. CASE p = <<d + 1, e>>
      <4>1. p[1] = d + 1 /\ p[2] = e
        BY <3>2
      <4>2. new[PairsBy(q, p[2])] = Pair(token)
        BY <2>2, <2>3, <4>1
      <4>3. /\ Pair(token).key \o <<"=">> \o Pair(token).value = token
            /\ "=" \notin ToSet(Pair(token).key)
        BY <1>6, PairOfToken
      <4> QED
        BY <4>1, <4>2, <4>3 DEF PairIs
    <3> QED
      BY <1>1, <2>4, <3>1, <3>2
  <2>5. Taken(q, new, d2)
    BY <1>4, <2>3, <2>4 DEF Taken
  <2> QED
    BY <2>1, <2>5
<1> QED
  BY <1>5, <1>6

(* The '&' that strtok passes over ends nothing.                            *)
LEMMA AmpersandTaken ==
  ASSUME NEW A, NEW q \in Seq(A), NEW d \in Nat, NEW P, NEW pairs \in Seq(P),
         Taken(q, pairs, d), NEW r
  PROVE  r = SubSeq(q, d + 1, Len(q)) /\ r # <<>> /\ Head(r) = "&" =>
           /\ Tail(r) = SubSeq(q, (d + 1) + 1, Len(q))
           /\ Taken(q, pairs, d + 1)
<1>r. SUFFICES ASSUME r = SubSeq(q, d + 1, Len(q)), r # <<>>, Head(r) = "&"
               PROVE  /\ Tail(r) = SubSeq(q, (d + 1) + 1, Len(q))
                      /\ Taken(q, pairs, d + 1)
  OBVIOUS
<1>0. PICK n \in Nat : n = Len(q)
  BY LenProperties
<1>1. PICK a \in Nat : a = d + 1
  OBVIOUS
<1>2. d <= n
  BY <1>0 DEF Taken
<1>3. r = SubSeq(q, a, n) /\ 1 <= a /\ a <= n + 1 /\ n <= Len(q)
  BY <1>r, <1>0, <1>1, <1>2
<1>4. /\ r \in Seq(A) /\ Len(r) = n - a + 1
      /\ \A i \in 1 .. n - a + 1 : r[i] = q[a + i - 1]
  BY <1>3, Part
<1>5. Len(r) # 0 /\ a <= n
  <2>1. Len(r) # 0
    BY <1>r, <1>4, EmptySeq
  <2> QED
    BY <1>3, <1>4, <2>1
<1>6. q[a] = "&" /\ Tail(r) = SubSeq(q, a + 1, n)
  <2>1. a \in 1 .. Len(q) /\ n \in a .. Len(q)
    BY <1>0, <1>3, <1>5
  <2>2. Head(SubSeq(q, a, n)) = q[a] /\ Tail(SubSeq(q, a, n)) = SubSeq(q, a + 1, n)
    BY <2>1, HeadTailOfSubSeq
  <2> QED
    BY <1>r, <1>3, <2>2
<1>7. Taken(q, pairs, a)
  <2>1. \A p \in PairCuts(q) : p[2] # a /\ p[2] \in Nat
    <3> SUFFICES ASSUME NEW p \in PairCuts(q)
                 PROVE  p[2] # a /\ p[2] \in Nat
      OBVIOUS
    <3>1. p[2] \in Nat
      BY PairsCounted
    <3>2. PICK x \in 1 .. Len(q), y \in 1 .. Len(q) : p = <<x, y>>
      BY DEF PairCuts, Cuts
    <3>3. x <= y /\ \A i \in x .. y : q[i] # "&"
      BY <3>2 DEF PairCuts, Cuts
    <3>4. y \in x .. y /\ p[2] = y
      BY <1>0, <3>2, <3>3
    <3> QED
      BY <1>6, <3>1, <3>3, <3>4
  <2>2. \A p \in PairCuts(q) : p[2] <= a <=> p[2] <= d
    BY <1>1, <2>1
  <2>3. PairsBy(q, a) = PairsBy(q, d)
    <3>1. {p \in PairCuts(q) : p[2] <= a} = {p \in PairCuts(q) : p[2] <= d}
      BY <2>2
    <3> QED
      BY <3>1 DEF PairsBy
  <2> QED
    BY <1>0, <1>5, <1>6, <2>2, <2>3 DEF Taken
<1> QED
  BY <1>0, <1>1, <1>6, <1>7

-----------------------------------------------------------------------------
(***************************************************************************)
(* Folds over a sequence.  FoldLeft of the community modules is a recursive *)
(* function on the sets of places; such a function exists, and the steps of *)
(* the fold are its values at the initial segments.                         *)
(***************************************************************************)
LEMMA MaxOf ==
  ASSUME NEW T, T \subseteq Nat, NEW n \in T, \A m \in T : m <= n
  PROVE  Max(T) = n
<1> DEFINE c == CHOOSE x \in T : \A y \in T : x >= y
<1>1. c \in T /\ \A y \in T : c >= y
  OBVIOUS
<1>2. c <= n /\ n <= c /\ c \in Nat /\ n \in Nat
  BY <1>1
<1> HIDE DEF c
<1>3. c = n
  BY <1>2
<1> QED
  BY <1>3 DEF Max, c

LEMMA MaxIn ==
  ASSUME NEW n \in Nat, NEW T, T \subseteq 1 .. n, T # {}
  PROVE  Max(T) \in T
<1> DEFINE D == {n - m : m \in T}
<1>1. \A m \in T : m \in Nat /\ m <= n /\ n - m \in Nat
  OBVIOUS
<1>2. D \subseteq Nat /\ D # {}
  BY <1>1
<1>3. PICK x \in D : \A y \in D : x <= y
  BY <1>2, LeastNumber
<1>4. PICK m \in T : x = n - m
  BY <1>3
<1>5. \A k \in T : k <= m
  <2> SUFFICES ASSUME NEW k \in T
               PROVE  k <= m
    OBVIOUS
  <2>1. n - k \in D
    OBVIOUS
  <2>2. n - m <= n - k
    BY <1>3, <1>4, <2>1
  <2> QED
    BY <1>1, <2>2
<1>6. T \subseteq Nat
  BY <1>1
<1> HIDE DEF D
<1>7. Max(T) = m
  BY <1>5, <1>6, MaxOf
<1> QED
  BY <1>7

LEMMA Segments ==
  ASSUME NEW n \in Nat
  PROVE  /\ 1 .. 0 = {} /\ {} \in SUBSET (1 .. n)
         /\ \A k \in Nat : k <= n => 1 .. k \in SUBSET (1 .. n)
         /\ \A k \in Nat : /\ 1 .. (k + 1) # {}
                           /\ Max(1 .. (k + 1)) = k + 1
                           /\ (1 .. (k + 1)) \ {k + 1} = 1 .. k
<1>1. 1 .. 0 = {} /\ {} \in SUBSET (1 .. n)
  OBVIOUS
<1>2. \A k \in Nat : k <= n => 1 .. k \in SUBSET (1 .. n)
  OBVIOUS
<1>3. ASSUME NEW k \in Nat
      PROVE  /\ 1 .. (k + 1) # {}
             /\ Max(1 .. (k + 1)) = k + 1
             /\ (1 .. (k + 1)) \ {k + 1} = 1 .. k
  <2> DEFINE T == 1 .. (k + 1)
  <2>1. T \subseteq Nat /\ k + 1 \in T /\ \A m \in T : m <= k + 1
    OBVIOUS
  <2>2. (1 .. (k + 1)) \ {k + 1} = 1 .. k
    OBVIOUS
  <2> HIDE DEF T
  <2>3. Max(T) = k + 1
    BY <2>1, MaxOf
  <2> QED
    BY <2>1, <2>2, <2>3 DEF T
<1> QED
  BY <1>1, <1>2, <1>3

(* A function that folds the values of g over every set of places.          *)
IsFold(it, n, base, g) ==
  \A T \in SUBSET (1 .. n) :
    it[T] = IF T = {} THEN base ELSE g[<<Max(T), it[T \ {Max(T)}]>>]

LEMMA FoldExists ==
  ASSUME NEW n \in Nat, NEW V, NEW base \in V, NEW g \in [(1 .. n) \X V -> V]
  PROVE  \E it \in [SUBSET (1 .. n) -> V] : IsFold(it, n, base, g)
<1> DEFINE Body(it, T) == IF T = {} THEN base ELSE g[<<Max(T), it[T \ {Max(T)}]>>]
           Works(k) == \E it \in [SUBSET (1 .. k) -> V] :
                         \A T \in SUBSET (1 .. k) : it[T] = Body(it, T)
           Up == {k \in Nat : k <= n => Works(k)}
<1>1. 0 \in Up
  <2>1. PICK it : it = [T \in SUBSET (1 .. 0) |-> base]
    OBVIOUS
  <2>2. it \in [SUBSET (1 .. 0) -> V]
    BY <2>1
  <2>3. \A T \in SUBSET (1 .. 0) : T = {}
    OBVIOUS
  <2>4. \A T \in SUBSET (1 .. 0) : it[T] = Body(it, T)
    BY <2>1, <2>3
  <2> HIDE DEF Body
  <2>5. Works(0)
    BY <2>2, <2>4
  <2> HIDE DEF Works
  <2> QED
    BY <2>5
<1>2. ASSUME NEW k \in Nat, k \in Up
      PROVE  k + 1 \in Up
  <2>0. SUFFICES ASSUME k + 1 <= n
                 PROVE  Works(k + 1)
    <3> HIDE DEF Works
    <3> QED
      OBVIOUS
  <2>a. Works(k)
    <3> HIDE DEF Works
    <3> QED
      BY <1>2, <2>0
  <2>1. PICK it \in [SUBSET (1 .. k) -> V] :
          \A T \in SUBSET (1 .. k) : it[T] = Body(it, T)
    BY <2>a
  <2>2. PICK new : new = [T \in SUBSET (1 .. k + 1) |->
                            IF k + 1 \in T THEN g[<<k + 1, it[T \ {k + 1}]>>] ELSE it[T]]
    OBVIOUS
  <2>3. \A T \in SUBSET (1 .. k + 1) :
          /\ k + 1 \notin T => T \in SUBSET (1 .. k)
          /\ T \ {k + 1} \in SUBSET (1 .. k)
    OBVIOUS
  <2>4. \A T \in SUBSET (1 .. k + 1) : new[T] \in V
    <3> SUFFICES ASSUME NEW T \in SUBSET (1 .. k + 1)
                 PROVE  new[T] \in V
      OBVIOUS
    <3>1. CASE k + 1 \in T
      <4>1. it[T \ {k + 1}] \in V
        BY <2>1, <2>3
      <4>2. k + 1 \in 1 .. n
        BY <2>0
      <4>3. <<k + 1, it[T \ {k + 1}]>> \in (1 .. n) \X V
        BY <4>1, <4>2
      <4>4. new[T] = g[<<k + 1, it[T \ {k + 1}]>>]
        BY <2>2, <3>1
      <4> QED
        BY <4>3, <4>4
    <3>2. CASE k + 1 \notin T
      BY <2>1, <2>2, <2>3, <3>2
    <3> QED
      BY <3>1, <3>2
  <2>5. new \in [SUBSET (1 .. k + 1) -> V]
    BY <2>2, <2>4
  <2>6. ASSUME NEW T \in SUBSET (1 .. k + 1)
        PROVE  new[T] = Body(new, T)
    <3>1. CASE k + 1 \in T
      <4>1. Max(T) = k + 1
        <5>1. T \subseteq Nat /\ \A m \in T : m <= k + 1
          OBVIOUS
        <5> QED
          BY <3>1, <5>1, MaxOf
      <4>2. T \ {k + 1} \in SUBSET (1 .. k + 1) /\ k + 1 \notin T \ {k + 1}
        OBVIOUS
      <4>3. new[T \ {k + 1}] = it[T \ {k + 1}]
        BY <2>2, <4>2
      <4>4. new[T] = g[<<k + 1, it[T \ {k + 1}]>>]
        BY <2>2, <3>1
      <4> QED
        BY <3>1, <4>1, <4>3, <4>4
    <3>2. CASE k + 1 \notin T
      <4>1. T \in SUBSET (1 .. k) /\ T \ {Max(T)} \in SUBSET (1 .. k + 1)
            /\ k + 1 \notin T \ {Max(T)}
        BY <2>3, <3>2
      <4>2. new[T] = it[T] /\ new[T \ {Max(T)}] = it[T \ {Max(T)}]
        BY <2>2, <3>2, <4>1
      <4>3. it[T] = Body(it, T)
        BY <2>1, <4>1
      <4> QED
        BY <4>2, <4>3
    <3> QED
      BY <3>1, <3>2
  <2> HIDE DEF Body
  <2> QED
    BY <2>5, <2>6
<1> HIDE DEF Up
<1>3. n \in Up
  BY <1>1, <1>2, AllNumbers
<1>4. Works(n)
  <2> HIDE DEF Works
  <2> QED
    BY <1>3 DEF Up
<1> QED
  BY <1>4 DEF IsFold

(* The routes are registered in their order, and there is room for them.    *)
LEMMA RoutesRegistered ==
  ASSUME URLAssumption
  PROVE  FoldLeft(RouteHandler_Init, <<>>, Registered) = Registered
<1> DEFINE R == ToSet(Registered)
           V == Seq(R)
           n == Len(Registered)
           Body(it, T) == IF T = {} THEN <<>>
                          ELSE RouteHandler_Init(it[T \ {Max(T)}], Registered[Max(T)])
           fold == CHOOSE it : it = [T \in SUBSET (DOMAIN Registered) |-> Body(it, T)]
<1>1. FoldLeft(RouteHandler_Init, <<>>, Registered) = fold[DOMAIN Registered]
  BY DEF FoldLeft, MapThenFoldSet
<1>2. /\ Registered \in Seq(R) /\ n \in Nat /\ DOMAIN Registered = 1 .. n
      /\ MAX_ROUTES \in Nat /\ n <= MAX_ROUTES
      /\ \A i \in 1 .. n : Registered[i] \in R
  BY LenProperties, ElementOfSeq DEF URLAssumption
<1>3. \A table \in V : \A r \in R : RouteHandler_Init(table, r) \in V
  BY AppendProperties DEF RouteHandler_Init
<1> HIDE DEF R
<1>4. \E it : it = [T \in SUBSET (1 .. n) |-> Body(it, T)]
  <2>4. PICK m \in Nat : m = n
    BY <1>2
  <2>1. PICK g : g = [x \in (1 .. m) \X V |-> RouteHandler_Init(x[2], Registered[x[1]])]
    OBVIOUS
  <2>2. g \in [(1 .. m) \X V -> V]
    BY <1>2, <1>3, <2>1, <2>4
  <2>3. <<>> \in V
    BY EmptySeq
  <2> HIDE DEF V
  <2>5. PICK it \in [SUBSET (1 .. m) -> V] :
          \A T \in SUBSET (1 .. m) :
            it[T] = IF T = {} THEN <<>> ELSE g[<<Max(T), it[T \ {Max(T)}]>>]
    <3>1. PICK W : W = V
      OBVIOUS
    <3>2. PICK base \in W : base = <<>>
      BY <2>3, <3>1
    <3>3. g \in [(1 .. m) \X W -> W]
      BY <2>2, <3>1
    <3>4. \E it \in [SUBSET (1 .. m) -> W] : IsFold(it, m, base, g)
      BY <3>3, FoldExists
    <3> QED
      BY <3>1, <3>2, <3>4 DEF IsFold
  <2>6. ASSUME NEW T \in SUBSET (1 .. m), T # {}
        PROVE  g[<<Max(T), it[T \ {Max(T)}]>>]
                 = RouteHandler_Init(it[T \ {Max(T)}], Registered[Max(T)])
    <3>1. Max(T) \in 1 .. m
      BY <2>6, MaxIn
    <3>2. it[T \ {Max(T)}] \in V
      BY <2>5
    <3>3. <<Max(T), it[T \ {Max(T)}]>> \in (1 .. m) \X V
      BY <3>1, <3>2
    <3> QED
      BY <2>1, <3>3
  <2>7. \A T \in SUBSET (1 .. m) : it[T] = Body(it, T)
    BY <2>5, <2>6
  <2> HIDE DEF Body
  <2>8. it = [T \in SUBSET (1 .. m) |-> Body(it, T)]
    BY <2>5, <2>7
  <2> QED
    BY <2>4, <2>8
<1>5. fold = [T \in SUBSET (1 .. n) |-> Body(fold, T)]
  <2> HIDE DEF Body
  <2> QED
    BY <1>2, <1>4
<1> HIDE DEF fold
<1>6. \A T \in SUBSET (1 .. n) : fold[T] = Body(fold, T)
  <2> HIDE DEF Body
  <2> QED
    BY <1>5
<1>7. PICK m \in Nat : m = n
  BY <1>2
<1> DEFINE Up == {k \in Nat : k <= m => fold[1 .. k] = SubSeq(Registered, 1, k)}
<1>8. 0 \in Up
  <2>1. fold[1 .. 0] = <<>>
    BY <1>6, <1>7, Segments
  <2>2. SubSeq(Registered, 1, 0) = <<>>
    BY SubSeqEmpty
  <2> QED
    BY <2>1, <2>2
<1>9. ASSUME NEW k \in Nat, k \in Up
      PROVE  k + 1 \in Up
  <2>0. SUFFICES ASSUME k + 1 <= m
                 PROVE  fold[1 .. (k + 1)] = SubSeq(Registered, 1, k + 1)
    OBVIOUS
  <2>1. fold[1 .. k] = SubSeq(Registered, 1, k)
    BY <1>9, <2>0
  <2>2. fold[1 .. (k + 1)] = RouteHandler_Init(fold[1 .. k], Registered[k + 1])
    <3>1. 1 .. (k + 1) \in SUBSET (1 .. n) /\ 1 .. (k + 1) # {}
      BY <1>7, <2>0, Segments
    <3>2. Max(1 .. (k + 1)) = k + 1 /\ (1 .. (k + 1)) \ {k + 1} = 1 .. k
      BY Segments
    <3> QED
      BY <1>6, <3>1, <3>2
  <2>3. PICK t : t = SubSeq(Registered, 1, k)
    OBVIOUS
  <2>4. t \in Seq(R) /\ Len(t) = k /\ \A i \in 1 .. k : t[i] = Registered[i]
    <3>1. 1 \in Nat /\ 1 <= 1 /\ 1 <= k + 1 /\ k <= Len(Registered)
      BY <1>7, <2>0
    <3>2. k - 1 + 1 = k /\ \A i \in 1 .. k : 1 + i - 1 = i
      OBVIOUS
    <3> QED
      BY <1>2, <2>3, <3>1, <3>2, Part
  <2>5. RouteHandler_Init(t, Registered[k + 1]) = Append(t, Registered[k + 1])
    BY <1>2, <1>7, <2>0, <2>4 DEF RouteHandler_Init
  <2>6. Append(t, Registered[k + 1]) = SubSeq(Registered, 1, k + 1)
    <3>1. k + 1 \in 1 .. m /\ Registered[k + 1] \in R
      BY <1>2, <1>7, <2>0
    <3>2. PICK x : x = Append(t, Registered[k + 1])
      OBVIOUS
    <3>3. PICK y : y = SubSeq(Registered, 1, k + 1)
      OBVIOUS
    <3>4. /\ x \in Seq(R) /\ Len(x) = k + 1
          /\ \A i \in 1 .. k + 1 : x[i] = Registered[i]
      <4>1. /\ x \in Seq(R) /\ Len(x) = k + 1
            /\ \A i \in 1 .. k : x[i] = t[i]
            /\ x[k + 1] = Registered[k + 1]
        BY <2>4, <3>1, <3>2, AppendProperties
      <4> QED
        BY <2>4, <4>1
    <3>5. /\ y \in Seq(R) /\ Len(y) = k + 1
          /\ \A i \in 1 .. k + 1 : y[i] = Registered[i]
      <4>1. PICK j \in Nat : j = k + 1
        OBVIOUS
      <4>2. 1 \in Nat /\ 1 <= 1 /\ 1 <= j + 1 /\ j <= Len(Registered)
        BY <1>7, <2>0, <4>1
      <4>3. j - 1 + 1 = j /\ \A i \in 1 .. j : 1 + i - 1 = i
        OBVIOUS
      <4>4. /\ y \in Seq(R) /\ Len(y) = j
            /\ \A i \in 1 .. j : y[i] = Registered[i]
        BY <1>2, <3>3, <4>1, <4>2, <4>3, Part
      <4> QED
        BY <4>1, <4>4
    <3>6. x = y
      BY <3>4, <3>5, SeqEqual
    <3> QED
      BY <3>2, <3>3, <3>6
  <2> QED
    BY <2>1, <2>2, <2>3, <2>5, <2>6
<1> HIDE DEF Up
<1>10. m \in Up
  BY <1>8, <1>9, AllNumbers
<1>11. fold[1 .. m] = SubSeq(Registered, 1, m)
  BY <1>10 DEF Up
<1>12. SubSeq(Registered, 1, m) = Registered
  BY <1>2, <1>7, SubSeqFull
<1> QED
  BY <1>1, <1>2, <1>7, <1>11, <1>12

-----------------------------------------------------------------------------
(* The steps of URLHandler_Parse and of the handler's call keep UrlInv.     *)
LEMMA QueryIsText ==
  ASSUME URLAssumption, url \in Urls
  PROVE  url \in Seq(ToSet(url)) /\ Query \in Seq(ToSet(url))
<1>1. url \in Seq(ToSet(url))
  BY DEF URLAssumption
<1>2. PICK n \in Nat : n = Len(url)
  BY <1>1, LenProperties
<1>3. First("?", url) \in Nat /\ First("?", url) <= n
  BY <1>1, <1>2, FirstPlace
<1>4. PICK a \in Nat : a = First("?", url) + 1
  BY <1>3
<1>5. 1 <= a /\ a <= n + 1 /\ n <= Len(url)
  BY <1>2, <1>3, <1>4
<1>6. SubSeq(url, a, n) \in Seq(ToSet(url))
  BY <1>1, <1>5, Part
<1> QED
  BY <1>1, <1>2, <1>4, <1>6 DEF Query, After

LEMMA UrlInvInitially ==
  UrlInit => UrlInv
<1> SUFFICES ASSUME UrlInit
             PROVE  UrlInv
  OBVIOUS
<1>1. <<>> \in Seq([key : Seq(ToSet(url)), value : Seq(ToSet(url))]) /\ Len(<<>>) = 0
  BY EmptySeq
<1> QED
  BY <1>1 DEF UrlInit, UrlInv, UrlTypeOK

LEMMA RegisterRoutesKeeps ==
  ASSUME URLAssumption, UrlInv, RegisterRoutes
  PROVE  UrlInv'
<1>1. routes' = Registered
  BY RoutesRegistered DEF RegisterRoutes
<1> QED
  BY <1>1 DEF RegisterRoutes, UrlInv, UrlTypeOK

LEMMA ParseEndPointKeeps ==
  ASSUME URLAssumption, UrlInv, ParseEndPoint
  PROVE  UrlInv'
<1>1. /\ UrlTypeOK /\ Len(parameters) <= room
      /\ routes = Registered /\ parameters = <<>>
  BY DEF UrlInv, ParseEndPoint
<1>2. /\ url' = url /\ routes' = routes /\ parameters' = parameters /\ room' = room
      /\ end_point' = URLHandler_ParseEndPoint(url)
      /\ rest' = After("?", url)
      /\ handling' = IF end_point' = NULL THEN "failed" ELSE "parameters"
  BY DEF ParseEndPoint
<1>3. UrlTypeOK' /\ Query' = Query
  BY <1>1, <1>2 DEF UrlTypeOK, Query
<1>4. PICK q : q = Query
  OBVIOUS
<1>5. q \in Seq(ToSet(url)) /\ Len(q) \in Nat
  BY <1>1, <1>4, QueryIsText, LenProperties DEF UrlTypeOK
<1>6. rest' = SubSeq(q, 0 + 1, Len(q))
  BY <1>2, <1>4, <1>5, SubSeqFull DEF Query
<1>7. Taken(q, <<>>, 0)
  <2>1. /\ PairsBy(q, 0) = 0
        /\ \A p \in PairCuts(q) : p[2] \in Nat /\ 1 <= p[2]
    BY <1>5, PairsCounted
  <2>2. Len(<<>>) = 0
    BY EmptySeq
  <2>3. \A p \in PairCuts(q) : ~ (p[2] <= 0)
    BY <2>1
  <2> QED
    BY <1>5, <2>1, <2>2, <2>3 DEF Taken
<1>8. \E d \in Nat : rest' = SubSeq(Query', d + 1, Len(Query')) /\ Taken(Query', parameters', d)
  <2>1. rest' = SubSeq(Query', 0 + 1, Len(Query')) /\ Taken(Query', parameters', 0)
    BY <1>1, <1>2, <1>3, <1>4, <1>6, <1>7
  <2> QED
    BY <2>1
<1>9. /\ handling' \notin {"boot", "endPoint", "handler"}
      /\ handling' \in {"parameters", "handler"} =>
           end_point' = URLHandler_ParseEndPoint(url') /\ end_point' # NULL
  BY <1>2
<1> QED
  BY <1>1, <1>2, <1>3, <1>8, <1>9 DEF UrlInv

LEMMA SkipAmpersandKeeps ==
  ASSUME URLAssumption, UrlInv, SkipAmpersand
  PROVE  UrlInv'
<1>1. /\ UrlTypeOK /\ Len(parameters) <= room
      /\ routes = Registered
      /\ end_point = URLHandler_ParseEndPoint(url) /\ end_point # NULL
  BY DEF UrlInv, SkipAmpersand
<1>2. /\ handling = "parameters" /\ rest # <<>> /\ Head(rest) = "&" /\ rest' = Tail(rest)
      /\ url' = url /\ routes' = routes /\ parameters' = parameters /\ room' = room
      /\ end_point' = end_point /\ handling' = handling
  BY DEF SkipAmpersand
<1>3. UrlTypeOK' /\ Query' = Query
  BY <1>1, <1>2 DEF UrlTypeOK, Query
<1>4. PICK d \in Nat : /\ rest = SubSeq(Query, d + 1, Len(Query))
                       /\ Taken(Query, parameters, d)
  BY <1>2 DEF UrlInv
<1>5. PICK q : q = Query
  OBVIOUS
<1>6. PICK A : A = ToSet(url)
  OBVIOUS
<1>7. q \in Seq(A) /\ parameters \in Seq([key : Seq(A), value : Seq(A)])
  BY <1>1, <1>5, <1>6, QueryIsText DEF UrlTypeOK
<1>8. PICK pairs : pairs = parameters
  OBVIOUS
<1>9. PICK r : r = rest
  OBVIOUS
<1>10. /\ Tail(r) = SubSeq(q, (d + 1) + 1, Len(q))
       /\ Taken(q, pairs, d + 1)
  <2>1. pairs \in Seq([key : Seq(A), value : Seq(A)]) /\ Taken(q, pairs, d)
    BY <1>4, <1>5, <1>7, <1>8
  <2>2. r = SubSeq(q, d + 1, Len(q)) /\ r # <<>> /\ Head(r) = "&"
    BY <1>2, <1>4, <1>5, <1>9
  <2>3. PICK P : P = [key : Seq(A), value : Seq(A)]
    OBVIOUS
  <2>4. pairs \in Seq(P)
    BY <2>1, <2>3
  <2> QED
    BY <1>7, <2>1, <2>2, <2>4, AmpersandTaken
<1>11. \E k \in Nat : rest' = SubSeq(Query', k + 1, Len(Query')) /\ Taken(Query', parameters', k)
  <2>1. rest' = SubSeq(Query', (d + 1) + 1, Len(Query')) /\ Taken(Query', parameters', d + 1)
    BY <1>2, <1>3, <1>5, <1>8, <1>9, <1>10
  <2>2. d + 1 \in Nat
    OBVIOUS
  <2> QED
    BY <2>1, <2>2
<1> QED
  BY <1>1, <1>2, <1>3, <1>11 DEF UrlInv

(* The token at which strtok stands, and where it goes on.                  *)
LEMMA NextTokenIs ==
  ASSUME URLAssumption, UrlInv, NextToken
  PROVE  \E d2 \in Nat :
           /\ rest' = SubSeq(Query, d2 + 1, Len(Query))
           /\ QueryToken \in Seq(ToSet(url))
           /\ First("=", QueryToken) = 0 => Taken(Query, parameters, d2)
           /\ First("=", QueryToken) # 0 =>
                /\ Pair(QueryToken) \in [key : Seq(ToSet(url)), value : Seq(ToSet(url))]
                /\ Taken(Query, Append(parameters, Pair(QueryToken)), d2)
<1>1. /\ handling = "parameters" /\ rest # <<>> /\ Head(rest) # "&" /\ UrlTypeOK
      /\ rest' = After("&", IF First("&", rest) = 0 THEN Append(rest, "&") ELSE rest)
  BY DEF UrlInv, NextToken
<1>2. PICK d \in Nat : /\ rest = SubSeq(Query, d + 1, Len(Query))
                       /\ Taken(Query, parameters, d)
  BY <1>1 DEF UrlInv
<1>3. PICK q : q = Query
  OBVIOUS
<1>4. PICK A : A = ToSet(url)
  OBVIOUS
<1>5. PICK P : P = [key : Seq(A), value : Seq(A)]
  OBVIOUS
<1>6. PICK pairs : pairs = parameters
  OBVIOUS
<1>7. PICK r : r = rest
  OBVIOUS
<1>8. q \in Seq(A) /\ pairs \in Seq(P) /\ Taken(q, pairs, d)
  BY <1>1, <1>2, <1>3, <1>4, <1>5, <1>6, QueryIsText DEF UrlTypeOK
<1>9. d <= Len(q) /\ (d = 0 \/ d = Len(q) \/ q[d] = "&")
  BY <1>8 DEF Taken
<1>10. r = SubSeq(q, d + 1, Len(q)) /\ r # <<>> /\ Head(r) # "&"
  BY <1>1, <1>2, <1>3, <1>7
<1>a. PICK e \in Nat, d2 \in Nat : TokenTo(A, q, d, r, e, d2)
  BY <1>8, <1>9, <1>10, TokenAhead
<1>11.     /\ d + 1 <= e /\ e <= Len(q)
           /\ d = 0 \/ q[d] = "&"
           /\ \A i \in d + 1 .. e : q[i] # "&"
           /\ \/ e = Len(q) /\ d2 = e
              \/ e + 1 <= Len(q) /\ q[e + 1] = "&" /\ d2 = e + 1
           /\ Before("&", r) = SubSeq(q, d + 1, e)
           /\ Before("&", r) \in Seq(A)
           /\ After("&", IF First("&", r) = 0 THEN Append(r, "&") ELSE r)
                = SubSeq(q, d2 + 1, Len(q))
  BY <1>a DEF TokenTo
<1>12. PICK token : token = Before("&", r)
  OBVIOUS
<1>13. token \in Seq(A) /\ token = SubSeq(q, d + 1, e)
  BY <1>11, <1>12
<1>14. /\ First("=", token) = 0 => Taken(q, pairs, d2)
       /\ First("=", token) # 0 /\ Pair(token) \in P =>
            Taken(q, Append(pairs, Pair(token)), d2)
  BY <1>8, <1>11, <1>13, TokenTaken
<1>15. First("=", token) # 0 => Pair(token) \in P
  BY <1>5, <1>13, PairOfToken
<1>16. QueryToken = token
  BY <1>7, <1>12 DEF QueryToken
<1>17. rest' = SubSeq(q, d2 + 1, Len(q))
  BY <1>1, <1>7, <1>11
<1> QED
  BY <1>3, <1>4, <1>5, <1>6, <1>13, <1>14, <1>15, <1>16, <1>17

LEMMA SkipTokenKeeps ==
  ASSUME URLAssumption, UrlInv, SkipToken
  PROVE  UrlInv'
<1>1. /\ UrlTypeOK /\ Len(parameters) <= room
      /\ routes = Registered
      /\ end_point = URLHandler_ParseEndPoint(url) /\ end_point # NULL
  BY DEF UrlInv, SkipToken, NextToken
<1>2. /\ handling = "parameters" /\ NextToken /\ First("=", QueryToken) = 0
      /\ url' = url /\ routes' = routes /\ parameters' = parameters /\ room' = room
      /\ end_point' = end_point /\ handling' = handling
  BY DEF SkipToken, NextToken
<1>3. UrlTypeOK' /\ Query' = Query
  BY <1>1, <1>2 DEF UrlTypeOK, Query
<1>4. \E d2 \in Nat : /\ rest' = SubSeq(Query, d2 + 1, Len(Query))
                      /\ Taken(Query, parameters, d2)
  BY <1>2, NextTokenIs
<1>5. \E d \in Nat : rest' = SubSeq(Query', d + 1, Len(Query')) /\ Taken(Query', parameters', d)
  BY <1>2, <1>3, <1>4
<1> QED
  BY <1>1, <1>2, <1>3, <1>5 DEF UrlInv

LEMMA TakePairKeeps ==
  ASSUME URLAssumption, UrlInv, TakePair
  PROVE  UrlInv'
<1>1. /\ UrlTypeOK /\ Len(parameters) <= room
      /\ routes = Registered
      /\ end_point = URLHandler_ParseEndPoint(url) /\ end_point # NULL
  BY DEF UrlInv, TakePair, NextToken
<1>2. /\ handling = "parameters" /\ NextToken /\ First("=", QueryToken) # 0
      /\ room' = IF Full THEN 2 * room ELSE room
      /\ parameters' = Append(parameters, Pair(QueryToken))
      /\ url' = url /\ routes' = routes
      /\ end_point' = end_point /\ handling' = handling
  BY DEF TakePair, NextToken
<1>3. Query' = Query
  BY <1>2 DEF Query
<1>4. PICK d2 \in Nat :
        /\ rest' = SubSeq(Query, d2 + 1, Len(Query))
        /\ Pair(QueryToken) \in [key : Seq(ToSet(url)), value : Seq(ToSet(url))]
        /\ Taken(Query, Append(parameters, Pair(QueryToken)), d2)
  BY <1>2, NextTokenIs
<1>5. PICK P : P = [key : Seq(ToSet(url)), value : Seq(ToSet(url))]
  OBVIOUS
<1>6. parameters' \in Seq(P) /\ Len(parameters') = Len(parameters) + 1
      /\ Len(parameters) \in Nat
  <2>1. parameters \in Seq(P) /\ Pair(QueryToken) \in P
    BY <1>1, <1>4, <1>5 DEF UrlTypeOK
  <2> QED
    BY <1>2, <2>1, AppendProperties, LenProperties
<1>7. room' \in Nat /\ 1 <= room' /\ Len(parameters') <= room'
  <2>1. room \in Nat /\ 1 <= room
    BY <1>1 DEF UrlTypeOK
  <2>2. CASE Len(parameters) = room
    BY <1>2, <1>6, <2>1, <2>2 DEF Full
  <2>3. CASE Len(parameters) # room
    BY <1>1, <1>2, <1>6, <2>1, <2>3 DEF Full
  <2> QED
    BY <2>2, <2>3
<1>8. UrlTypeOK'
  BY <1>1, <1>2, <1>5, <1>6, <1>7 DEF UrlTypeOK
<1>9. \E d \in Nat : rest' = SubSeq(Query', d + 1, Len(Query')) /\ Taken(Query', parameters', d)
  BY <1>2, <1>3, <1>4
<1> QED
  BY <1>1, <1>2, <1>7, <1>8, <1>9 DEF UrlInv

LEMMA UrlInvInductive ==
  ASSUME URLAssumption, UrlInv, [UrlNext]_urlVars
  PROVE  UrlInv'
<1>1. CASE RegisterRoutes
  BY <1>1, RegisterRoutesKeeps
<1>2. CASE ParseEndPoint
  BY <1>2, ParseEndPointKeeps
<1>3. CASE SkipAmpersand
  BY <1>3, SkipAmpersandKeeps
<1>4. CASE SkipToken
  BY <1>4, SkipTokenKeeps
<1>5. CASE TakePair
  BY <1>5, TakePairKeeps
<1>6. CASE NoMemory
  <2>1. UrlTypeOK'
    BY <1>6 DEF NoMemory, UrlInv, UrlTypeOK
  <2>2. handling = "parameters"
    BY <1>6 DEF NoMemory, NextToken
  <2> QED
    BY <1>6, <2>1, <2>2 DEF NoMemory, UrlInv
<1>7. CASE FindRoute
  <2>1. UrlTypeOK' /\ Query' = Query
    BY <1>7 DEF FindRoute, UrlInv, UrlTypeOK, Query
  <2> QED
    BY <1>7, <2>1 DEF FindRoute, UrlInv
<1>8. CASE URLHandler_Dispose
  <2>1. <<>> \in Seq([key : Seq(ToSet(url)), value : Seq(ToSet(url))]) /\ Len(<<>>) = 0
    BY EmptySeq
  <2>2. UrlTypeOK'
    BY <1>8, <2>1 DEF URLHandler_Dispose, UrlInv, UrlTypeOK
  <2> QED
    BY <1>8, <2>1, <2>2 DEF URLHandler_Dispose, UrlInv
<1>9. CASE UNCHANGED urlVars
  <2>1. /\ url' = url /\ routes' = routes /\ handling' = handling /\ end_point' = end_point
        /\ rest' = rest /\ parameters' = parameters /\ room' = room /\ handler' = handler
    BY <1>9 DEF urlVars
  <2>2. UrlTypeOK' /\ Query' = Query
    BY <2>1 DEF UrlInv, UrlTypeOK, Query
  <2> QED
    BY <2>1, <2>2 DEF UrlInv
<1> QED
  BY <1>1, <1>2, <1>3, <1>4, <1>5, <1>6, <1>7, <1>8, <1>9 DEF UrlNext

(* The first route with the path is the one that is found.                  *)
LEMMA RouteFound ==
  ASSUME URLAssumption, NEW path
  PROVE  LET found == {r \in DOMAIN Registered : Registered[r].path = path}
         IN IF found = {} THEN RouteHandler_FindRoute(Registered, path) = NULL
            ELSE \E r \in found :
                   /\ \A k \in found : r <= k
                   /\ RouteHandler_FindRoute(Registered, path) = Registered[r].handler
<1> DEFINE found == {r \in DOMAIN Registered : Registered[r].path = path}
           I == {i \in 1 .. Len(Registered) : Registered[i].path = path}
           place == IF I # {} THEN Min(I) ELSE 0
<1>1. DOMAIN Registered = 1 .. Len(Registered) /\ Len(Registered) \in Nat
  BY LenProperties DEF URLAssumption
<1>2. found = I /\ I \subseteq Nat /\ \A i \in I : i # 0
  BY <1>1
<1>3. RouteHandler_FindRoute(Registered, path) =
        IF place = 0 THEN NULL ELSE Registered[place].handler
  BY DEF RouteHandler_FindRoute, SelectInSeq
<1> HIDE DEF found, I
<1>4. CASE I = {}
  BY <1>2, <1>3, <1>4 DEF found
<1>5. CASE I # {}
  <2>1. PICK r \in I : \A k \in I : r <= k
    BY <1>2, <1>5, LeastNumber
  <2>2. Min(I) = r
    BY <1>2, <2>1, MinOf
  <2>3. RouteHandler_FindRoute(Registered, path) = Registered[r].handler
    BY <1>2, <1>3, <1>5, <2>1, <2>2
  <2> QED
    BY <1>2, <1>5, <2>1, <2>3 DEF found
<1> QED
  BY <1>4, <1>5

LEMMA UrlInvMeans ==
  ASSUME URLAssumption, UrlInv, handling = "handler"
  PROVE  HandlerGetsWhatTheURLSays
<1> DEFINE i == First("v1/", url)
           start == After("v1/", url)
           f == First("?", start)
<1>1. /\ url \in Seq(ToSet(url)) /\ routes = Registered
      /\ end_point = URLHandler_ParseEndPoint(url) /\ end_point # NULL
      /\ rest = <<>> /\ handler = RouteHandler_FindRoute(Registered, end_point)
  BY QueryIsText DEF UrlInv, UrlTypeOK
<1>2. i # 0 /\ f # 0 /\ end_point = SubSeq(start, 1, f - 1)
  BY <1>1 DEF URLHandler_ParseEndPoint, Before
<1>3. PICK n \in Nat : n = Len(url)
  BY <1>1, LenProperties
<1>4. /\ i \in Nat /\ i <= n /\ url[i] = "v1/"
      /\ \A k \in 1 .. i - 1 : url[k] # "v1/"
  BY <1>1, <1>2, <1>3, FirstPlace
<1>5. start = SubSeq(url, i + 1, n)
  BY <1>3 DEF After
<1> HIDE DEF i, start
<1>6. /\ start \in Seq(ToSet(url)) /\ Len(start) = n - i
      /\ \A k \in 1 .. n - i : start[k] = url[i + k]
  <2>1. PICK a \in Nat : a = i + 1
    BY <1>4
  <2>2. 1 <= a /\ a <= n + 1 /\ n <= Len(url)
    BY <1>3, <1>4, <2>1
  <2>3. /\ SubSeq(url, a, n) \in Seq(ToSet(url))
        /\ Len(SubSeq(url, a, n)) = n - a + 1
        /\ \A k \in 1 .. n - a + 1 : SubSeq(url, a, n)[k] = url[a + k - 1]
    BY <1>1, <2>2, Part
  <2>4. n - a + 1 = n - i /\ \A k \in 1 .. n - i : a + k - 1 = i + k
    BY <1>4, <2>1
  <2> QED
    BY <1>5, <2>1, <2>3, <2>4
<1>7. /\ f \in Nat /\ f <= n - i /\ start[f] = "?"
      /\ \A k \in 1 .. f - 1 : start[k] # "?"
  BY <1>2, <1>6, FirstPlace
<1> HIDE DEF f
<1>8. PICK j \in Nat : j = i + f
  BY <1>4, <1>7
<1>9. /\ i \in 1 .. Len(url) /\ j \in 1 .. Len(url) /\ i < j
  BY <1>2, <1>3, <1>4, <1>7, <1>8
<1>10. url[j] = "?" /\ \A k \in i + 1 .. j - 1 : url[k] # "?"
  <2>1. f \in 1 .. n - i
    BY <1>2, <1>4, <1>7
  <2>2. ASSUME NEW k \in i + 1 .. j - 1
        PROVE  url[k] # "?"
    <3>1. k - i \in 1 .. f - 1 /\ k - i \in 1 .. n - i /\ i + (k - i) = k
      BY <1>4, <1>7, <1>8
    <3> QED
      BY <1>6, <1>7, <3>1
  <2> QED
    BY <1>6, <1>7, <1>8, <2>1, <2>2
<1>11. end_point = SubSeq(url, i + 1, j - 1)
  <2>1. PICK a \in Nat : a = i + 1
    BY <1>4
  <2>2. PICK g \in Nat : g = f - 1
    BY <1>2, <1>7
  <2>3. 1 <= a /\ a <= n + 1 /\ n <= Len(url) /\ 1 <= g + 1 /\ g <= n - a + 1
    BY <1>3, <1>4, <1>7, <2>1, <2>2
  <2>4. SubSeq(SubSeq(url, a, n), 1, g) = SubSeq(url, a + 1 - 1, a + g - 1)
    BY <1>1, <2>3, PartOfPart
  <2>5. a + 1 - 1 = i + 1 /\ a + g - 1 = j - 1
    BY <1>4, <1>7, <1>8, <2>1, <2>2
  <2> QED
    BY <1>2, <1>5, <2>1, <2>2, <2>4, <2>5
<1>12. LET found == {r \in DOMAIN Registered : Registered[r].path = end_point}
       IN IF found = {} THEN handler = NULL
          ELSE \E r \in found : /\ \A k \in found : r <= k
                                /\ handler = Registered[r].handler
  BY <1>1, RouteFound
<1>13. ASSUME \A k \in 1 .. i : url[k] # "?"
       PROVE  Query = SubSeq(url, j + 1, Len(url))
  <2>1. /\ First("?", url) \in Nat /\ First("?", url) <= n
        /\ First("?", url) = 0 => \A k \in 1 .. n : url[k] # "?"
        /\ First("?", url) # 0 => /\ url[First("?", url)] = "?"
                                  /\ \A k \in 1 .. First("?", url) - 1 : url[k] # "?"
    BY <1>1, <1>3, FirstPlace
  <2>2. PICK p : p = First("?", url)
    OBVIOUS
  <2>3. p # 0
    BY <1>3, <1>9, <1>10, <2>1, <2>2
  <2>4. p \in Nat /\ p <= n /\ url[p] = "?" /\ \A k \in 1 .. p - 1 : url[k] # "?"
    BY <2>1, <2>2, <2>3
  <2>5. ~ (p < j)
    <3>1. ~ (p \in 1 .. i)
      BY <1>13, <2>4
    <3>2. ~ (p \in i + 1 .. j - 1)
      BY <1>10, <2>4
    <3> QED
      BY <1>4, <1>8, <2>3, <2>4, <3>1, <3>2
  <2>6. ~ (j < p)
    <3>1. j < p => j \in 1 .. p - 1
      BY <1>9, <2>4
    <3> QED
      BY <1>10, <2>4, <3>1
  <2>7. p = j
    BY <2>4, <2>5, <2>6
  <2> QED
    BY <2>2, <2>7 DEF Query, After
<1>14. PICK q : q = Query
  OBVIOUS
<1>15. /\ Len(parameters) = Cardinality(PairCuts(q))
       /\ \A p \in PairCuts(q) :
            LET pair == parameters[PairsBy(q, p[2])]
            IN /\ pair.key \o <<"=">> \o pair.value = SubSeq(q, p[1], p[2])
               /\ "=" \notin ToSet(pair.key)
  <2>1. PICK d \in Nat : rest = SubSeq(q, d + 1, Len(q)) /\ Taken(q, parameters, d)
    BY <1>14 DEF UrlInv
  <2>2. q \in Seq(ToSet(url)) /\ Len(q) \in Nat
    BY <1>14, QueryIsText, LenProperties DEF UrlInv, UrlTypeOK
  <2>3. d = Len(q)
    <3>1. d <= Len(q)
      BY <2>1 DEF Taken
    <3>2. PICK a \in Nat : a = d + 1
      OBVIOUS
    <3>3. PICK m \in Nat : m = Len(q)
      BY <2>2
    <3>4. 1 <= a /\ a <= m + 1 /\ m <= Len(q)
      BY <3>1, <3>2, <3>3
    <3>5. Len(SubSeq(q, a, m)) = m - a + 1
      BY <2>2, <3>4, Part
    <3>6. SubSeq(q, a, m) = <<>>
      BY <1>1, <2>1, <3>2, <3>3
    <3>7. m - a + 1 = 0
      BY <3>5, <3>6, EmptySeq
    <3> QED
      BY <3>1, <3>2, <3>3, <3>7
  <2>4. /\ PairsBy(q, Len(q)) = Cardinality(PairCuts(q))
        /\ \A p \in PairCuts(q) : p[2] <= Len(q)
    BY <2>2, PairsCounted
  <2>5. \A p \in PairCuts(q) : PairIs(q, parameters, p)
    BY <2>1, <2>3, <2>4 DEF Taken
  <2>6. Len(parameters) = Cardinality(PairCuts(q))
    BY <2>1, <2>3, <2>4 DEF Taken
  <2> QED
    BY <2>5, <2>6 DEF PairIs
<1>16. (\A k \in 1 .. i : url[k] # "?") =>
         LET query == SubSeq(url, j + 1, Len(url))
         IN /\ Len(parameters) = Cardinality(PairCuts(query))
            /\ \A p \in PairCuts(query) :
                 LET pair == parameters[PairsBy(query, p[2])]
                 IN /\ pair.key \o <<"=">> \o pair.value = SubSeq(query, p[1], p[2])
                    /\ "=" \notin ToSet(pair.key)
  <2> SUFFICES ASSUME \A k \in 1 .. i : url[k] # "?"
               PROVE  LET query == SubSeq(url, j + 1, Len(url))
                      IN /\ Len(parameters) = Cardinality(PairCuts(query))
                         /\ \A p \in PairCuts(query) :
                              LET pair == parameters[PairsBy(query, p[2])]
                              IN /\ pair.key \o <<"=">> \o pair.value = SubSeq(query, p[1], p[2])
                                 /\ "=" \notin ToSet(pair.key)
    OBVIOUS
  <2>1. q = SubSeq(url, j + 1, Len(url))
    BY <1>13, <1>14
  <2> QED
    BY <1>15, <2>1
<1> QED
  BY <1>4, <1>9, <1>10, <1>11, <1>12, <1>16 DEF HandlerGetsWhatTheURLSays

(***************************************************************************)
(* URLHandler_Parse gives the handler the end point and the parameters that *)
(* the URL says, RouteHandler_FindRoute finds the first route of that end   *)
(* point, and the pairs never outgrow the array that holds them, for every  *)
(* table of routes that has room and URLs of any length.                    *)
(***************************************************************************)
THEOREM URLsUnderstood ==
  ASSUME URLAssumption
  PROVE  UrlSpec => []UrlIsUnderstood
<1>1. UrlInit => UrlInv
  BY UrlInvInitially
<1>2. UrlInv /\ [UrlNext]_urlVars => UrlInv'
  BY UrlInvInductive
<1>3. UrlInv => UrlIsUnderstood
  <2>1. UrlInv /\ handling # "handler" => HandlerGetsWhatTheURLSays
    BY DEF HandlerGetsWhatTheURLSays
  <2>2. UrlInv => HandlerGetsWhatTheURLSays
    BY <2>1, UrlInvMeans
  <2> QED
    BY <2>2 DEF UrlIsUnderstood, UrlInv, PairsHaveRoom
<1> QED
  BY <1>1, <1>2, <1>3, PTL DEF UrlSpec

-----------------------------------------------------------------------------
(***************************************************************************)
(* What upstream sends.  The steps of the two loops over it.                *)
(***************************************************************************)
CopyOneMember(o, m, wanted) ==
  IF m.key \in wanted /\ Scalar(m) THEN json_object_set_new(o, m) ELSE o

CopyRun(h, to, from, wanted) ==
  /\ h[0] = to /\ h[Len(from)] = CopyMembers(to, from, wanted)
  /\ \A k \in Nat : k + 1 <= Len(from) =>
       h[k + 1] = CopyOneMember(h[k], from[k + 1], wanted)

MeteoRun(h, base, current, params) ==
  /\ h[0] = base /\ h[Len(params)] = Meteo_ParseResponse(current, params)
  /\ \A k \in Nat : k + 1 <= Len(params) =>
       h[k + 1] = CopyMembers(h[k], current, {params[k + 1]})

LEMMA SetNewType ==
  ASSUME NEW M, NEW o \in Seq(M), NEW m \in M
  PROVE  json_object_set_new(o, m) \in Seq(M)
<1>1. PICK n \in Nat : n = Len(o) /\ DOMAIN o = 1 .. n
  BY LenProperties
<1>2. \A i \in 1 .. n : o[i] \in M
  BY <1>1, ElementOfSeq
<1>3. [i \in DOMAIN o |-> IF o[i].key = m.key THEN m ELSE o[i]] \in [1 .. n -> M]
  BY <1>1, <1>2
<1>4. [i \in DOMAIN o |-> IF o[i].key = m.key THEN m ELSE o[i]] \in Seq(M)
  BY <1>3
<1> QED
  BY <1>4, AppendProperties DEF json_object_set_new

(* json_object_foreach, member by member.                                   *)
LEMMA CopySteps ==
  ASSUME NEW M, NEW from \in Seq(M), NEW to \in Seq(M), NEW wanted
  PROVE  \E h : CopyRun(h, to, from, wanted)
<1> DEFINE V == Seq(M)
           Body(it, T) == IF T = {} THEN to
                          ELSE CopyOneMember(it[T \ {Max(T)}], from[Max(T)], wanted)
           fold == CHOOSE it : it = [T \in SUBSET (DOMAIN from) |-> Body(it, T)]
<1>1. CopyMembers(to, from, wanted) = fold[DOMAIN from]
  BY DEF CopyMembers, FoldLeft, MapThenFoldSet, CopyOneMember
<1>2. PICK n \in Nat : n = Len(from) /\ DOMAIN from = 1 .. n
  BY LenProperties
<1>3. \A o \in V : \A i \in 1 .. n : CopyOneMember(o, from[i], wanted) \in V
  BY <1>2, SetNewType, ElementOfSeq DEF CopyOneMember
<1>4. \E it : it = [T \in SUBSET (1 .. n) |-> Body(it, T)]
  <2>1. PICK g : g = [x \in (1 .. n) \X V |-> CopyOneMember(x[2], from[x[1]], wanted)]
    OBVIOUS
  <2>2. g \in [(1 .. n) \X V -> V]
    BY <1>3, <2>1
  <2>3. to \in V
    OBVIOUS
  <2> HIDE DEF V
  <2>4. PICK it \in [SUBSET (1 .. n) -> V] :
          \A T \in SUBSET (1 .. n) :
            it[T] = IF T = {} THEN to ELSE g[<<Max(T), it[T \ {Max(T)}]>>]
    <3>1. PICK W : W = V
      OBVIOUS
    <3>2. PICK base \in W : base = to
      BY <2>3, <3>1
    <3>3. g \in [(1 .. n) \X W -> W]
      BY <2>2, <3>1
    <3>4. \E it \in [SUBSET (1 .. n) -> W] : IsFold(it, n, base, g)
      BY <3>3, FoldExists
    <3> QED
      BY <3>1, <3>2, <3>4 DEF IsFold
  <2>5. ASSUME NEW T \in SUBSET (1 .. n), T # {}
        PROVE  g[<<Max(T), it[T \ {Max(T)}]>>]
                 = CopyOneMember(it[T \ {Max(T)}], from[Max(T)], wanted)
    <3>1. Max(T) \in 1 .. n
      BY <2>5, MaxIn
    <3>2. it[T \ {Max(T)}] \in V
      BY <2>4
    <3>3. <<Max(T), it[T \ {Max(T)}]>> \in (1 .. n) \X V
      BY <3>1, <3>2
    <3> QED
      BY <2>1, <3>3
  <2>6. \A T \in SUBSET (1 .. n) : it[T] = Body(it, T)
    BY <2>4, <2>5
  <2> HIDE DEF Body
  <2>7. it = [T \in SUBSET (1 .. n) |-> Body(it, T)]
    BY <2>4, <2>6
  <2> QED
    BY <2>7
<1>5. fold = [T \in SUBSET (1 .. n) |-> Body(fold, T)]
  <2> HIDE DEF Body
  <2> QED
    BY <1>2, <1>4
<1> HIDE DEF fold
<1>6. \A T \in SUBSET (1 .. n) : fold[T] = Body(fold, T)
  <2> HIDE DEF Body
  <2> QED
    BY <1>5
<1>7. PICK h : h = [k \in Nat |-> fold[1 .. k]]
  OBVIOUS
<1>8. h[0] = to
  BY <1>6, <1>7, Segments
<1>9. ASSUME NEW k \in Nat, k + 1 <= n
      PROVE  h[k + 1] = CopyOneMember(h[k], from[k + 1], wanted)
  <2>1. 1 .. (k + 1) \in SUBSET (1 .. n) /\ 1 .. (k + 1) # {}
    <3>1. 1 .. (k + 1) \in SUBSET (1 .. n)
      BY <1>9
    <3>2. 1 \in 1 .. (k + 1)
      OBVIOUS
    <3> QED
      BY <3>1, <3>2
  <2>2. Max(1 .. (k + 1)) = k + 1 /\ (1 .. (k + 1)) \ {k + 1} = 1 .. k
    BY Segments
  <2>3. fold[1 .. (k + 1)] = CopyOneMember(fold[1 .. k], from[k + 1], wanted)
    BY <1>6, <2>1, <2>2
  <2> QED
    BY <1>7, <2>3
<1>10. h[Len(from)] = CopyMembers(to, from, wanted)
  BY <1>1, <1>2, <1>7
<1> QED
  BY <1>2, <1>8, <1>9, <1>10 DEF CopyRun

LEMMA CopyType ==
  ASSUME NEW M, NEW from \in Seq(M), NEW to \in Seq(M), NEW wanted
  PROVE  CopyMembers(to, from, wanted) \in Seq(M)
<1>0. PICK h : CopyRun(h, to, from, wanted)
  BY CopySteps
<1>1. /\ h[0] = to /\ h[Len(from)] = CopyMembers(to, from, wanted)
      /\ \A k \in Nat : k + 1 <= Len(from) =>
           h[k + 1] = CopyOneMember(h[k], from[k + 1], wanted)
  BY <1>0 DEF CopyRun
<1>2. PICK n \in Nat : n = Len(from)
  BY LenProperties
<1> DEFINE Up == {k \in Nat : k <= n => h[k] \in Seq(M)}
<1>3. 0 \in Up
  BY <1>1
<1>4. ASSUME NEW k \in Nat, k \in Up
      PROVE  k + 1 \in Up
  <2>1. SUFFICES ASSUME k + 1 <= n
                 PROVE  h[k + 1] \in Seq(M)
    OBVIOUS
  <2>2. h[k] \in Seq(M)
    BY <1>4, <2>1
  <2>3. from[k + 1] \in M
    BY <1>2, <2>1, ElementOfSeq
  <2>4. h[k + 1] = CopyOneMember(h[k], from[k + 1], wanted)
    BY <1>1, <1>2, <2>1
  <2> QED
    BY <2>2, <2>3, <2>4, SetNewType DEF CopyOneMember
<1> HIDE DEF Up
<1>5. n \in Up
  BY <1>3, <1>4, AllNumbers
<1> QED
  BY <1>1, <1>2, <1>5 DEF Up

(* The loop of Meteo_ParseResponse, parameter by parameter.                 *)
LEMMA ParameterSteps ==
  ASSUME NEW M, NEW current \in Seq(M), NEW base \in Seq(M), NEW K, NEW params \in Seq(K),
         base = IF Len(params) = 2 THEN CopyMembers(<<>>, current, KeysOf(current)) ELSE <<>>
  PROVE  \E h : MeteoRun(h, base, current, params)
<1> DEFINE V == Seq(M)
           Body(it, T) == IF T = {} THEN base
                          ELSE CopyMembers(it[T \ {Max(T)}], current, {params[Max(T)]})
           fold == CHOOSE it : it = [T \in SUBSET (DOMAIN params) |-> Body(it, T)]
<1>1. Meteo_ParseResponse(current, params) = fold[DOMAIN params]
  BY DEF Meteo_ParseResponse, FoldLeft, MapThenFoldSet
<1>2. PICK n \in Nat : n = Len(params) /\ DOMAIN params = 1 .. n
  BY LenProperties
<1>3. \A o \in V : \A i \in 1 .. n : CopyMembers(o, current, {params[i]}) \in V
  BY CopyType
<1>4. \E it : it = [T \in SUBSET (1 .. n) |-> Body(it, T)]
  <2>1. PICK g : g = [x \in (1 .. n) \X V |-> CopyMembers(x[2], current, {params[x[1]]})]
    OBVIOUS
  <2>2. g \in [(1 .. n) \X V -> V]
    BY <1>3, <2>1
  <2>3. base \in V
    OBVIOUS
  <2> HIDE DEF V
  <2>4. PICK it \in [SUBSET (1 .. n) -> V] :
          \A T \in SUBSET (1 .. n) :
            it[T] = IF T = {} THEN base ELSE g[<<Max(T), it[T \ {Max(T)}]>>]
    <3>1. PICK W : W = V
      OBVIOUS
    <3>2. PICK first \in W : first = base
      BY <2>3, <3>1
    <3>3. g \in [(1 .. n) \X W -> W]
      BY <2>2, <3>1
    <3>4. \E it \in [SUBSET (1 .. n) -> W] : IsFold(it, n, first, g)
      BY <3>3, FoldExists
    <3> QED
      BY <3>1, <3>2, <3>4 DEF IsFold
  <2>5. ASSUME NEW T \in SUBSET (1 .. n), T # {}
        PROVE  g[<<Max(T), it[T \ {Max(T)}]>>]
                 = CopyMembers(it[T \ {Max(T)}], current, {params[Max(T)]})
    <3>1. Max(T) \in 1 .. n
      BY <2>5, MaxIn
    <3>2. it[T \ {Max(T)}] \in V
      BY <2>4
    <3>3. <<Max(T), it[T \ {Max(T)}]>> \in (1 .. n) \X V
      BY <3>1, <3>2
    <3> QED
      BY <2>1, <3>3
  <2>6. \A T \in SUBSET (1 .. n) : it[T] = Body(it, T)
    BY <2>4, <2>5
  <2> HIDE DEF Body
  <2>7. it = [T \in SUBSET (1 .. n) |-> Body(it, T)]
    BY <2>4, <2>6
  <2> QED
    BY <2>7
<1>5. fold = [T \in SUBSET (1 .. n) |-> Body(fold, T)]
  <2> HIDE DEF Body
  <2> QED
    BY <1>2, <1>4
<1> HIDE DEF fold
<1>6. \A T \in SUBSET (1 .. n) : fold[T] = Body(fold, T)
  <2> HIDE DEF Body
  <2> QED
    BY <1>5
<1>7. PICK h : h = [k \in Nat |-> fold[1 .. k]]
  OBVIOUS
<1>8. h[0] = base
  BY <1>6, <1>7, Segments
<1>9. ASSUME NEW k \in Nat, k + 1 <= n
      PROVE  h[k + 1] = CopyMembers(h[k], current, {params[k + 1]})
  <2>1. 1 .. (k + 1) \in SUBSET (1 .. n) /\ 1 .. (k + 1) # {}
    <3>1. 1 .. (k + 1) \in SUBSET (1 .. n)
      BY <1>9
    <3>2. 1 \in 1 .. (k + 1)
      OBVIOUS
    <3> QED
      BY <3>1, <3>2
  <2>2. Max(1 .. (k + 1)) = k + 1 /\ (1 .. (k + 1)) \ {k + 1} = 1 .. k
    BY Segments
  <2>3. fold[1 .. (k + 1)] = CopyMembers(fold[1 .. k], current, {params[k + 1]})
    BY <1>6, <2>1, <2>2
  <2> QED
    BY <1>7, <2>3
<1>10. h[Len(params)] = Meteo_ParseResponse(current, params)
  BY <1>1, <1>2, <1>7
<1> QED
  BY <1>2, <1>8, <1>9, <1>10 DEF MeteoRun

(* A member is found at its place, since no other has its key.              *)
LEMMA PlaceOf ==
  ASSUME NEW M, NEW from \in Seq(M),
         \A i, j \in DOMAIN from : from[i].key = from[j].key => i = j,
         NEW p \in DOMAIN from
  PROVE  Place(from, from[p].key) = p
<1> DEFINE c == CHOOSE i \in DOMAIN from : from[i].key = from[p].key
<1>1. c \in DOMAIN from /\ from[c].key = from[p].key
  OBVIOUS
<1> HIDE DEF c
<1>2. c = p
  BY <1>1
<1> QED
  BY <1>2 DEF Place, c

(* What the copy of the wanted members of an object has, and in which order.*)
InOrder(M, o, from, wanted) ==
  /\ o \in Seq(M)
  /\ \A i \in 1 .. Len(o) : \E p \in 1 .. Len(from) :
       o[i] = from[p] /\ from[p].key \in wanted /\ Scalar(from[p])
  /\ \A p \in 1 .. Len(from) : from[p].key \in wanted /\ Scalar(from[p]) =>
       \E i \in 1 .. Len(o) : o[i] = from[p]
  /\ \A i, j \in 1 .. Len(o) :
       i < j => Place(from, o[i].key) < Place(from, o[j].key)

LEMMA CopiesInOrder ==
  ASSUME NEW M, NEW from \in Seq(M),
         \A i, j \in DOMAIN from : from[i].key = from[j].key => i = j,
         NEW wanted
  PROVE  InOrder(M, CopyMembers(<<>>, from, wanted), from, wanted)
<1> DEFINE Good(p) == from[p].key \in wanted /\ Scalar(from[p])
           Copied(o, k) ==
             /\ o \in Seq(M)
             /\ \A i \in 1 .. Len(o) : \E p \in 1 .. k : o[i] = from[p] /\ Good(p)
             /\ \A p \in 1 .. k : Good(p) => \E i \in 1 .. Len(o) : o[i] = from[p]
             /\ \A i, j \in 1 .. Len(o) :
                  i < j => Place(from, o[i].key) < Place(from, o[j].key)
<1>0. <<>> \in Seq(M)
  BY EmptySeq
<1>a. PICK h : CopyRun(h, <<>>, from, wanted)
  <2>1. PICK to \in Seq(M) : to = <<>>
    BY <1>0
  <2> QED
    BY <2>1, CopySteps
<1>1. /\ h[0] = <<>> /\ h[Len(from)] = CopyMembers(<<>>, from, wanted)
      /\ \A k \in Nat : k + 1 <= Len(from) =>
           h[k + 1] = CopyOneMember(h[k], from[k + 1], wanted)
  BY <1>a DEF CopyRun
<1>2. PICK n \in Nat : n = Len(from) /\ DOMAIN from = 1 .. n
  BY LenProperties
<1>3. \A p \in 1 .. n : Place(from, from[p].key) = p /\ from[p] \in M
  BY <1>2, PlaceOf, ElementOfSeq
<1> DEFINE Up == {k \in Nat : k <= n => Copied(h[k], k)}
<1>4. Copied(h[0], 0)
  <2>1. h[0] = <<>> /\ h[0] \in Seq(M) /\ Len(h[0]) = 0
    BY <1>0, <1>1, EmptySeq
  <2>2. \A p : ~ (p \in 1 .. 0)
    OBVIOUS
  <2> QED
    BY <2>1, <2>2
<1>5. ASSUME NEW k \in Nat, k + 1 <= n, Copied(h[k], k)
      PROVE  Copied(h[k + 1], k + 1)
  <2>1. PICK o : o = h[k]
    OBVIOUS
  <2>2. PICK new : new = h[k + 1]
    OBVIOUS
  <2>3. PICK m : m = from[k + 1]
    OBVIOUS
  <2>4. k + 1 \in 1 .. n /\ m \in M
    BY <1>3, <1>5, <2>3
  <2>5. new = CopyOneMember(o, m, wanted)
    BY <1>1, <1>2, <1>5, <2>1, <2>2, <2>3
  <2>6. /\ o \in Seq(M)
        /\ \A i \in 1 .. Len(o) : \E p \in 1 .. k : o[i] = from[p] /\ Good(p)
        /\ \A p \in 1 .. k : Good(p) => \E i \in 1 .. Len(o) : o[i] = from[p]
        /\ \A i, j \in 1 .. Len(o) :
             i < j => Place(from, o[i].key) < Place(from, o[j].key)
    BY <1>5, <2>1
  <2>7. PICK l \in Nat : l = Len(o) /\ DOMAIN o = 1 .. l
    BY <2>6, LenProperties
  <2>8. \A p \in 1 .. k + 1 : p \in 1 .. k \/ p = k + 1
    OBVIOUS
  <2>9. \A p \in 1 .. k : p \in 1 .. k + 1 /\ p \in 1 .. n
    BY <1>5
  <2>10. CASE ~ Good(k + 1)
    <3>1. new = o
      BY <2>3, <2>5, <2>10 DEF CopyOneMember
    <3> HIDE DEF Good
    <3>2. \A i \in 1 .. Len(new) : \E p \in 1 .. k + 1 : new[i] = from[p] /\ Good(p)
      BY <2>6, <2>9, <3>1
    <3>3. \A p \in 1 .. k + 1 : Good(p) => \E i \in 1 .. Len(new) : new[i] = from[p]
      BY <2>6, <2>8, <2>10, <3>1
    <3> QED
      BY <2>2, <2>6, <3>1, <3>2, <3>3
  <2>11. CASE Good(k + 1)
    <3>1. m.key \notin KeysOf(o)
      <4> SUFFICES ASSUME NEW i \in 1 .. l, o[i].key = m.key
                   PROVE  FALSE
        BY <2>7 DEF KeysOf
      <4>1. PICK p \in 1 .. k : o[i] = from[p]
        BY <2>6, <2>7
      <4>2. from[p].key = from[k + 1].key
        BY <2>3, <4>1
      <4>3. p = k + 1
        BY <1>2, <2>4, <2>9, <4>2
      <4> QED
        BY <4>3
    <3>2. new = Append(o, m)
      BY <2>3, <2>5, <2>11, <3>1 DEF CopyOneMember, json_object_set_new
    <3>3. /\ new \in Seq(M) /\ Len(new) = l + 1
          /\ \A i \in 1 .. l : new[i] = o[i]
          /\ new[l + 1] = m
      BY <2>4, <2>6, <2>7, <3>2, AppendProperties
    <3>4. \A i \in 1 .. l + 1 : i \in 1 .. l \/ i = l + 1
      OBVIOUS
    <3>5. \A i \in 1 .. l : i \in 1 .. l + 1
      OBVIOUS
    <3>6. l + 1 \in 1 .. l + 1
      OBVIOUS
    <3> HIDE DEF Good
    <3>7. \A i \in 1 .. Len(new) : \E p \in 1 .. k + 1 : new[i] = from[p] /\ Good(p)
      <4> SUFFICES ASSUME NEW i \in 1 .. l + 1
                   PROVE  \E p \in 1 .. k + 1 : new[i] = from[p] /\ Good(p)
        BY <3>3
      <4>1. CASE i \in 1 .. l
        BY <2>6, <2>7, <2>9, <3>3, <4>1
      <4>2. CASE i = l + 1
        <5>1. k + 1 \in 1 .. k + 1
          OBVIOUS
        <5> QED
          BY <2>3, <2>11, <3>3, <4>2, <5>1
      <4> QED
        BY <3>4, <4>1, <4>2
    <3>8. \A p \in 1 .. k + 1 : Good(p) => \E i \in 1 .. Len(new) : new[i] = from[p]
      <4> SUFFICES ASSUME NEW p \in 1 .. k + 1, Good(p)
                   PROVE  \E i \in 1 .. l + 1 : new[i] = from[p]
        BY <3>3
      <4>1. CASE p \in 1 .. k
        <5>1. PICK i \in 1 .. l : o[i] = from[p]
          BY <2>6, <2>7, <4>1
        <5> QED
          BY <3>3, <3>5, <5>1
      <4>2. CASE p = k + 1
        BY <2>3, <3>3, <3>6, <4>2
      <4> QED
        BY <2>8, <4>1, <4>2
    <3>9. \A i, j \in 1 .. Len(new) :
            i < j => Place(from, new[i].key) < Place(from, new[j].key)
      <4> SUFFICES ASSUME NEW i \in 1 .. l + 1, NEW j \in 1 .. l + 1, i < j
                   PROVE  Place(from, new[i].key) < Place(from, new[j].key)
        BY <3>3
      <4>1. i \in 1 .. l
        OBVIOUS
      <4>2. CASE j \in 1 .. l
        BY <2>6, <2>7, <3>3, <4>1, <4>2
      <4>3. CASE j = l + 1
        <5>1. PICK p \in 1 .. k : o[i] = from[p]
          BY <2>6, <2>7, <4>1
        <5>2. Place(from, new[i].key) = p
          BY <1>3, <2>9, <3>3, <4>1, <5>1
        <5>3. Place(from, new[j].key) = k + 1
          BY <1>3, <2>3, <2>4, <3>3, <4>3
        <5> QED
          BY <5>2, <5>3
      <4> QED
        BY <3>4, <4>2, <4>3
    <3> QED
      BY <2>2, <3>3, <3>7, <3>8, <3>9
  <2> QED
    BY <2>10, <2>11
<1> HIDE DEF Copied
<1>6. 0 \in Up
  BY <1>4
<1>7. ASSUME NEW k \in Nat, k \in Up
      PROVE  k + 1 \in Up
  <2>1. k + 1 <= n => Copied(h[k], k)
    BY <1>7
  <2> QED
    BY <1>5, <2>1
<1> HIDE DEF Up
<1>8. n \in Up
  BY <1>6, <1>7, AllNumbers
<1>9. Copied(h[n], n)
  BY <1>8 DEF Up
<1>10. PICK o : o = h[n]
  OBVIOUS
<1>11. /\ o \in Seq(M)
       /\ \A i \in 1 .. Len(o) : \E p \in 1 .. n : o[i] = from[p] /\ Good(p)
       /\ \A p \in 1 .. n : Good(p) => \E i \in 1 .. Len(o) : o[i] = from[p]
       /\ \A i, j \in 1 .. Len(o) :
            i < j => Place(from, o[i].key) < Place(from, o[j].key)
  BY <1>9, <1>10 DEF Copied
<1>12. o = CopyMembers(<<>>, from, wanted)
  BY <1>1, <1>2, <1>10
<1>13. InOrder(M, o, from, wanted)
  BY <1>2, <1>11 DEF InOrder
<1> QED
  BY <1>12, <1>13

(* Copying the member with one key.                                         *)
HasCopied(new, o, from, c) ==
  /\ \A p \in 1 .. Len(from) : from[p].key = c /\ Scalar(from[p]) =>
       new = json_object_set_new(o, from[p])
  /\ (\A p \in 1 .. Len(from) : ~ (from[p].key = c /\ Scalar(from[p]))) => new = o

LEMMA CopiesOne ==
  ASSUME NEW M, NEW from \in Seq(M),
         \A i, j \in DOMAIN from : from[i].key = from[j].key => i = j,
         NEW o \in Seq(M), NEW c
  PROVE  HasCopied(CopyMembers(o, from, {c}), o, from, c)
<1>0. PICK h : CopyRun(h, o, from, {c})
  <2>1. PICK wanted : wanted = {c}
    OBVIOUS
  <2> QED
    BY <2>1, CopySteps
<1>1. /\ h[0] = o /\ h[Len(from)] = CopyMembers(o, from, {c})
      /\ \A k \in Nat : k + 1 <= Len(from) =>
           h[k + 1] = CopyOneMember(h[k], from[k + 1], {c})
  BY <1>0 DEF CopyRun
<1>2. PICK n \in Nat : n = Len(from) /\ DOMAIN from = 1 .. n
  BY LenProperties
<1>3. ASSUME NEW p \in 1 .. n, from[p].key = c, Scalar(from[p])
      PROVE  CopyMembers(o, from, {c}) = json_object_set_new(o, from[p])
  <2> DEFINE Up == {k \in Nat : k <= n =>
                      h[k] = IF p <= k THEN json_object_set_new(o, from[p]) ELSE o}
  <2>1. 0 \in Up
    BY <1>1
  <2>2. ASSUME NEW k \in Nat, k \in Up
        PROVE  k + 1 \in Up
    <3>1. SUFFICES ASSUME k + 1 <= n
                   PROVE  h[k + 1] = IF p <= k + 1 THEN json_object_set_new(o, from[p]) ELSE o
      OBVIOUS
    <3>2. h[k] = IF p <= k THEN json_object_set_new(o, from[p]) ELSE o
      BY <2>2, <3>1
    <3>3. h[k + 1] = CopyOneMember(h[k], from[k + 1], {c})
      BY <1>1, <1>2, <3>1
    <3>4. k + 1 \in 1 .. n
      BY <3>1
    <3>5. CASE k + 1 = p
      BY <1>3, <3>2, <3>3, <3>5 DEF CopyOneMember
    <3>6. CASE k + 1 # p
      <4>1. from[k + 1].key # c
        BY <1>2, <1>3, <3>4, <3>6
      <4>2. h[k + 1] = h[k]
        BY <3>3, <4>1 DEF CopyOneMember
      <4>3. p <= k + 1 <=> p <= k
        BY <3>6
      <4> QED
        BY <3>2, <4>2, <4>3
    <3> QED
      BY <3>5, <3>6
  <2> HIDE DEF Up
  <2>3. n \in Up
    BY <2>1, <2>2, AllNumbers
  <2> QED
    BY <1>1, <1>2, <2>3 DEF Up
<1>4. ASSUME \A p \in 1 .. n : ~ (from[p].key = c /\ Scalar(from[p]))
      PROVE  CopyMembers(o, from, {c}) = o
  <2> DEFINE Up == {k \in Nat : k <= n => h[k] = o}
  <2>1. 0 \in Up
    BY <1>1
  <2>2. ASSUME NEW k \in Nat, k \in Up
        PROVE  k + 1 \in Up
    <3>1. SUFFICES ASSUME k + 1 <= n
                   PROVE  h[k + 1] = o
      OBVIOUS
    <3>2. h[k] = o
      BY <2>2, <3>1
    <3>3. h[k + 1] = CopyOneMember(h[k], from[k + 1], {c})
      BY <1>1, <1>2, <3>1
    <3>4. k + 1 \in 1 .. n
      BY <3>1
    <3> QED
      BY <1>4, <3>2, <3>3, <3>4 DEF CopyOneMember
  <2> HIDE DEF Up
  <2>3. n \in Up
    BY <2>1, <2>2, AllNumbers
  <2> QED
    BY <1>1, <1>2, <2>3 DEF Up
<1>5. PICK new : new = CopyMembers(o, from, {c})
  OBVIOUS
<1>6. HasCopied(new, o, from, c)
  BY <1>2, <1>3, <1>4, <1>5 DEF HasCopied
<1> QED
  BY <1>5, <1>6

(* The invariant: an answer is what the loops make of what upstream sent.   *)
AnswerInv ==
  /\ parsing = "weather" =>
       /\ body \in Currents /\ keys \in Requests
       /\ {"lat", "lon"} \subseteq ToSet(keys)
       /\ answer = Meteo_ParseResponse(body, keys)
  /\ parsing = "geo" => body \in Results /\ answer = GEO_ParseResponse(body)

(* The two parameters that every request has, and a third one if it has     *)
(* more than two.                                                           *)
LEMMA ThirdParameter ==
  ASSUME NEW K, NEW params \in Seq(K), {"lat", "lon"} \subseteq ToSet(params),
         IsInjective(params)
  PROVE  Len(params) = 2 <=> ToSet(params) \ {"lat", "lon"} = {}
<1>1. PICK n \in Nat : n = Len(params) /\ DOMAIN params = 1 .. n
  BY LenProperties
<1>2. PICK p \in 1 .. n : params[p] = "lat"
  BY <1>1 DEF ToSet
<1>3. PICK q \in 1 .. n : params[q] = "lon"
  BY <1>1 DEF ToSet
<1>4. p # q
  BY <1>2, <1>3
<1>5. \A r \in 1 .. n : params[r] \in {"lat", "lon"} => r \in {p, q}
  BY <1>1, <1>2, <1>3 DEF IsInjective
<1>6. ASSUME n = 2
      PROVE  ToSet(params) \ {"lat", "lon"} = {}
  <2>1. \A r \in 1 .. n : r = p \/ r = q
    BY <1>4, <1>6
  <2> QED
    BY <1>1, <1>2, <1>3, <2>1 DEF ToSet
<1>7. ASSUME ToSet(params) \ {"lat", "lon"} = {}
      PROVE  n = 2
  <2>1. \A r \in 1 .. n : params[r] \in {"lat", "lon"}
    BY <1>1, <1>7 DEF ToSet
  <2>2. \A r \in 1 .. n : r = p \/ r = q
    BY <1>5, <2>1
  <2>3. n >= 2
    BY <1>4
  <2>4. ~ (n >= 3)
    <3> SUFFICES ASSUME n >= 3
                 PROVE  FALSE
      OBVIOUS
    <3>1. 1 \in 1 .. n /\ 2 \in 1 .. n /\ 3 \in 1 .. n
      OBVIOUS
    <3>2. (1 = p \/ 1 = q) /\ (2 = p \/ 2 = q) /\ (3 = p \/ 3 = q)
      BY <2>2, <3>1
    <3> QED
      BY <3>2
  <2> QED
    BY <2>3, <2>4
<1> QED
  BY <1>1, <1>6, <1>7

(* Everything that upstream gave a value, and the two parameters change     *)
(* nothing.                                                                 *)
LEMMA EverythingAsked ==
  ASSUME NEW M, NEW current \in Seq(M),
         \A i, j \in DOMAIN current : current[i].key = current[j].key => i = j,
         NEW K, NEW params \in Seq(K), Len(params) = 2
  PROVE  Meteo_ParseResponse(current, params) = CopyMembers(<<>>, current, KeysOf(current))
<1>1. PICK n \in Nat : n = Len(current) /\ DOMAIN current = 1 .. n
  BY LenProperties
<1>2. PICK w : w = KeysOf(current)
  OBVIOUS
<1>3. \A p \in 1 .. n : current[p].key \in w
  BY <1>1, <1>2 DEF KeysOf
<1>4. PICK o : o = CopyMembers(<<>>, current, w)
  OBVIOUS
<1>5. /\ o \in Seq(M)
      /\ \A i \in 1 .. Len(o) : \E p \in 1 .. n : o[i] = current[p]
      /\ \A p \in 1 .. n : Scalar(current[p]) => \E i \in 1 .. Len(o) : o[i] = current[p]
  <2>1. InOrder(M, o, current, w)
    BY <1>4, CopiesInOrder
  <2> QED
    BY <1>1, <1>3, <2>1 DEF InOrder
<1>6. PICK l \in Nat : l = Len(o) /\ DOMAIN o = 1 .. l
  BY <1>5, LenProperties
<1>7. \A p \in 1 .. n : Scalar(current[p]) => json_object_set_new(o, current[p]) = o
  <2> SUFFICES ASSUME NEW p \in 1 .. n, Scalar(current[p])
               PROVE  json_object_set_new(o, current[p]) = o
    OBVIOUS
  <2>1. PICK i \in 1 .. l : o[i] = current[p]
    BY <1>5, <1>6
  <2>2. current[p].key \in KeysOf(o)
    BY <1>6, <2>1 DEF KeysOf
  <2>3. \A j \in 1 .. l : o[j].key = current[p].key => o[j] = current[p]
    <3> SUFFICES ASSUME NEW j \in 1 .. l, o[j].key = current[p].key
                 PROVE  o[j] = current[p]
      OBVIOUS
    <3>1. PICK r \in 1 .. n : o[j] = current[r]
      BY <1>5, <1>6
    <3>2. r = p
      BY <1>1, <3>1
    <3> QED
      BY <3>1, <3>2
  <2>4. json_object_set_new(o, current[p]) =
          [j \in 1 .. l |-> IF o[j].key = current[p].key THEN current[p] ELSE o[j]]
    BY <1>6, <2>2 DEF json_object_set_new
  <2>5. [j \in 1 .. l |-> IF o[j].key = current[p].key THEN current[p] ELSE o[j]]
          = [j \in 1 .. l |-> o[j]]
    BY <2>3
  <2>6. o = [j \in 1 .. l |-> o[j]]
    BY <1>5, <1>6
  <2> QED
    BY <2>4, <2>5, <2>6
<1>8. ASSUME NEW c
      PROVE  CopyMembers(o, current, {c}) = o
  <2>a. HasCopied(CopyMembers(o, current, {c}), o, current, c)
    BY <1>5, CopiesOne
  <2>b. PICK new : new = CopyMembers(o, current, {c})
    OBVIOUS
  <2>c. HasCopied(new, o, current, c)
    BY <2>a, <2>b
  <2>1. /\ \A p \in 1 .. n : current[p].key = c /\ Scalar(current[p]) =>
              new = json_object_set_new(o, current[p])
        /\ (\A p \in 1 .. n : ~ (current[p].key = c /\ Scalar(current[p]))) => new = o
    BY <1>1, <2>c DEF HasCopied
  <2>2. CASE \E p \in 1 .. n : current[p].key = c /\ Scalar(current[p])
    BY <1>7, <2>1, <2>2, <2>b
  <2>3. CASE \A p \in 1 .. n : ~ (current[p].key = c /\ Scalar(current[p]))
    BY <2>1, <2>3, <2>b
  <2> QED
    BY <2>2, <2>3
<1>9. PICK h : MeteoRun(h, o, current, params)
  <2>1. o = IF Len(params) = 2 THEN CopyMembers(<<>>, current, KeysOf(current)) ELSE <<>>
    BY <1>2, <1>4
  <2> QED
    BY <1>5, <2>1, ParameterSteps
<1>10. /\ h[0] = o /\ h[2] = Meteo_ParseResponse(current, params)
       /\ h[0 + 1] = CopyMembers(h[0], current, {params[0 + 1]})
       /\ h[1 + 1] = CopyMembers(h[1], current, {params[1 + 1]})
  <2>1. /\ h[0] = o /\ h[2] = Meteo_ParseResponse(current, params)
        /\ \A k \in Nat : k + 1 <= 2 =>
             h[k + 1] = CopyMembers(h[k], current, {params[k + 1]})
    BY <1>9 DEF MeteoRun
  <2>2. 0 \in Nat /\ 1 \in Nat /\ 0 + 1 <= 2 /\ 1 + 1 <= 2
    OBVIOUS
  <2>3. h[0 + 1] = CopyMembers(h[0], current, {params[0 + 1]})
    BY <2>1, <2>2
  <2>4. h[1 + 1] = CopyMembers(h[1], current, {params[1 + 1]})
    BY <2>1, <2>2
  <2> QED
    BY <2>1, <2>3, <2>4
<1>11. h[2] = o
  <2>1. 0 + 1 = 1 /\ 1 + 1 = 2
    OBVIOUS
  <2>2. h[1] = o
    BY <1>8, <1>10, <2>1
  <2> QED
    BY <1>8, <1>10, <2>1, <2>2
<1> QED
  BY <1>2, <1>4, <1>10, <1>11

(* What was asked for and has a value, in the order of the request.         *)
AskedInOrder(M, o, current, params) ==
  /\ o \in Seq(M)
  /\ \A i \in 1 .. Len(o) : \E p \in 1 .. Len(current) : \E r \in 1 .. Len(params) :
       o[i] = current[p] /\ Scalar(current[p]) /\ current[p].key = params[r]
  /\ \A p \in 1 .. Len(current) : \A r \in 1 .. Len(params) :
       Scalar(current[p]) /\ current[p].key = params[r] =>
         \E i \in 1 .. Len(o) : o[i] = current[p]
  /\ \A i, j \in 1 .. Len(o) : i < j =>
       \E p, q \in 1 .. Len(params) :
         p < q /\ params[p] = o[i].key /\ params[q] = o[j].key

LEMMA SomeAsked ==
  ASSUME NEW M, NEW current \in Seq(M),
         \A i, j \in DOMAIN current : current[i].key = current[j].key => i = j,
         NEW K, NEW params \in Seq(K), Len(params) # 2, IsInjective(params)
  PROVE  AskedInOrder(M, Meteo_ParseResponse(current, params), current, params)
<1> DEFINE Found(p, r) == Scalar(current[p]) /\ current[p].key = params[r]
<1>1. PICK n \in Nat : n = Len(current) /\ DOMAIN current = 1 .. n
  BY LenProperties
<1>2. PICK N \in Nat : N = Len(params) /\ DOMAIN params = 1 .. N
  BY LenProperties
<1> DEFINE Asked(o, k) ==
             /\ o \in Seq(M)
             /\ \A i \in 1 .. Len(o) : \E p \in 1 .. n : \E r \in 1 .. k :
                  o[i] = current[p] /\ Found(p, r)
             /\ \A p \in 1 .. n : \A r \in 1 .. k :
                  Found(p, r) => \E i \in 1 .. Len(o) : o[i] = current[p]
             /\ \A i, j \in 1 .. Len(o) : i < j =>
                  \E p, q \in 1 .. k : p < q /\ params[p] = o[i].key /\ params[q] = o[j].key
<1>3. <<>> \in Seq(M) /\ Len(<<>>) = 0
  BY EmptySeq
<1>4. PICK h : MeteoRun(h, <<>>, current, params)
  <2>1. PICK base \in Seq(M) : base = <<>>
    BY <1>3
  <2>2. base = IF Len(params) = 2 THEN CopyMembers(<<>>, current, KeysOf(current)) ELSE <<>>
    BY <2>1
  <2>3. \E h : MeteoRun(h, base, current, params)
    BY <2>2, ParameterSteps
  <2> QED
    BY <2>1, <2>3
<1>5. /\ h[0] = <<>> /\ h[N] = Meteo_ParseResponse(current, params)
      /\ \A k \in Nat : k + 1 <= N =>
           h[k + 1] = CopyMembers(h[k], current, {params[k + 1]})
  BY <1>2, <1>4 DEF MeteoRun
<1>6. Asked(h[0], 0)
  <2>1. h[0] \in Seq(M) /\ Len(h[0]) = 0
    BY <1>3, <1>5
  <2>2. \A p : ~ (p \in 1 .. 0)
    OBVIOUS
  <2> HIDE DEF Found
  <2> QED
    BY <2>1, <2>2
<1>7. ASSUME NEW k \in Nat, k + 1 <= N, Asked(h[k], k)
      PROVE  Asked(h[k + 1], k + 1)
  <2>1. PICK o : o = h[k]
    OBVIOUS
  <2>2. PICK new : new = h[k + 1]
    OBVIOUS
  <2>3. PICK c : c = params[k + 1]
    OBVIOUS
  <2>4. new = CopyMembers(o, current, {c})
    BY <1>5, <1>7, <2>1, <2>2, <2>3
  <2>5. /\ o \in Seq(M)
        /\ \A i \in 1 .. Len(o) : \E p \in 1 .. n : \E r \in 1 .. k :
             o[i] = current[p] /\ Found(p, r)
        /\ \A p \in 1 .. n : \A r \in 1 .. k :
             Found(p, r) => \E i \in 1 .. Len(o) : o[i] = current[p]
        /\ \A i, j \in 1 .. Len(o) : i < j =>
             \E p, q \in 1 .. k : p < q /\ params[p] = o[i].key /\ params[q] = o[j].key
    BY <1>7, <2>1
  <2>6. PICK l \in Nat : l = Len(o) /\ DOMAIN o = 1 .. l
    BY <2>5, LenProperties
  <2>7. /\ \A r \in 1 .. k + 1 : r \in 1 .. k \/ r = k + 1
        /\ \A r \in 1 .. k : r \in 1 .. k + 1 /\ r \in 1 .. N
        /\ k + 1 \in 1 .. k + 1 /\ k + 1 \in 1 .. N
    BY <1>7
  <2>8. /\ \A p \in 1 .. n : current[p].key = c /\ Scalar(current[p]) =>
              new = json_object_set_new(o, current[p])
        /\ (\A p \in 1 .. n : ~ (current[p].key = c /\ Scalar(current[p]))) => new = o
    <3>1. HasCopied(CopyMembers(o, current, {c}), o, current, c)
      BY <2>5, CopiesOne
    <3>2. HasCopied(new, o, current, c)
      BY <2>4, <3>1
    <3> QED
      BY <1>1, <3>2 DEF HasCopied
  <2>9. CASE \A p \in 1 .. n : ~ Found(p, k + 1)
    <3>1. new = o
      BY <2>3, <2>8, <2>9
    <3> HIDE DEF Found
    <3>2. \A i \in 1 .. Len(new) : \E p \in 1 .. n : \E r \in 1 .. k + 1 :
            new[i] = current[p] /\ Found(p, r)
      BY <2>5, <2>7, <3>1
    <3>3. \A p \in 1 .. n : \A r \in 1 .. k + 1 :
            Found(p, r) => \E i \in 1 .. Len(new) : new[i] = current[p]
      BY <2>5, <2>7, <2>9, <3>1
    <3>4. \A i, j \in 1 .. Len(new) : i < j =>
            \E p, q \in 1 .. k + 1 : p < q /\ params[p] = new[i].key /\ params[q] = new[j].key
      BY <2>5, <2>7, <3>1
    <3> QED
      BY <2>2, <2>5, <3>1, <3>2, <3>3, <3>4
  <2>10. ASSUME NEW x \in 1 .. n, Found(x, k + 1)
         PROVE  Asked(h[k + 1], k + 1)
    <3>1. PICK m : m = current[x]
      OBVIOUS
    <3>2. m \in M /\ m.key = c /\ new = json_object_set_new(o, m)
      BY <1>1, <2>3, <2>8, <2>10, <3>1, ElementOfSeq
    <3>3. m.key \notin KeysOf(o)
      <4> SUFFICES ASSUME NEW i \in 1 .. l, o[i].key = m.key
                   PROVE  FALSE
        BY <2>6 DEF KeysOf
      <4>1. PICK p \in 1 .. n, r \in 1 .. k : o[i] = current[p] /\ Found(p, r)
        BY <2>5, <2>6
      <4>2. params[r] = params[k + 1]
        BY <2>3, <3>2, <4>1
      <4>3. r = k + 1
        BY <1>2, <2>7, <4>2 DEF IsInjective
      <4> QED
        BY <4>3
    <3>4. new = Append(o, m)
      BY <3>2, <3>3 DEF json_object_set_new
    <3>5. /\ new \in Seq(M) /\ Len(new) = l + 1
          /\ \A i \in 1 .. l : new[i] = o[i]
          /\ new[l + 1] = m
      BY <2>5, <2>6, <3>2, <3>4, AppendProperties
    <3>6. /\ \A i \in 1 .. l + 1 : i \in 1 .. l \/ i = l + 1
          /\ \A i \in 1 .. l : i \in 1 .. l + 1
          /\ l + 1 \in 1 .. l + 1
      OBVIOUS
    <3>7. \A p \in 1 .. n : Found(p, k + 1) => p = x
      BY <1>1, <2>10
    <3>8. \A i \in 1 .. l : \E r \in 1 .. k : params[r] = o[i].key
      <4> SUFFICES ASSUME NEW i \in 1 .. l
                   PROVE  \E r \in 1 .. k : params[r] = o[i].key
        OBVIOUS
      <4>1. PICK p \in 1 .. n, r \in 1 .. k : o[i] = current[p] /\ Found(p, r)
        BY <2>5, <2>6
      <4>2. o[i].key = params[r]
        BY <4>1
      <4> QED
        BY <4>2
    <3> HIDE DEF Found
    <3>9. \A i \in 1 .. Len(new) : \E p \in 1 .. n : \E r \in 1 .. k + 1 :
            new[i] = current[p] /\ Found(p, r)
      <4> SUFFICES ASSUME NEW i \in 1 .. l + 1
                   PROVE  \E p \in 1 .. n : \E r \in 1 .. k + 1 :
                            new[i] = current[p] /\ Found(p, r)
        BY <3>5
      <4>1. CASE i \in 1 .. l
        <5>1. PICK p \in 1 .. n, r \in 1 .. k : o[i] = current[p] /\ Found(p, r)
          BY <2>5, <2>6, <4>1
        <5>2. new[i] = current[p] /\ r \in 1 .. k + 1
          BY <2>7, <3>5, <4>1, <5>1
        <5> QED
          BY <5>1, <5>2
      <4>2. CASE i = l + 1
        BY <2>7, <2>10, <3>1, <3>5, <4>2
      <4> QED
        BY <3>6, <4>1, <4>2
    <3>10. \A p \in 1 .. n : \A r \in 1 .. k + 1 :
             Found(p, r) => \E i \in 1 .. Len(new) : new[i] = current[p]
      <4> SUFFICES ASSUME NEW p \in 1 .. n, NEW r \in 1 .. k + 1, Found(p, r)
                   PROVE  \E i \in 1 .. l + 1 : new[i] = current[p]
        BY <3>5
      <4>1. CASE r \in 1 .. k
        <5>1. PICK i \in 1 .. l : o[i] = current[p]
          BY <2>5, <2>6, <4>1
        <5> QED
          BY <3>5, <3>6, <5>1
      <4>2. CASE r = k + 1
        BY <3>1, <3>5, <3>6, <3>7, <4>2
      <4> QED
        BY <2>7, <4>1, <4>2
    <3>11. \A i, j \in 1 .. Len(new) : i < j =>
             \E p, q \in 1 .. k + 1 : p < q /\ params[p] = new[i].key /\ params[q] = new[j].key
      <4> DEFINE InTurn(i, j) == \E p, q \in 1 .. k + 1 :
                   p < q /\ params[p] = new[i].key /\ params[q] = new[j].key
      <4>a. SUFFICES \A i, j \in 1 .. l + 1 : i < j => InTurn(i, j)
        <5> HIDE DEF InTurn
        <5>1. Len(new) = l + 1
          BY <3>5
        <5>2. \A i, j \in 1 .. Len(new) : i < j => InTurn(i, j)
          BY <4>a, <5>1
        <5> QED
          BY <5>2 DEF InTurn
      <4> SUFFICES ASSUME NEW i \in 1 .. l + 1, NEW j \in 1 .. l + 1, i < j
                   PROVE  InTurn(i, j)
        OBVIOUS
      <4>1. i \in 1 .. l
        OBVIOUS
      <4>2. CASE j \in 1 .. l
        <5>1. PICK p \in 1 .. k, q \in 1 .. k :
                p < q /\ params[p] = o[i].key /\ params[q] = o[j].key
          BY <2>5, <2>6, <4>1, <4>2
        <5> QED
          BY <2>7, <3>5, <4>1, <4>2, <5>1
      <4>3. CASE j = l + 1
        <5>1. PICK r \in 1 .. k : params[r] = o[i].key
          BY <3>8, <4>1
        <5>2. r < k + 1 /\ r \in 1 .. k + 1
          OBVIOUS
        <5>3. new[i].key = o[i].key /\ new[j].key = params[k + 1]
          BY <2>3, <3>2, <3>5, <4>1, <4>3
        <5> QED
          BY <2>7, <5>1, <5>2, <5>3
      <4> QED
        BY <3>6, <4>2, <4>3
    <3> QED
      BY <2>2, <3>5, <3>9, <3>10, <3>11
  <2> QED
    BY <2>9, <2>10
<1> DEFINE Up == {k \in Nat : k <= N => Asked(h[k], k)}
<1> HIDE DEF Asked
<1>8. 0 \in Up
  BY <1>6
<1>9. ASSUME NEW k \in Nat, k \in Up
      PROVE  k + 1 \in Up
  <2>1. k + 1 <= N => Asked(h[k], k)
    BY <1>9
  <2> QED
    BY <1>7, <2>1
<1> HIDE DEF Up
<1>10. N \in Up
  BY <1>8, <1>9, AllNumbers
<1>11. Asked(h[N], N)
  BY <1>10 DEF Up
<1>12. PICK o : o = h[N]
  OBVIOUS
<1>13. /\ o \in Seq(M)
       /\ \A i \in 1 .. Len(o) : \E p \in 1 .. n : \E r \in 1 .. N :
            o[i] = current[p] /\ Found(p, r)
       /\ \A p \in 1 .. n : \A r \in 1 .. N :
            Found(p, r) => \E i \in 1 .. Len(o) : o[i] = current[p]
       /\ \A i, j \in 1 .. Len(o) : i < j =>
            \E p, q \in 1 .. N : p < q /\ params[p] = o[i].key /\ params[q] = o[j].key
  BY <1>11, <1>12 DEF Asked
<1>14. o = Meteo_ParseResponse(current, params)
  BY <1>5, <1>12
<1>15. AskedInOrder(M, o, current, params)
  <2> DEFINE AsAsked(P) == \A i, j \in 1 .. Len(o) : i < j =>
                 \E p, q \in P : p < q /\ params[p] = o[i].key /\ params[q] = o[j].key
             NoMore(C, P) == \A i \in 1 .. Len(o) : \E p \in C : \E r \in P :
                 o[i] = current[p] /\ Scalar(current[p]) /\ current[p].key = params[r]
             NoLess(C, P) == \A p \in C : \A r \in P :
                 Scalar(current[p]) /\ current[p].key = params[r] =>
                   \E i \in 1 .. Len(o) : o[i] = current[p]
  <2>1. NoMore(1 .. n, 1 .. N)
    BY <1>13
  <2>2. NoLess(1 .. n, 1 .. N)
    BY <1>13
  <2>3. AsAsked(1 .. N)
    BY <1>13
  <2>4. 1 .. n = 1 .. Len(current) /\ 1 .. N = 1 .. Len(params)
    BY <1>1, <1>2
  <2> HIDE DEF NoMore, NoLess, AsAsked
  <2>5. NoMore(1 .. Len(current), 1 .. Len(params))
    BY <2>1, <2>4
  <2>6. NoLess(1 .. Len(current), 1 .. Len(params))
    BY <2>2, <2>4
  <2>7. AsAsked(1 .. Len(params))
    BY <2>3, <2>4
  <2> QED
    BY <1>13, <2>5, <2>6, <2>7 DEF AskedInOrder, NoMore, NoLess, AsAsked
<1> QED
  BY <1>14, <1>15

(* The members that were copied, as a set.                                  *)
LEMMA CopiedSet ==
  ASSUME NEW M, NEW from \in Seq(M), NEW o, NEW wanted, InOrder(M, o, from, wanted)
  PROVE  ToSet(o) = {m \in ToSet(from) : m.key \in wanted /\ Scalar(m)}
<1>1. /\ o \in Seq(M)
      /\ \A i \in 1 .. Len(o) : \E p \in 1 .. Len(from) :
           o[i] = from[p] /\ from[p].key \in wanted /\ Scalar(from[p])
      /\ \A p \in 1 .. Len(from) : from[p].key \in wanted /\ Scalar(from[p]) =>
           \E i \in 1 .. Len(o) : o[i] = from[p]
  BY DEF InOrder
<1>2. DOMAIN o = 1 .. Len(o) /\ DOMAIN from = 1 .. Len(from)
  BY <1>1, LenProperties
<1>3. ASSUME NEW m \in ToSet(o)
      PROVE  m \in ToSet(from) /\ m.key \in wanted /\ Scalar(m)
  <2>1. PICK i \in 1 .. Len(o) : m = o[i]
    BY <1>2 DEF ToSet
  <2>2. PICK p \in 1 .. Len(from) : o[i] = from[p] /\ from[p].key \in wanted /\ Scalar(from[p])
    BY <1>1
  <2>3. m = from[p]
    BY <2>1, <2>2
  <2> QED
    BY <1>2, <2>2, <2>3 DEF ToSet
<1>4. ASSUME NEW m \in ToSet(from), m.key \in wanted, Scalar(m)
      PROVE  m \in ToSet(o)
  <2>1. PICK p \in 1 .. Len(from) : m = from[p]
    BY <1>2 DEF ToSet
  <2>2. PICK i \in 1 .. Len(o) : o[i] = from[p]
    BY <1>1, <1>4, <2>1
  <2> QED
    BY <1>2, <2>1, <2>2 DEF ToSet
<1> QED
  BY <1>3, <1>4

(* Members in the order of another object are different members.            *)
LEMMA InOrderOnce ==
  ASSUME NEW M, NEW from \in Seq(M),
         \A i, j \in DOMAIN from : from[i].key = from[j].key => i = j,
         NEW o, NEW wanted, InOrder(M, o, from, wanted)
  PROVE  IsInjective(o)
<1>1. /\ o \in Seq(M)
      /\ \A i \in 1 .. Len(o) : \E p \in 1 .. Len(from) : o[i] = from[p]
      /\ \A i, j \in 1 .. Len(o) :
           i < j => Place(from, o[i].key) < Place(from, o[j].key)
  BY DEF InOrder
<1>2. PICK l \in Nat : l = Len(o) /\ DOMAIN o = 1 .. l
  BY <1>1, LenProperties
<1>3. PICK n \in Nat : n = Len(from) /\ DOMAIN from = 1 .. n
  BY LenProperties
<1>4. \A i, j \in 1 .. l : i < j => o[i] # o[j]
  <2> SUFFICES ASSUME NEW i \in 1 .. l, NEW j \in 1 .. l, i < j, o[i] = o[j]
               PROVE  FALSE
    OBVIOUS
  <2>1. PICK p \in 1 .. n : o[i] = from[p]
    BY <1>1, <1>2, <1>3
  <2>2. Place(from, o[i].key) = p
    BY <1>3, <2>1, PlaceOf
  <2>3. Place(from, o[j].key) = p
    BY <2>2
  <2>4. Place(from, o[i].key) < Place(from, o[j].key)
    BY <1>1, <1>2
  <2> QED
    BY <2>2, <2>3, <2>4
<1>5. \A i, j \in 1 .. l : o[i] = o[j] => ~ (i < j) /\ ~ (j < i)
  BY <1>4
<1>6. \A i, j \in 1 .. l : o[i] = o[j] => i = j
  BY <1>5
<1> QED
  BY <1>2, <1>6 DEF IsInjective

(* What was asked for, as a set and in the order of the request.            *)
LEMMA AskedSet ==
  ASSUME NEW M, NEW current \in Seq(M), NEW K, NEW params \in Seq(K), IsInjective(params),
         NEW o, AskedInOrder(M, o, current, params)
  PROVE  /\ IsInjective(o)
         /\ ToSet(o) = {m \in ToSet(current) : Scalar(m) /\ m.key \in ToSet(params)}
         /\ \A i, j \in DOMAIN o : i < j =>
              \E p, q \in DOMAIN params :
                p < q /\ params[p] = o[i].key /\ params[q] = o[j].key
<1>1. /\ o \in Seq(M)
      /\ \A i \in 1 .. Len(o) : \E p \in 1 .. Len(current) : \E r \in 1 .. Len(params) :
           o[i] = current[p] /\ Scalar(current[p]) /\ current[p].key = params[r]
      /\ \A p \in 1 .. Len(current) : \A r \in 1 .. Len(params) :
           Scalar(current[p]) /\ current[p].key = params[r] =>
             \E i \in 1 .. Len(o) : o[i] = current[p]
      /\ \A i, j \in 1 .. Len(o) : i < j =>
           \E p, q \in 1 .. Len(params) :
             p < q /\ params[p] = o[i].key /\ params[q] = o[j].key
  BY DEF AskedInOrder
<1>2. PICK l \in Nat : l = Len(o) /\ DOMAIN o = 1 .. l
  BY <1>1, LenProperties
<1>3. PICK n \in Nat : n = Len(current) /\ DOMAIN current = 1 .. n
  BY LenProperties
<1>4. PICK N \in Nat : N = Len(params) /\ DOMAIN params = 1 .. N
  BY LenProperties
<1>5. \A i, j \in 1 .. l : i < j => o[i] # o[j]
  <2> SUFFICES ASSUME NEW i \in 1 .. l, NEW j \in 1 .. l, i < j, o[i] = o[j]
               PROVE  FALSE
    OBVIOUS
  <2>1. PICK p \in 1 .. N, q \in 1 .. N :
          p < q /\ params[p] = o[i].key /\ params[q] = o[j].key
    BY <1>1, <1>2, <1>4
  <2>2. params[p] = params[q]
    BY <2>1
  <2>3. p = q
    BY <1>4, <2>2 DEF IsInjective
  <2> QED
    BY <2>1, <2>3
<1>6. \A i, j \in 1 .. l : o[i] = o[j] => ~ (i < j) /\ ~ (j < i)
  BY <1>5
<1>7. \A i, j \in 1 .. l : o[i] = o[j] => i = j
  BY <1>6
<1>8. ASSUME NEW m \in ToSet(o)
      PROVE  m \in ToSet(current) /\ Scalar(m) /\ m.key \in ToSet(params)
  <2>1. PICK i \in 1 .. l : m = o[i]
    BY <1>2 DEF ToSet
  <2>2. PICK p \in 1 .. n, r \in 1 .. N :
          o[i] = current[p] /\ Scalar(current[p]) /\ current[p].key = params[r]
    BY <1>1, <1>2, <1>3, <1>4
  <2>3. m = current[p] /\ m.key = params[r]
    BY <2>1, <2>2
  <2> QED
    BY <1>3, <1>4, <2>2, <2>3 DEF ToSet
<1>9. ASSUME NEW m \in ToSet(current), Scalar(m), m.key \in ToSet(params)
      PROVE  m \in ToSet(o)
  <2>1. PICK p \in 1 .. n : m = current[p]
    BY <1>3 DEF ToSet
  <2>2. PICK r \in 1 .. N : m.key = params[r]
    BY <1>4, <1>9 DEF ToSet
  <2>3. current[p].key = params[r] /\ Scalar(current[p])
    BY <1>9, <2>1, <2>2
  <2>4. PICK i \in 1 .. l : o[i] = current[p]
    BY <1>1, <1>2, <1>3, <1>4, <2>3
  <2> QED
    BY <1>2, <2>1, <2>4 DEF ToSet
<1>10. ToSet(o) = {m \in ToSet(current) : Scalar(m) /\ m.key \in ToSet(params)}
  BY <1>8, <1>9
<1>11. IsInjective(o)
  BY <1>2, <1>7 DEF IsInjective
<1>12. DOMAIN o = 1 .. Len(o) /\ DOMAIN params = 1 .. Len(params)
  BY <1>2, <1>4
<1> QED
  BY <1>1, <1>10, <1>11, <1>12

(* The invariant, as the loops are understood.                              *)
LEMMA WeatherAnswered ==
  ASSUME NEW M, NEW current \in Seq(M),
         \A i, j \in DOMAIN current : current[i].key = current[j].key => i = j,
         NEW K, NEW params \in Seq(K), IsInjective(params),
         {"lat", "lon"} \subseteq ToSet(params),
         NEW o, o = Meteo_ParseResponse(current, params)
  PROVE  /\ IsInjective(o)
         /\ ToSet(o) = {m \in ToSet(current) :
                          Scalar(m) /\ (ToSet(params) \ {"lat", "lon"} = {}
                                          \/ m.key \in ToSet(params))}
         /\ \A i, j \in DOMAIN o :
              i < j => IF ToSet(params) \ {"lat", "lon"} = {}
                         THEN Place(current, o[i].key) < Place(current, o[j].key)
                         ELSE \E p, q \in DOMAIN params :
                                p < q /\ params[p] = o[i].key /\ params[q] = o[j].key
<1>1. CASE Len(params) = 2
  <2>1. ToSet(params) \ {"lat", "lon"} = {}
    BY <1>1, ThirdParameter
  <2>2. PICK w : w = KeysOf(current)
    OBVIOUS
  <2>3. InOrder(M, CopyMembers(<<>>, current, w), current, w)
    BY CopiesInOrder
  <2>4. InOrder(M, o, current, w)
    <3>1. o = CopyMembers(<<>>, current, w)
      BY <1>1, <2>2, EverythingAsked
    <3> QED
      BY <2>3, <3>1
  <2>5. IsInjective(o)
    BY <2>4, InOrderOnce
  <2>6. ToSet(o) = {m \in ToSet(current) : m.key \in w /\ Scalar(m)}
    BY <2>4, CopiedSet
  <2>7. \A m \in ToSet(current) : m.key \in w
    BY <2>2 DEF ToSet, KeysOf
  <2>8. ToSet(o) = {m \in ToSet(current) :
                      Scalar(m) /\ (ToSet(params) \ {"lat", "lon"} = {}
                                      \/ m.key \in ToSet(params))}
    BY <2>1, <2>6, <2>7
  <2>9. \A i, j \in DOMAIN o : i < j => Place(current, o[i].key) < Place(current, o[j].key)
    <3>1. o \in Seq(M)
      BY <2>4 DEF InOrder
    <3>2. DOMAIN o = 1 .. Len(o)
      BY <3>1, LenProperties
    <3> QED
      BY <2>4, <3>2 DEF InOrder
  <2> QED
    BY <2>1, <2>5, <2>8, <2>9
<1>2. CASE Len(params) # 2
  <2>1. ToSet(params) \ {"lat", "lon"} # {}
    BY <1>2, ThirdParameter
  <2>2. AskedInOrder(M, Meteo_ParseResponse(current, params), current, params)
    BY <1>2, SomeAsked
  <2>3. AskedInOrder(M, o, current, params)
    BY <2>2
  <2>4. /\ IsInjective(o)
        /\ ToSet(o) = {m \in ToSet(current) : Scalar(m) /\ m.key \in ToSet(params)}
        /\ \A i, j \in DOMAIN o : i < j =>
             \E p, q \in DOMAIN params :
               p < q /\ params[p] = o[i].key /\ params[q] = o[j].key
    BY <2>3, AskedSet
  <2>5. ToSet(o) = {m \in ToSet(current) :
                      Scalar(m) /\ (ToSet(params) \ {"lat", "lon"} = {}
                                      \/ m.key \in ToSet(params))}
    BY <2>1, <2>4
  <2> QED
    BY <2>1, <2>4, <2>5
<1> QED
  BY <1>1, <1>2

LEMMA PlacesAnswered ==
  ASSUME NEW results, results \in Seq(ToSet(results)),
         \A object \in ToSet(results) : Object(object),
         NEW o, o = GEO_ParseResponse(results)
  PROVE  /\ Len(o) = Len(results)
         /\ \A i \in DOMAIN results :
              ToSet(o[i]) = {m \in ToSet(results[i]) : m.key \in GeoKeys /\ Scalar(m)}
<1>1. PICK n \in Nat : n = Len(results) /\ DOMAIN results = 1 .. n
  BY LenProperties
<1>2. PICK w : w = GeoKeys
  OBVIOUS
<1>3. o = [i \in 1 .. n |-> CopyMembers(<<>>, results[i], w)]
  BY <1>1, <1>2 DEF GEO_ParseResponse
<1>4. Len(o) = n
  <2> DEFINE S == {CopyMembers(<<>>, results[i], w) : i \in 1 .. n}
  <2>1. o \in [1 .. n -> S]
    BY <1>3
  <2> HIDE DEF S
  <2>2. o \in Seq(S)
    BY <2>1
  <2>3. DOMAIN o = 1 .. n
    BY <1>3
  <2> QED
    BY <2>2, <2>3, LenProperties
<1>5. \A i \in 1 .. n : ToSet(o[i]) = {m \in ToSet(results[i]) : m.key \in w /\ Scalar(m)}
  <2> SUFFICES ASSUME NEW i \in 1 .. n
               PROVE  ToSet(o[i]) = {m \in ToSet(results[i]) : m.key \in w /\ Scalar(m)}
    OBVIOUS
  <2>1. PICK r : r = results[i]
    OBVIOUS
  <2>2. r \in ToSet(results)
    BY <1>1, <2>1 DEF ToSet
  <2>3. /\ r \in Seq(ToSet(r))
        /\ \A j, k \in DOMAIN r : r[j].key = r[k].key => j = k
    BY <2>2 DEF Object
  <2>4. InOrder(ToSet(r), CopyMembers(<<>>, r, w), r, w)
    BY <2>3, CopiesInOrder
  <2>5. o[i] = CopyMembers(<<>>, r, w)
    BY <1>3, <2>1
  <2>6. InOrder(ToSet(r), o[i], r, w)
    BY <2>4, <2>5
  <2>7. ToSet(o[i]) = {m \in ToSet(r) : m.key \in w /\ Scalar(m)}
    BY <2>3, <2>6, CopiedSet
  <2> QED
    BY <2>1, <2>7
<1> QED
  BY <1>1, <1>2, <1>4, <1>5

LEMMA AnswerInvInductive ==
  ASSUME AnswerInv, [AnswerNext]_answerVars
  PROVE  AnswerInv'
<1>1. CASE Handle_GEO
  BY <1>1 DEF Handle_GEO, AnswerInv
<1>2. CASE Handle_Weather
  BY <1>2 DEF Handle_Weather, AnswerInv
<1>3. CASE Dispose
  BY <1>3 DEF Dispose, AnswerInv
<1>4. CASE UNCHANGED answerVars
  BY <1>4 DEF answerVars, AnswerInv
<1> QED
  BY <1>1, <1>2, <1>3, <1>4 DEF AnswerNext

LEMMA AnswerInvMeans ==
  ASSUME ResponsesAssumption, AnswerInv
  PROVE  AnswerIsWhatWasAsked
<1>1. ASSUME parsing = "weather", IsInjective(keys)
      PROVE  /\ IsInjective(answer)
             /\ ToSet(answer) = {m \in ToSet(body) :
                                   Scalar(m) /\ (Wanted = {} \/ m.key \in ToSet(keys))}
             /\ \A i, j \in DOMAIN answer :
                  i < j => IF Wanted = {}
                             THEN Place(body, answer[i].key) < Place(body, answer[j].key)
                             ELSE \E p, q \in DOMAIN keys :
                                    p < q /\ keys[p] = answer[i].key /\ keys[q] = answer[j].key
  <2>1. /\ body \in Currents /\ keys \in Requests
        /\ {"lat", "lon"} \subseteq ToSet(keys)
        /\ answer = Meteo_ParseResponse(body, keys)
    BY <1>1 DEF AnswerInv
  <2>2. /\ body \in Seq(ToSet(body))
        /\ \A i, j \in DOMAIN body : body[i].key = body[j].key => i = j
        /\ keys \in Seq(ToSet(keys))
    BY <2>1 DEF ResponsesAssumption, Object
  <2>3. PICK current, params, o : current = body /\ params = keys /\ o = answer
    OBVIOUS
  <2>4. PICK M, K : M = ToSet(current) /\ K = ToSet(params)
    OBVIOUS
  <2>5. /\ current \in Seq(M)
        /\ \A i, j \in DOMAIN current : current[i].key = current[j].key => i = j
        /\ params \in Seq(K) /\ IsInjective(params)
        /\ {"lat", "lon"} \subseteq ToSet(params)
        /\ o = Meteo_ParseResponse(current, params)
    BY <1>1, <2>1, <2>2, <2>3, <2>4
  <2>6. /\ IsInjective(o)
        /\ ToSet(o) = {m \in ToSet(current) :
                         Scalar(m) /\ (ToSet(params) \ {"lat", "lon"} = {}
                                         \/ m.key \in ToSet(params))}
        /\ \A i, j \in DOMAIN o :
             i < j => IF ToSet(params) \ {"lat", "lon"} = {}
                        THEN Place(current, o[i].key) < Place(current, o[j].key)
                        ELSE \E p, q \in DOMAIN params :
                               p < q /\ params[p] = o[i].key /\ params[q] = o[j].key
    BY <2>5, WeatherAnswered
  <2> QED
    BY <2>3, <2>6 DEF Wanted
<1>2. ASSUME parsing = "geo"
      PROVE  /\ Len(answer) = Len(body)
             /\ \A i \in DOMAIN body :
                  ToSet(answer[i]) = {m \in ToSet(body[i]) : m.key \in GeoKeys /\ Scalar(m)}
  <2>1. body \in Results /\ answer = GEO_ParseResponse(body)
    BY <1>2 DEF AnswerInv
  <2>2. body \in Seq(ToSet(body)) /\ \A object \in ToSet(body) : Object(object)
    BY <2>1 DEF ResponsesAssumption
  <2> QED
    BY <2>1, <2>2, PlacesAnswered
<1> QED
  BY <1>1, <1>2 DEF AnswerIsWhatWasAsked, WeatherIsWhatWasAsked, PlacesStayInPlace

(* Whatever upstream sends and whatever is asked for, a request that names  *)
(* no parameter twice is answered with every variable it asked for that     *)
(* has a value, once, with that value, in the order of the request (of      *)
(* upstream when it asks for everything), and with nothing else; and the    *)
(* n-th place of an answer is the n-th place that upstream found.           *)
THEOREM AnswersAreWhatWasAsked ==
  ASSUME ResponsesAssumption
  PROVE  AnswerSpec => []AnswerIsWhatWasAsked
<1>1. AnswerInit => AnswerInv
  BY DEF AnswerInit, AnswerInv
<1>2. AnswerInv /\ [AnswerNext]_answerVars => AnswerInv'
  BY AnswerInvInductive
<1>3. AnswerInv => AnswerIsWhatWasAsked
  BY AnswerInvMeans
<1> QED
  BY <1>1, <1>2, <1>3, PTL DEF AnswerSpec

=============================================================================
