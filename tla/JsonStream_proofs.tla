--------------------------- MODULE JsonStream_proofs ---------------------------
(***************************************************************************)
(* Proofs about the stream below the lexer of jansson, for any octets that  *)
(* a source may yield, however many and wherever it ends.                   *)
(***************************************************************************)
EXTENDS JsonStream, FiniteSetTheorems, SequenceTheorems, TLAPS

(* Ranges said with comparisons.                                            *)
Between(u, lo, hi) == u \in Int /\ lo <= u /\ u <= hi

Span(lo, hi) == lo .. hi

(* A span of numbers, as two comparisons.                                   *)
LEMMA SpanIsBetween ==
  \A u : \A lo, hi \in Int : u \in Span(lo, hi) <=> Between(u, lo, hi)
BY SMT DEF Span, Between

(* The octets, as two comparisons.                                          *)
LEMMA OctetRange == \A u : u \in Octet <=> Between(u, 0, 255)
BY SMT DEF Between, Octet

(* The octets that continue a character.                                    *)
LEMMA ContinuationRange == \A u : u \in Continuation <=> Between(u, 128, 191)
BY SMT DEF Between, Continuation

(* The surrogates of UTF-16.                                                *)
LEMMA SurrogateRange == \A u : u \in Surrogate <=> Between(u, 55296, 57343)
<1>1. Surrogate = Span(55296, 57343)
  BY SMT DEF Span, Surrogate
<1> QED
  BY <1>1, SpanIsBetween, SMT

(* Octets are numbers, and so is what masks leave of them.                  *)
LEMMA OctetsAreNumbers ==
  \A u \in Octet : /\ u \in Int /\ 0 <= u /\ u <= 255
                   /\ u % 64 \in Int /\ u % 32 \in Int
                   /\ u % 16 \in Int /\ u % 8 \in Int
BY DEF Octet

(* What utf8_check_full computes, octet by octet.                           *)
LEMMA CodePointSteps ==
  ASSUME NEW s \in Seq(Octet), NEW n \in 2 .. 4, Len(s) = n
  PROVE  \E f : /\ CodePoint(s) = f[Len(s)]
                /\ f[1] = s[1] % <<128, 32, 16, 8>>[Len(s)]
                /\ \A i \in 2 .. Len(s) : f[i] = f[i - 1] * 64 + (s[i] % 64)
<1>0. Len(s) \in Nat /\ Len(s) >= 2 /\ Len(s) <= 4 /\ 1 \in 1 .. Len(s)
  OBVIOUS
<1> DEFINE Computes(f) ==
             f = [i \in 1 .. Len(s) |->
                    IF i = 1 THEN s[1] % <<128, 32, 16, 8>>[Len(s)]
                             ELSE f[i - 1] * 64 + (s[i] % 64)]
           h1 == s[1] % <<128, 32, 16, 8>>[Len(s)]
           h2 == h1 * 64 + (s[2] % 64)
           h3 == h2 * 64 + (s[3] % 64)
           h4 == h3 * 64 + (s[4] % 64)
           g  == [i \in 1 .. Len(s) |-> IF i = 1 THEN h1 ELSE IF i = 2 THEN h2
                                        ELSE IF i = 3 THEN h3 ELSE h4]
<1>1. Computes(g)
  <2>1. ASSUME NEW i \in 1 .. Len(s)
        PROVE  g[i] = IF i = 1 THEN s[1] % <<128, 32, 16, 8>>[Len(s)]
                      ELSE g[i - 1] * 64 + (s[i] % 64)
    <3>1. i \in Nat /\ i >= 1 /\ i <= 4
      BY <1>0
    <3> HIDE DEF h1, h2, h3, h4
    <3>2. g[i] = IF i = 1 THEN h1 ELSE IF i = 2 THEN h2
                 ELSE IF i = 3 THEN h3 ELSE h4
      OBVIOUS
    <3>3. i # 1 => g[i - 1] = IF i = 2 THEN h1 ELSE IF i = 3 THEN h2 ELSE h3
      <4> SUFFICES ASSUME i # 1
                   PROVE  g[i - 1] = IF i = 2 THEN h1 ELSE IF i = 3 THEN h2 ELSE h3
        OBVIOUS
      <4>1. i - 1 \in 1 .. Len(s) /\ (i - 1 = 1 <=> i = 2) /\ (i - 1 = 2 <=> i = 3)
            /\ i - 1 # 4
        BY <1>0, <3>1
      <4>2. g[i - 1] = IF i - 1 = 1 THEN h1 ELSE IF i - 1 = 2 THEN h2
                       ELSE IF i - 1 = 3 THEN h3 ELSE h4
        BY <4>1
      <4> QED
        BY <3>1, <4>1, <4>2
    <3> HIDE DEF g
    <3> QED
      BY <3>1, <3>2, <3>3 DEF h1, h2, h3, h4
  <2>2. g = [i \in 1 .. Len(s) |-> g[i]]
    OBVIOUS
  <2> HIDE DEF g
  <2> QED
    BY <2>1, <2>2
<1>2. ASSUME NEW f, Computes(f)
      PROVE  /\ f[1] = s[1] % <<128, 32, 16, 8>>[Len(s)]
             /\ \A i \in 2 .. Len(s) : f[i] = f[i - 1] * 64 + (s[i] % 64)
  <2>1. \A i \in 1 .. Len(s) : f[i] =
          IF i = 1 THEN s[1] % <<128, 32, 16, 8>>[Len(s)]
                   ELSE f[i - 1] * 64 + (s[i] % 64)
    BY <1>2
  <2>2. 1 \in 1 .. Len(s) /\ \A i \in 2 .. Len(s) : i \in 1 .. Len(s) /\ i # 1
    BY <1>0
  <2> QED
    BY <2>1, <2>2
<1>3. CodePoint(s) = (CHOOSE f : Computes(f))[Len(s)]
  BY DEF CodePoint
<1> HIDE DEF Computes
<1> QED
  BY <1>1, <1>2, <1>3

(* The code point of two, three and four octets.                            *)
ValueOfTwo(a, b) == (a % 32) * 64 + (b % 64)

ValueOfThree(a, b, c) == (a % 16) * 4096 + (b % 64) * 64 + (c % 64)

ValueOfFour(a, b, c, d) ==
  (a % 8) * 262144 + (b % 64) * 4096 + (c % 64) * 64 + (d % 64)

(* What utf8_check_full computes from two, three and four octets.           *)
LEMMA CodePointValue ==
  ASSUME NEW s \in Seq(Octet)
  PROVE  /\ Len(s) = 2 => CodePoint(s) = ValueOfTwo(s[1], s[2])
         /\ Len(s) = 3 => CodePoint(s) = ValueOfThree(s[1], s[2], s[3])
         /\ Len(s) = 4 => CodePoint(s) = ValueOfFour(s[1], s[2], s[3], s[4])
<1>1. ASSUME NEW i \in 1 .. Len(s)
      PROVE  /\ s[i] % 64 \in Int /\ s[i] % 32 \in Int /\ s[i] % 16 \in Int
             /\ s[i] % 8 \in Int
  <2>1. s[i] \in Octet
    BY ElementOfSeq
  <2> QED
    BY <2>1, OctetsAreNumbers
<1>2. CASE Len(s) = 2
  <2>0. PICK f : /\ CodePoint(s) = f[Len(s)]
                 /\ f[1] = s[1] % <<128, 32, 16, 8>>[Len(s)]
                 /\ \A i \in 2 .. Len(s) : f[i] = f[i - 1] * 64 + (s[i] % 64)
    <3>1. 2 \in 2 .. 4
      OBVIOUS
    <3> QED
      BY <1>2, <3>1, CodePointSteps
  <2>1. /\ CodePoint(s) = f[2] /\ f[1] = s[1] % 32
        /\ \A i \in 2 .. 2 : f[i] = f[i - 1] * 64 + (s[i] % 64)
    BY <1>2, <2>0
  <2>2. f[2] = f[2 - 1] * 64 + (s[2] % 64)
    BY <2>1
  <2> QED
    BY <1>2, <2>1, <2>2 DEF ValueOfTwo
<1>3. CASE Len(s) = 3
  <2> DEFINE a == s[1] % 16  b == s[2] % 64  c == s[3] % 64
  <2>0. PICK f : /\ CodePoint(s) = f[Len(s)]
                 /\ f[1] = s[1] % <<128, 32, 16, 8>>[Len(s)]
                 /\ \A i \in 2 .. Len(s) : f[i] = f[i - 1] * 64 + (s[i] % 64)
    <3>1. 3 \in 2 .. 4
      OBVIOUS
    <3> QED
      BY <1>3, <3>1, CodePointSteps
  <2>1. /\ CodePoint(s) = f[3] /\ f[1] = a
        /\ \A i \in 2 .. 3 : f[i] = f[i - 1] * 64 + (s[i] % 64)
    BY <1>3, <2>0
  <2>2. f[2] = f[2 - 1] * 64 + b /\ f[3] = f[3 - 1] * 64 + c
    BY <2>1
  <2>3. a \in Int /\ b \in Int /\ c \in Int
    BY <1>1, <1>3
  <2> HIDE DEF a, b, c, ValueOfThree
  <2>4. f[3] = a * 4096 + b * 64 + c
    BY <2>1, <2>2, <2>3
  <2> QED
    BY <1>3, <2>1, <2>4 DEF a, b, c, ValueOfThree
<1>4. CASE Len(s) = 4
  <2> DEFINE a == s[1] % 8  b == s[2] % 64  c == s[3] % 64  d == s[4] % 64
  <2>0. PICK f : /\ CodePoint(s) = f[Len(s)]
                 /\ f[1] = s[1] % <<128, 32, 16, 8>>[Len(s)]
                 /\ \A i \in 2 .. Len(s) : f[i] = f[i - 1] * 64 + (s[i] % 64)
    <3>1. 4 \in 2 .. 4
      OBVIOUS
    <3> QED
      BY <1>4, <3>1, CodePointSteps
  <2>1. /\ CodePoint(s) = f[4] /\ f[1] = a
        /\ \A i \in 2 .. 4 : f[i] = f[i - 1] * 64 + (s[i] % 64)
    BY <1>4, <2>0
  <2>2. /\ f[2] = f[2 - 1] * 64 + b /\ f[3] = f[3 - 1] * 64 + c
        /\ f[4] = f[4 - 1] * 64 + d
    BY <2>1
  <2>3. a \in Int /\ b \in Int /\ c \in Int /\ d \in Int
    BY <1>1, <1>4
  <2> HIDE DEF a, b, c, d, ValueOfFour
  <2>4. f[2] = a * 64 + b
    BY <2>1, <2>2
  <2>5. f[3] = a * 4096 + b * 64 + c
    BY <2>2, <2>3, <2>4
  <2>6. f[4] = a * 262144 + b * 4096 + c * 64 + d
    BY <2>2, <2>3, <2>5
  <2> QED
    BY <1>4, <2>1, <2>6 DEF a, b, c, d, ValueOfFour
<1> QED
  BY <1>2, <1>3, <1>4

-----------------------------------------------------------------------------
(* The octets of a character as the table of the standard has them: n is    *)
(* how many they are, a, b, c and d are the first four.                     *)
Row(n, a, b, c, d) ==
  \/ n = 1 /\ Between(a, 0, 127)
  \/ n = 2 /\ Between(a, 194, 223) /\ Between(b, 128, 191)
  \/ /\ n = 3 /\ Between(c, 128, 191)
     /\ \/ a = 224 /\ Between(b, 160, 191)
        \/ /\ Between(a, 225, 236) \/ Between(a, 238, 239)
           /\ Between(b, 128, 191)
        \/ a = 237 /\ Between(b, 128, 159)
  \/ /\ n = 4 /\ Between(c, 128, 191) /\ Between(d, 128, 191)
     /\ \/ a = 240 /\ Between(b, 144, 191)
        \/ Between(a, 241, 243) /\ Between(b, 128, 191)
        \/ a = 244 /\ Between(b, 128, 143)

(* The characters of utf.c are the rows of that table.                      *)
LEMMA CharacterRows ==
  ASSUME NEW s \in Seq(Octet)
  PROVE  IsCharacter(s) <=> Row(Len(s), s[1], s[2], s[3], s[4])
<1> DEFINE Fits(row) == Len(row) = Len(s) /\ \A i \in 1 .. Len(s) : s[i] \in row[i]
           One    == Span(0, 127)
           Two    == Span(194, 223)
           Lead   == Span(225, 236) \cup Span(238, 239)
           Lead4  == Span(241, 243)
           Late   == Span(160, 191)
           Early  == Span(128, 159)
           Late4  == Span(144, 191)
           Early4 == Span(128, 143)
           C      == Continuation
<1>0. \A u : /\ u \in One <=> Between(u, 0, 127)
             /\ u \in Two <=> Between(u, 194, 223)
             /\ u \in Lead <=> Between(u, 225, 236) \/ Between(u, 238, 239)
             /\ u \in Lead4 <=> Between(u, 241, 243)
             /\ u \in Late <=> Between(u, 160, 191)
             /\ u \in Early <=> Between(u, 128, 159)
             /\ u \in Late4 <=> Between(u, 144, 191)
             /\ u \in Early4 <=> Between(u, 128, 143)
             /\ u \in C <=> Between(u, 128, 191)
  BY SpanIsBetween, ContinuationRange, SMT
<1>1. IsCharacter(s) <=> \E row \in WellFormed : Fits(row)
  BY DEF IsCharacter
<1>2. WellFormed =
        { <<One>>, <<Two, C>>, <<{224}, Late, C>>, <<Lead, C, C>>,
          <<{237}, Early, C>>, <<{240}, Late4, C, C>>, <<Lead4, C, C, C>>,
          <<{244}, Early4, C, C>> }
  BY SMT DEF WellFormed, Span
<1> HIDE DEF One, Two, Lead, Lead4, Late, Early, Late4, Early4, C
<1>3. IsCharacter(s) <=>
        \/ Fits(<<One>>)
        \/ Fits(<<Two, C>>)
        \/ Fits(<<{224}, Late, C>>)
        \/ Fits(<<Lead, C, C>>)
        \/ Fits(<<{237}, Early, C>>)
        \/ Fits(<<{240}, Late4, C, C>>)
        \/ Fits(<<Lead4, C, C, C>>)
        \/ Fits(<<{244}, Early4, C, C>>)
  <2> HIDE DEF Fits
  <2> QED
    BY <1>1, <1>2
<1>4. 1 .. 2 = {1, 2} /\ 1 .. 3 = {1, 2, 3} /\ 1 .. 4 = {1, 2, 3, 4}
  OBVIOUS
<1>5. Fits(<<One>>) <=> Len(s) = 1 /\ s[1] \in One
  OBVIOUS
<1>6. Fits(<<Two, C>>) <=> Len(s) = 2 /\ s[1] \in Two /\ s[2] \in C
  BY <1>4
<1>7. Fits(<<{224}, Late, C>>) <=>
        Len(s) = 3 /\ s[1] = 224 /\ s[2] \in Late /\ s[3] \in C
  BY <1>4
<1>8. Fits(<<Lead, C, C>>) <=>
        Len(s) = 3 /\ s[1] \in Lead /\ s[2] \in C /\ s[3] \in C
  BY <1>4
<1>9. Fits(<<{237}, Early, C>>) <=>
        Len(s) = 3 /\ s[1] = 237 /\ s[2] \in Early /\ s[3] \in C
  BY <1>4
<1>10. Fits(<<{240}, Late4, C, C>>) <=>
         Len(s) = 4 /\ s[1] = 240 /\ s[2] \in Late4 /\ s[3] \in C /\ s[4] \in C
  BY <1>4
<1>11. Fits(<<Lead4, C, C, C>>) <=>
         Len(s) = 4 /\ s[1] \in Lead4 /\ s[2] \in C /\ s[3] \in C /\ s[4] \in C
  BY <1>4
<1>12. Fits(<<{244}, Early4, C, C>>) <=>
         Len(s) = 4 /\ s[1] = 244 /\ s[2] \in Early4 /\ s[3] \in C /\ s[4] \in C
  BY <1>4
<1> HIDE DEF Fits
<1>13. IsCharacter(s) <=>
         \/ Len(s) = 1 /\ s[1] \in One
         \/ Len(s) = 2 /\ s[1] \in Two /\ s[2] \in C
         \/ /\ Len(s) = 3 /\ s[3] \in C
            /\ \/ s[1] = 224 /\ s[2] \in Late
               \/ s[1] \in Lead /\ s[2] \in C
               \/ s[1] = 237 /\ s[2] \in Early
         \/ /\ Len(s) = 4 /\ s[3] \in C /\ s[4] \in C
            /\ \/ s[1] = 240 /\ s[2] \in Late4
               \/ s[1] \in Lead4 /\ s[2] \in C
               \/ s[1] = 244 /\ s[2] \in Early4
  BY <1>3, <1>5, <1>6, <1>7, <1>8, <1>9, <1>10, <1>11, <1>12
<1>14. /\ s[1] \in One <=> Between(s[1], 0, 127)
       /\ s[1] \in Two <=> Between(s[1], 194, 223)
       /\ s[1] \in Lead <=> Between(s[1], 225, 236) \/ Between(s[1], 238, 239)
       /\ s[1] \in Lead4 <=> Between(s[1], 241, 243)
  BY <1>0, SMT
<1>15. /\ s[2] \in Late <=> Between(s[2], 160, 191)
       /\ s[2] \in Early <=> Between(s[2], 128, 159)
       /\ s[2] \in Late4 <=> Between(s[2], 144, 191)
       /\ s[2] \in Early4 <=> Between(s[2], 128, 143)
  BY <1>0, SMT
<1>16. /\ s[2] \in C <=> Between(s[2], 128, 191)
       /\ s[3] \in C <=> Between(s[3], 128, 191)
       /\ s[4] \in C <=> Between(s[4], 128, 191)
  BY <1>0, SMT
<1>17. IsCharacter(s) <=>
         \/ Len(s) = 1 /\ Between(s[1], 0, 127)
         \/ Len(s) = 2 /\ Between(s[1], 194, 223) /\ Between(s[2], 128, 191)
         \/ /\ Len(s) = 3 /\ Between(s[3], 128, 191)
            /\ \/ s[1] = 224 /\ Between(s[2], 160, 191)
               \/ /\ Between(s[1], 225, 236) \/ Between(s[1], 238, 239)
                  /\ Between(s[2], 128, 191)
               \/ s[1] = 237 /\ Between(s[2], 128, 159)
         \/ /\ Len(s) = 4 /\ Between(s[3], 128, 191) /\ Between(s[4], 128, 191)
            /\ \/ s[1] = 240 /\ Between(s[2], 144, 191)
               \/ Between(s[1], 241, 243) /\ Between(s[2], 128, 191)
               \/ s[1] = 244 /\ Between(s[2], 128, 143)
  BY <1>13, <1>14, <1>15, <1>16, SMT
<1> QED
  BY <1>17, SMT DEF Row

(* Which of its forms the encoding takes.                                   *)
LEMMA EncodeForms ==
  ASSUME NEW v \in Int
  PROVE  /\ v >= 128 /\ v <= 2047 =>
              utf8_encode(v) = <<192 + v \div 64, 128 + (v % 64)>>
         /\ v >= 2048 /\ v <= 65535 =>
              utf8_encode(v) =
                <<224 + v \div 4096, 128 + ((v \div 64) % 64), 128 + (v % 64)>>
         /\ v >= 65536 /\ v <= LastCodePoint =>
              utf8_encode(v) =
                <<240 + v \div 262144, 128 + ((v \div 4096) % 64),
                  128 + ((v \div 64) % 64), 128 + (v % 64)>>
<1> DEFINE two   == <<192 + v \div 64, 128 + (v % 64)>>
           three == <<224 + v \div 4096, 128 + ((v \div 64) % 64), 128 + (v % 64)>>
           four  == <<240 + v \div 262144, 128 + ((v \div 4096) % 64),
                      128 + ((v \div 64) % 64), 128 + (v % 64)>>
<1>1. utf8_encode(v) =
        IF v < 0 \/ v > LastCodePoint THEN <<>>
        ELSE IF v < 128 THEN <<v>> ELSE IF v < 2048 THEN two
        ELSE IF v < 65536 THEN three ELSE four
  BY DEF utf8_encode
<1> HIDE DEF two, three, four
<1>2. /\ v >= 128 /\ v <= 2047 => utf8_encode(v) = two
      /\ v >= 2048 /\ v <= 65535 => utf8_encode(v) = three
      /\ v >= 65536 /\ v <= LastCodePoint => utf8_encode(v) = four
  BY <1>1 DEF LastCodePoint
<1> QED
  BY <1>2, SMTT(30) DEF two, three, four

(* The numbers behind two, three and four octets: the range that the first  *)
(* and the second of them put the value in, and the way back.               *)
LEMMA TwoOctets ==
  \A a, b : Between(a, 194, 223) /\ Between(b, 128, 191) =>
     /\ ValueOfTwo(a, b) \in Int
     /\ ValueOfTwo(a, b) >= 128 /\ ValueOfTwo(a, b) <= 2047
     /\ utf8_encode(ValueOfTwo(a, b)) = <<a, b>>
<1> SUFFICES ASSUME NEW a \in Int, NEW b \in Int, 194 <= a, a <= 223,
                    128 <= b, b <= 191
             PROVE  /\ ValueOfTwo(a, b) \in Int
                    /\ ValueOfTwo(a, b) >= 128 /\ ValueOfTwo(a, b) <= 2047
                    /\ utf8_encode(ValueOfTwo(a, b)) = <<a, b>>
  BY SMT DEF Between
<1> DEFINE v == ValueOfTwo(a, b)
<1> HIDE DEF v
<1>0. v \in Int /\ v = (a % 32) * 64 + (b % 64)
  BY SMT DEF v, ValueOfTwo
<1>1. v >= 128 /\ v <= 2047
  BY <1>0, SMT
<1>2. 192 + v \div 64 = a /\ 128 + (v % 64) = b
  BY <1>0, SMT
<1>3. utf8_encode(v) = <<192 + v \div 64, 128 + (v % 64)>>
  BY <1>0, <1>1, EncodeForms, SMT
<1>4. utf8_encode(v) = <<a, b>>
  BY <1>2, <1>3, SMTT(30)
<1> QED
  BY <1>0, <1>1, <1>4, SMT DEF v

(* The characters of three octets: their code point, and back.              *)
LEMMA ThreeOctets ==
  \A a, b, c :
     Between(a, 224, 239) /\ Between(b, 128, 191) /\ Between(c, 128, 191) =>
     /\ ValueOfThree(a, b, c) \in Int /\ ValueOfThree(a, b, c) <= 65535
     /\ ValueOfThree(a, b, c) >= 2048 <=> (a = 224 => b >= 160)
     /\ ValueOfThree(a, b, c) >= 55296 /\ ValueOfThree(a, b, c) <= 57343
          <=> a = 237 /\ b >= 160
     /\ ValueOfThree(a, b, c) >= 2048 => utf8_encode(ValueOfThree(a, b, c)) = <<a, b, c>>
<1> SUFFICES ASSUME NEW a \in Int, NEW b \in Int, NEW c \in Int,
                    224 <= a, a <= 239, 128 <= b, b <= 191, 128 <= c, c <= 191
             PROVE
             /\ ValueOfThree(a, b, c) \in Int /\ ValueOfThree(a, b, c) <= 65535
             /\ ValueOfThree(a, b, c) >= 2048 <=> (a = 224 => b >= 160)
             /\ ValueOfThree(a, b, c) >= 55296 /\ ValueOfThree(a, b, c) <= 57343
                  <=> a = 237 /\ b >= 160
             /\ ValueOfThree(a, b, c) >= 2048 => utf8_encode(ValueOfThree(a, b, c)) = <<a, b, c>>
  BY SMT DEF Between
<1> DEFINE v == ValueOfThree(a, b, c)
<1> HIDE DEF v
<1>0. v \in Int /\ v = (a % 16) * 4096 + (b % 64) * 64 + (c % 64)
  BY SMT DEF v, ValueOfThree
<1>1. /\ v <= 65535
      /\ v >= 2048 <=> (a = 224 => b >= 160)
  BY <1>0, SMT
<1>2. v >= 55296 /\ v <= 57343 <=> a = 237 /\ b >= 160
  BY <1>0, SMT
<1>3. 224 + v \div 4096 = a /\ 128 + ((v \div 64) % 64) = b /\ 128 + (v % 64) = c
  BY <1>0, SMT
<1>4. v >= 2048 =>
        utf8_encode(v) =
          <<224 + v \div 4096, 128 + ((v \div 64) % 64), 128 + (v % 64)>>
  BY <1>0, <1>1, EncodeForms, SMT
<1>5. v >= 2048 => utf8_encode(v) = <<a, b, c>>
  BY <1>3, <1>4, SMTT(30)
<1> QED
  BY <1>0, <1>1, <1>2, <1>5, SMT DEF v

(* The characters of four octets: their code point, and back.               *)
LEMMA FourOctets ==
  \A a, b, c, d :
     (Between(a, 240, 244) /\ Between(b, 128, 191)
        /\ Between(c, 128, 191) /\ Between(d, 128, 191)) =>
     /\ ValueOfFour(a, b, c, d) \in Int
     /\ ValueOfFour(a, b, c, d) >= 65536 <=> (a = 240 => b >= 144)
     /\ ValueOfFour(a, b, c, d) <= LastCodePoint <=> (a = 244 => b <= 143)
     /\ ValueOfFour(a, b, c, d) >= 65536 /\ ValueOfFour(a, b, c, d) <= LastCodePoint =>
          utf8_encode(ValueOfFour(a, b, c, d)) = <<a, b, c, d>>
<1> SUFFICES ASSUME NEW a \in Int, NEW b \in Int, NEW c \in Int, NEW d \in Int,
                    240 <= a, a <= 244, 128 <= b, b <= 191, 128 <= c, c <= 191,
                    128 <= d, d <= 191
             PROVE
             /\ ValueOfFour(a, b, c, d) \in Int
             /\ ValueOfFour(a, b, c, d) >= 65536 <=> (a = 240 => b >= 144)
             /\ ValueOfFour(a, b, c, d) <= LastCodePoint <=> (a = 244 => b <= 143)
             /\ ValueOfFour(a, b, c, d) >= 65536 /\ ValueOfFour(a, b, c, d) <= LastCodePoint =>
                  utf8_encode(ValueOfFour(a, b, c, d)) = <<a, b, c, d>>
  BY SMT DEF Between
<1> DEFINE v == ValueOfFour(a, b, c, d)
<1> HIDE DEF v
<1>0. v \in Int /\
        v = (a % 8) * 262144 + (b % 64) * 4096 + (c % 64) * 64 + (d % 64)
  BY SMT DEF v, ValueOfFour
<1>1. /\ v >= 65536 <=> (a = 240 => b >= 144)
      /\ v <= LastCodePoint <=> (a = 244 => b <= 143)
  BY <1>0, SMT DEF LastCodePoint
<1>2. /\ 240 + v \div 262144 = a /\ 128 + ((v \div 4096) % 64) = b
      /\ 128 + ((v \div 64) % 64) = c /\ 128 + (v % 64) = d
  <2> DEFINE p == a % 8  q == b % 64  r == c % 64  t == d % 64
  <2>1. /\ p \in Int /\ 0 <= p /\ p < 8 /\ a = 240 + p
        /\ q \in Int /\ 0 <= q /\ q < 64 /\ b = 128 + q
        /\ r \in Int /\ 0 <= r /\ r < 64 /\ c = 128 + r
        /\ t \in Int /\ 0 <= t /\ t < 64 /\ d = 128 + t
    BY SMT
  <2>2. v = p * 262144 + q * 4096 + r * 64 + t
    BY <1>0, SMT
  <2> HIDE DEF p, q, r, t
  <2>3. v % 64 = t /\ v \div 64 = p * 4096 + q * 64 + r
    BY <1>0, <2>1, <2>2, SMT
  <2>4. v \div 4096 = p * 64 + q
    BY <1>0, <2>1, <2>2, SMT
  <2>5. v \div 262144 = p
    BY <1>0, <2>1, <2>2, SMT
  <2>6. (v \div 64) % 64 = r
    <3> DEFINE w == p * 4096 + q * 64 + r
    <3>1. w % 64 = r
      BY <2>1, SMT
    <3> QED
      BY <2>3, <3>1, SMT
  <2>7. (v \div 4096) % 64 = q
    <3>1. (p * 64 + q) % 64 = q
      BY <2>1, SMT
    <3> QED
      BY <2>4, <3>1, SMT
  <2> QED
    BY <2>1, <2>3, <2>5, <2>6, <2>7, SMT
<1>3. v >= 65536 /\ v <= LastCodePoint =>
        utf8_encode(v) =
          <<240 + v \div 262144, 128 + ((v \div 4096) % 64),
            128 + ((v \div 64) % 64), 128 + (v % 64)>>
  BY <1>0, EncodeForms, SMT
<1>4. v >= 65536 /\ v <= LastCodePoint => utf8_encode(v) = <<a, b, c, d>>
  BY <1>2, <1>3, SMTT(30)
<1> QED
  BY <1>0, <1>1, <1>4, SMT DEF v

(* What the first octet announces, read backwards.                          *)
LEMMA FirstOctet ==
  \A u : Between(u, 0, 255) =>
     /\ utf8_check_first(u) \in Int
     /\ 0 <= utf8_check_first(u) /\ utf8_check_first(u) <= 4
     /\ utf8_check_first(u) = 1 <=> Between(u, 0, 127)
     /\ utf8_check_first(u) = 2 <=> Between(u, 194, 223)
     /\ utf8_check_first(u) = 3 <=> Between(u, 224, 239)
     /\ utf8_check_first(u) = 4 <=> Between(u, 240, 244)
<1> SUFFICES ASSUME NEW u \in Int, 0 <= u, u <= 255
             PROVE
             /\ utf8_check_first(u) \in Int
             /\ 0 <= utf8_check_first(u) /\ utf8_check_first(u) <= 4
             /\ utf8_check_first(u) = 1 <=> Between(u, 0, 127)
             /\ utf8_check_first(u) = 2 <=> Between(u, 194, 223)
             /\ utf8_check_first(u) = 3 <=> Between(u, 224, 239)
             /\ utf8_check_first(u) = 4 <=> Between(u, 240, 244)
  BY SMT DEF Between
<1>1. utf8_check_first(u) =
        IF u < 128 THEN 1
        ELSE IF u \in Span(194, 223) THEN 2
        ELSE IF u \in Span(224, 239) THEN 3
        ELSE IF u \in Span(240, 244) THEN 4
        ELSE 0
  BY SMT DEF utf8_check_first, Span
<1>2. /\ u \in Span(194, 223) <=> Between(u, 194, 223)
      /\ u \in Span(224, 239) <=> Between(u, 224, 239)
      /\ u \in Span(240, 244) <=> Between(u, 240, 244)
  BY SpanIsBetween, SMT
<1> QED
  BY <1>1, <1>2, SMT DEF Between

(* The first octet of a character says how many octets it has.              *)
LEMMA CharacterLength ==
  ASSUME NEW s \in Seq(Octet), IsCharacter(s)
  PROVE  /\ Len(s) \in Int /\ 1 <= Len(s) /\ Len(s) <= 4
         /\ Len(s) = utf8_check_first(s[1])
<1> DEFINE n == Len(s)  u == s[1]  b == s[2]  c == s[3]  d == s[4]
<1>1. Row(n, u, b, c, d)
  BY CharacterRows
<1> HIDE DEF n, u, b, c, d
<1>2. \/ n = 1 /\ Between(u, 0, 127)
      \/ n = 2 /\ Between(u, 194, 223)
      \/ n = 3 /\ Between(u, 224, 239)
      \/ n = 4 /\ Between(u, 240, 244)
  BY <1>1, SMT DEF Row, Between
<1>3. Between(u, 0, 255) /\ n \in Int /\ 1 <= n /\ n <= 4
  BY <1>2, SMT DEF Between
<1>4. n = utf8_check_first(u)
  BY <1>2, <1>3, FirstOctet, SMT
<1> QED
  BY <1>3, <1>4 DEF n, u

(* utf8_check_full accepts exactly the characters, of the octets that the   *)
(* first one announces.                                                     *)
LEMMA FullIsCharacter ==
  ASSUME NEW s \in Seq(Octet), Len(s) > 1, Len(s) = utf8_check_first(s[1])
  PROVE  utf8_check_full(s) <=> IsCharacter(s)
<1> DEFINE v == CodePoint(s)  n == Len(s)
           a == s[1]  b == s[2]  c == s[3]  d == s[4]
<1>0. \A i \in 1 .. n : Between(s[i], 0, 255)
  BY ElementOfSeq, OctetRange
<1>1. n \in Int /\ n > 1 /\ n = utf8_check_first(a) /\ Between(a, 0, 255)
  BY <1>0
<1>2. IsCharacter(s) <=> Row(n, a, b, c, d)
  BY CharacterRows
<1>3. /\ n = 2 => v = ValueOfTwo(a, b)
      /\ n = 3 => v = ValueOfThree(a, b, c)
      /\ n = 4 => v = ValueOfFour(a, b, c, d)
  BY CodePointValue
<1>4. /\ n = 2 => Between(b, 0, 255)
      /\ n = 3 => Between(b, 0, 255) /\ Between(c, 0, 255)
      /\ n = 4 => Between(b, 0, 255) /\ Between(c, 0, 255) /\ Between(d, 0, 255)
  <2> HIDE DEF n
  <2>1. /\ n = 2 => 2 \in 1 .. n
        /\ n = 3 => 2 \in 1 .. n /\ 3 \in 1 .. n
        /\ n = 4 => 2 \in 1 .. n /\ 3 \in 1 .. n /\ 4 \in 1 .. n
    OBVIOUS
  <2> QED
    BY <1>0, <2>1
<1>5. /\ n = 2 => (utf8_check_full(s) <=>
                    /\ b \in Continuation
                    /\ v <= LastCodePoint /\ v \notin Surrogate /\ v >= 128)
      /\ n = 3 => (utf8_check_full(s) <=>
                    /\ b \in Continuation /\ c \in Continuation
                    /\ v <= LastCodePoint /\ v \notin Surrogate /\ v >= 2048)
      /\ n = 4 => (utf8_check_full(s) <=>
                    /\ b \in Continuation /\ c \in Continuation
                    /\ d \in Continuation
                    /\ v <= LastCodePoint /\ v \notin Surrogate /\ v >= 65536)
  <2>1. utf8_check_full(s) <=>
          /\ n \in 2 .. 4
          /\ \A i \in 2 .. n : s[i] \in Continuation
          /\ v <= LastCodePoint /\ v \notin Surrogate
          /\ v >= <<0, 128, 2048, 65536>>[n]
    BY SMT DEF utf8_check_full
  <2> HIDE DEF n, v
  <2>2. 2 .. 2 = {2} /\ 2 .. 3 = {2, 3} /\ 2 .. 4 = {2, 3, 4}
    BY SMT
  <2> QED
    BY <2>1, <2>2, SMT
<1>6. \/ n = 2 /\ Between(a, 194, 223)
      \/ n = 3 /\ Between(a, 224, 239)
      \/ n = 4 /\ Between(a, 240, 244)
  <2> HIDE DEF n, a
  <2> QED
    BY <1>1, FirstOctet, SMT
<1> HIDE DEF n, v, a, b, c, d
<1>7. \A u : u \in Continuation <=> Between(u, 128, 191)
  BY ContinuationRange
<1>8. CASE n = 2
  <2>1. Between(a, 194, 223)
    BY <1>6, <1>8, SMT
  <2>2. ASSUME Between(b, 128, 191)
        PROVE  v <= LastCodePoint /\ v \notin Surrogate /\ v >= 128
    <3>1. v \in Int /\ v >= 128 /\ v <= 2047
      BY <1>3, <1>8, <2>1, <2>2, TwoOctets, SMT
    <3> QED
      BY <3>1, SurrogateRange, SMT DEF LastCodePoint, Between
  <2>3. utf8_check_full(s) <=> Between(b, 128, 191)
    BY <1>5, <1>7, <1>8, <2>2, SMT
  <2>4. Row(n, a, b, c, d) <=> Between(b, 128, 191)
    BY <1>8, <2>1, SMT DEF Row
  <2> QED
    BY <1>2, <2>3, <2>4
<1>9. CASE n = 3
  <2>1. Between(a, 224, 239)
    BY <1>6, <1>9, SMT
  <2>2. ASSUME Between(b, 128, 191), Between(c, 128, 191)
        PROVE  /\ v <= LastCodePoint
               /\ v >= 2048 <=> (a = 224 => b >= 160)
               /\ v \in Surrogate <=> a = 237 /\ b >= 160
    <3>1. /\ v \in Int /\ v <= 65535
          /\ v >= 2048 <=> (a = 224 => b >= 160)
          /\ v >= 55296 /\ v <= 57343 <=> a = 237 /\ b >= 160
      BY <1>3, <1>9, <2>1, <2>2, ThreeOctets, SMT
    <3> QED
      BY <3>1, SurrogateRange, SMT DEF LastCodePoint, Between
  <2>3. utf8_check_full(s) <=>
          /\ Between(b, 128, 191) /\ Between(c, 128, 191)
          /\ (a = 224 => b >= 160) /\ ~(a = 237 /\ b >= 160)
    BY <1>5, <1>7, <1>9, <2>2, SMT
  <2>4. Row(n, a, b, c, d) <=>
          /\ Between(b, 128, 191) /\ Between(c, 128, 191)
          /\ (a = 224 => b >= 160) /\ ~(a = 237 /\ b >= 160)
    BY <1>9, <2>1, SMT DEF Row, Between
  <2> QED
    BY <1>2, <2>3, <2>4
<1>10. CASE n = 4
  <2>1. Between(a, 240, 244)
    BY <1>6, <1>10, SMT
  <2>2. ASSUME Between(b, 128, 191), Between(c, 128, 191), Between(d, 128, 191)
        PROVE  /\ v >= 65536 <=> (a = 240 => b >= 144)
               /\ v <= LastCodePoint <=> (a = 244 => b <= 143)
               /\ v >= 65536 => v \notin Surrogate
    <3>1. /\ v \in Int
          /\ v >= 65536 <=> (a = 240 => b >= 144)
          /\ v <= LastCodePoint <=> (a = 244 => b <= 143)
      BY <1>3, <1>10, <2>1, <2>2, FourOctets, SMT
    <3> QED
      BY <3>1, SurrogateRange, SMT DEF Between
  <2>3. utf8_check_full(s) <=>
          /\ Between(b, 128, 191) /\ Between(c, 128, 191) /\ Between(d, 128, 191)
          /\ (a = 240 => b >= 144) /\ (a = 244 => b <= 143)
    BY <1>5, <1>7, <1>10, <2>2, SMT
  <2>4. Row(n, a, b, c, d) <=>
          /\ Between(b, 128, 191) /\ Between(c, 128, 191) /\ Between(d, 128, 191)
          /\ (a = 240 => b >= 144) /\ (a = 244 => b <= 143)
    BY <1>10, <2>1, SMT DEF Row, Between
  <2> QED
    BY <1>2, <2>3, <2>4
<1> QED
  BY <1>6, <1>8, <1>9, <1>10

(* Encoding the code point of a character gives the character back.         *)
LEMMA EncodeIsInverse ==
  ASSUME NEW s \in Seq(Octet), IsCharacter(s), Len(s) > 1
  PROVE  utf8_encode(CodePoint(s)) = s
<1> DEFINE v == CodePoint(s)  n == Len(s)
           a == s[1]  b == s[2]  c == s[3]  d == s[4]
<1>1. Row(n, a, b, c, d) /\ n \in Int /\ n > 1
  BY CharacterRows
<1>2. /\ n = 2 => v = ValueOfTwo(a, b)
      /\ n = 3 => v = ValueOfThree(a, b, c)
      /\ n = 4 => v = ValueOfFour(a, b, c, d)
  BY CodePointValue
<1>3. /\ n = 2 => s = <<a, b>>
      /\ n = 3 => s = <<a, b, c>>
      /\ n = 4 => s = <<a, b, c, d>>
  OBVIOUS
<1> HIDE DEF v, n, a, b, c, d
<1>4. n = 2 \/ n = 3 \/ n = 4
  BY <1>1, SMT DEF Row
<1>5. CASE n = 2
  <2>1. Between(a, 194, 223) /\ Between(b, 128, 191)
    BY <1>1, <1>5, SMT DEF Row
  <2>2. utf8_encode(v) = <<a, b>>
    BY <1>2, <1>5, <2>1, TwoOctets, SMT
  <2> QED
    BY <1>3, <1>5, <2>2 DEF v
<1>6. CASE n = 3
  <2>1. /\ Between(a, 224, 239) /\ Between(b, 128, 191) /\ Between(c, 128, 191)
        /\ a = 224 => b >= 160
    BY <1>1, <1>6, SMT DEF Row, Between
  <2>2. utf8_encode(v) = <<a, b, c>>
    BY <1>2, <1>6, <2>1, ThreeOctets, SMT
  <2> QED
    BY <1>3, <1>6, <2>2 DEF v
<1>7. CASE n = 4
  <2>1. /\ Between(a, 240, 244) /\ Between(b, 128, 191)
        /\ Between(c, 128, 191) /\ Between(d, 128, 191)
        /\ a = 240 => b >= 144
        /\ a = 244 => b <= 143
    BY <1>1, <1>7, SMT DEF Row, Between
  <2>2. utf8_encode(v) = <<a, b, c, d>>
    BY <1>2, <1>7, <2>1, FourOctets, SMT
  <2> QED
    BY <1>3, <1>7, <2>2 DEF v
<1> QED
  BY <1>4, <1>5, <1>6, <1>7 DEF v

-----------------------------------------------------------------------------
(* A set of naturals has a least element: induction, for what the checks of *)
(* whole strings compute.                                                   *)
LEMMA LeastNumber ==
  ASSUME NEW T, T \subseteq Nat, T # {}
  PROVE  \E n \in T : \A m \in T : n <= m
<1> DEFINE R == OpToRel(<, Nat)
<1>1. IsWellFoundedOn(R, Nat)
  BY NatLessThanWellFounded
<1>2. \A x, y \in Nat : <<y, x>> \in R <=> y < x
  BY DEF OpToRel
<1> HIDE DEF R
<1>3. PICK n \in T : \A y \in T : ~ (<<y, n>> \in R)
  BY <1>1, WFMin
<1>4. ASSUME NEW m \in T
      PROVE  n <= m
  <2>1. ~ (m < n)
    BY <1>2, <1>3
  <2> QED
    BY <2>1
<1> QED
  BY <1>4

(* The n octets of s from i on are a character.                             *)
Piece(s, i, n) ==
  /\ n \in 1 .. 4
  /\ i + n - 1 <= Len(s)
  /\ IsCharacter(SubSeq(s, i, i + n - 1))

(* A part of a text is text.                                                *)
LEMMA PartOfText ==
  ASSUME NEW s \in Seq(Octet), NEW i \in Int, NEW n \in Int,
         1 <= i, 1 <= n, i + n - 1 <= Len(s)
  PROVE  LET q == SubSeq(s, i, i + n - 1)
         IN /\ q \in Seq(Octet) /\ Len(q) = n
            /\ \A j \in 1 .. n : q[j] = s[i + j - 1]
            /\ q[1] = s[i]
<1> DEFINE m == i + n - 1  q == SubSeq(s, i, m)
<1>0. m \in Int /\ i <= m /\ Len(s) \in Nat
  OBVIOUS
<1>1. \A j \in i .. m : s[j] \in Octet
  <2> SUFFICES ASSUME NEW j \in i .. m
               PROVE  s[j] \in Octet
    OBVIOUS
  <2>1. j \in 1 .. Len(s)
    BY <1>0
  <2> QED
    BY <2>1, ElementOfSeq
<1> HIDE DEF m
<1>2. /\ q \in Seq(Octet)
      /\ Len(q) = IF i <= m THEN m - i + 1 ELSE 0
      /\ \A j \in 1 .. m - i + 1 : q[j] = s[i + j - 1]
  BY <1>0, <1>1, SubSeqProperties
<1> HIDE DEF q
<1>3. m - i + 1 = n
  BY DEF m
<1>4. q[1] = s[i]
  <2>1. 1 \in 1 .. m - i + 1 /\ i + 1 - 1 = i
    BY <1>0, <1>3
  <2> QED
    BY <1>2, <2>1
<1> QED
  BY <1>0, <1>2, <1>3, <1>4 DEF m, q

(* The character at i, if there is one, is what utf8_iterate finds.         *)
LEMMA PieceIsIterate ==
  ASSUME NEW s \in Seq(Octet), NEW i \in 1 .. Len(s)
  PROVE  /\ utf8_iterate(s, i) \in Int
         /\ \A n : Piece(s, i, n) <=> n = utf8_iterate(s, i) /\ n > 0
<1> DEFINE u == s[i]  count == utf8_check_first(u)
           q(n) == SubSeq(s, i, i + n - 1)
<1>0. i \in Int /\ 1 <= i /\ i <= Len(s) /\ Len(s) \in Int
  OBVIOUS
<1>1. Between(u, 0, 255)
  BY ElementOfSeq, OctetRange
<1>2. count \in Int /\ 0 <= count /\ count <= 4
  BY <1>1, FirstOctet, SMT
<1>3. ASSUME NEW n \in Int, 1 <= n, i + n - 1 <= Len(s)
      PROVE  q(n) \in Seq(Octet) /\ Len(q(n)) = n /\ q(n)[1] = u
  BY <1>0, <1>3, PartOfText
<1>4. utf8_iterate(s, i) =
        IF \/ count = 1
           \/ count > 1 /\ count <= Len(s) - i + 1 /\ utf8_check_full(q(count))
        THEN count ELSE 0
  BY SMT DEF utf8_iterate
<1>5. ASSUME NEW n, Piece(s, i, n)
      PROVE  n = count /\ count > 0 /\ count <= Len(s) - i + 1
             /\ (count > 1 => utf8_check_full(q(count)))
  <2>1. n \in Int /\ 1 <= n /\ i + n - 1 <= Len(s) /\ IsCharacter(q(n))
    BY <1>5 DEF Piece
  <2>2. q(n) \in Seq(Octet) /\ Len(q(n)) = n /\ q(n)[1] = u
    BY <1>3, <2>1
  <2> HIDE DEF q, u
  <2>3. n = count
    BY <2>1, <2>2, CharacterLength
  <2> HIDE DEF count
  <2>4. count > 1 => utf8_check_full(q(count))
    BY <2>1, <2>2, <2>3, FullIsCharacter DEF count
  <2> QED
    BY <1>0, <1>2, <2>1, <2>3, <2>4
<1>6. ASSUME count = 1
      PROVE  Piece(s, i, 1)
  <2>1. q(1) \in Seq(Octet) /\ Len(q(1)) = 1 /\ q(1)[1] = u
    BY <1>0, <1>3
  <2>2. Between(u, 0, 127)
    BY <1>1, <1>6, FirstOctet, SMT
  <2> HIDE DEF q, u
  <2>3. Row(1, u, q(1)[2], q(1)[3], q(1)[4])
    BY <2>2, SMT DEF Row
  <2>4. IsCharacter(q(1))
    BY <2>1, <2>3, CharacterRows
  <2> QED
    BY <1>0, <2>4 DEF Piece, q
<1>7. ASSUME count > 1, count <= Len(s) - i + 1, utf8_check_full(q(count))
      PROVE  Piece(s, i, count)
  <2>1. i + count - 1 <= Len(s) /\ count \in 1 .. 4
    <3> HIDE DEF count
    <3> QED
      BY <1>0, <1>2, <1>7
  <2>2. q(count) \in Seq(Octet) /\ Len(q(count)) = count /\ q(count)[1] = u
    <3>1. count \in Int /\ 1 <= count
      BY <1>2, <1>7
    <3> HIDE DEF count, q, u
    <3> QED
      BY <1>3, <2>1, <3>1
  <2>3. IsCharacter(q(count))
    <3> HIDE DEF q, u
    <3> QED
      BY <1>7, <2>2, FullIsCharacter
  <2> QED
    BY <2>1, <2>3 DEF Piece
<1> HIDE DEF count, q
<1>8. utf8_iterate(s, i) \in Int
  BY <1>2, <1>4
<1>9. ASSUME NEW n, Piece(s, i, n)
      PROVE  n = utf8_iterate(s, i) /\ n > 0
  BY <1>2, <1>4, <1>5, <1>9
<1>10. ASSUME NEW n, n = utf8_iterate(s, i), n > 0
       PROVE  Piece(s, i, n)
  BY <1>2, <1>4, <1>6, <1>7, <1>10
<1> QED
  BY <1>8, <1>9, <1>10

(* Where the rest of a text is text: what IsUTF8 computes from each place.  *)
Valid(s, f) ==
  /\ f \in [1 .. Len(s) + 1 -> BOOLEAN]
  /\ \A i \in 1 .. Len(s) + 1 :
        f[i] <=> i = Len(s) + 1 \/ \E n : Piece(s, i, n) /\ f[i + n]

(* A piece lies within the text and has at least one octet.                 *)
LEMMA PieceBounds ==
  ASSUME NEW s \in Seq(Octet), NEW i \in 1 .. Len(s) + 1, NEW n, Piece(s, i, n)
  PROVE  /\ i \in 1 .. Len(s) /\ n \in Int /\ 1 <= n
         /\ i + n \in 1 .. Len(s) + 1
BY DEF Piece

(* There is such a function: the places that every set closed under putting *)
(* a character in front contains.                                           *)
LEMMA ValidExists ==
  ASSUME NEW s \in Seq(Octet)
  PROVE  \E f : Valid(s, f)
<1> DEFINE D == 1 .. Len(s) + 1
           Closed(S) == /\ Len(s) + 1 \in S
                        /\ \A i \in D : \A n :
                             Piece(s, i, n) /\ i + n \in S => i \in S
           f == [i \in D |-> \A S \in SUBSET D : Closed(S) => i \in S]
<1>0. Len(s) + 1 \in D
  OBVIOUS
<1>1. ASSUME NEW i \in D,
             i = Len(s) + 1 \/ \E n : Piece(s, i, n) /\ f[i + n]
      PROVE  f[i]
  <2> SUFFICES ASSUME NEW S \in SUBSET D, Closed(S)
               PROVE  i \in S
    OBVIOUS
  <2>1. CASE i = Len(s) + 1
    BY <2>1
  <2>2. ASSUME NEW n, Piece(s, i, n), f[i + n]
        PROVE  i \in S
    <3>1. i + n \in D
      BY <2>2, PieceBounds
    <3>2. i + n \in S
      BY <2>2, <3>1
    <3> QED
      BY <2>2, <3>2
  <2> QED
    BY <1>1, <2>1, <2>2
<1>2. ASSUME NEW i \in D, f[i]
      PROVE  i = Len(s) + 1 \/ \E n : Piece(s, i, n) /\ f[i + n]
  <2> SUFFICES ASSUME i # Len(s) + 1, ~ \E n : Piece(s, i, n) /\ f[i + n]
               PROVE  FALSE
    OBVIOUS
  <2> DEFINE S == {j \in D : f[j]} \ {i}
  <2>1. f[Len(s) + 1]
    BY <1>0, <1>1
  <2>2. ASSUME NEW j \in D, NEW n, Piece(s, j, n), j + n \in S
        PROVE  j \in S
    <3>1. f[j + n]
      BY <2>2
    <3>2. f[j]
      BY <1>1, <2>2, <3>1
    <3>3. j # i
      BY <2>2, <3>1
    <3> HIDE DEF f
    <3> QED
      BY <3>2, <3>3
  <2>3. Closed(S)
    <3> HIDE DEF f
    <3>1. Len(s) + 1 \in S
      BY <1>0, <2>1
    <3> HIDE DEF S
    <3> QED
      BY <2>2, <3>1
  <2>4. S \in SUBSET D /\ i \notin S
    <3> HIDE DEF f
    <3> QED
      OBVIOUS
  <2>5. i \in S
    <3> HIDE DEF S, Closed
    <3> QED
      BY <1>2, <2>3, <2>4
  <2> QED
    BY <2>4, <2>5
<1>3. f \in [D -> BOOLEAN]
  OBVIOUS
<1> HIDE DEF f
<1> QED
  BY <1>1, <1>2, <1>3 DEF Valid

(* And there is only one: by the distance to the end.                       *)
LEMMA ValidUnique ==
  ASSUME NEW s \in Seq(Octet), NEW f, NEW g, Valid(s, f), Valid(s, g)
  PROVE  f = g
<1> DEFINE D == 1 .. Len(s) + 1
           T == {k \in Nat : \E i \in D : k = Len(s) + 1 - i /\ ~ (f[i] <=> g[i])}
<1>1. \A i \in D : f[i] <=> g[i]
  <2> SUFFICES ASSUME T # {} PROVE FALSE
    <3>1. ASSUME NEW i \in D, ~ (f[i] <=> g[i])
          PROVE  Len(s) + 1 - i \in T
      <4>1. Len(s) + 1 - i \in Nat
        OBVIOUS
      <4> QED
        BY <3>1, <4>1
    <3> HIDE DEF T
    <3> QED
      BY <3>1
  <2>1. PICK k \in T : \A m \in T : k <= m
    <3>1. T \subseteq Nat
      OBVIOUS
    <3> HIDE DEF T
    <3> QED
      BY <3>1, LeastNumber
  <2>2. PICK i \in D : k = Len(s) + 1 - i /\ ~ (f[i] <=> g[i])
    BY <2>1
  <2>3. ASSUME NEW n, Piece(s, i, n)
        PROVE  f[i + n] <=> g[i + n]
    <3>1. i + n \in D /\ n \in Int /\ 1 <= n /\ i \in Int
      BY <2>3, PieceBounds
    <3>2. Len(s) + 1 - (i + n) \in Nat /\ ~ (k <= Len(s) + 1 - (i + n))
      <4>1. i + n \in Int /\ i + n <= Len(s) + 1 /\ Len(s) \in Int
        BY <3>1
      <4> QED
        BY <2>2, <3>1, <4>1
    <3>3. Len(s) + 1 - (i + n) \notin T
      <4> HIDE DEF T
      <4> QED
        BY <2>1, <3>2
    <3> QED
      BY <3>1, <3>2, <3>3
  <2>4. /\ f[i] <=> i = Len(s) + 1 \/ \E n : Piece(s, i, n) /\ f[i + n]
        /\ g[i] <=> i = Len(s) + 1 \/ \E n : Piece(s, i, n) /\ g[i + n]
    <3> HIDE DEF T
    <3> QED
      BY DEF Valid
  <2> HIDE DEF T
  <2> QED
    BY <2>2, <2>3, <2>4
<1>2. f \in [D -> BOOLEAN] /\ g \in [D -> BOOLEAN]
  BY DEF Valid
<1> HIDE DEF D
<1> QED
  BY <1>1, <1>2

(* What IsUTF8 and utf8_check_string compute.                               *)
LEMMA TextIsValid ==
  ASSUME NEW s \in Seq(Octet), NEW f, Valid(s, f)
  PROVE  IsUTF8(s) = f[1] /\ utf8_check_string(s) = f[1] /\ f[1] \in BOOLEAN
<1> DEFINE D == 1 .. Len(s) + 1
           U(h) == h = [i \in D |->
                          \/ i = Len(s) + 1
                          \/ \E n \in 1 .. 4 :
                                /\ i + n - 1 <= Len(s)
                                /\ IsCharacter(SubSeq(s, i, i + n - 1))
                                /\ h[i + n]]
           C(h) == h = [i \in D |->
                          \/ i = Len(s) + 1
                          \/ /\ utf8_iterate(s, i) > 0
                             /\ h[i + utf8_iterate(s, i)]]
<1>0. 1 \in D
  OBVIOUS
<1>1. IsUTF8(s) = (CHOOSE h : U(h))[1]
  BY DEF IsUTF8
<1>2. utf8_check_string(s) = (CHOOSE h : C(h))[1]
  BY DEF utf8_check_string
<1>3. ASSUME NEW h
      PROVE  U(h) <=> Valid(s, h)
  <2> DEFINE P(i) == \/ i = Len(s) + 1
                     \/ \E n \in 1 .. 4 :
                           /\ i + n - 1 <= Len(s)
                           /\ IsCharacter(SubSeq(s, i, i + n - 1))
                           /\ h[i + n]
  <2>1. ASSUME NEW i \in D
        PROVE  P(i) <=> i = Len(s) + 1 \/ \E n : Piece(s, i, n) /\ h[i + n]
    BY Zenon DEF Piece
  <2>2. U(h) <=> h = [i \in D |-> P(i)]
    OBVIOUS
  <2>3. \A i \in D : P(i) \in BOOLEAN
    OBVIOUS
  <2> HIDE DEF P, U
  <2>4. h = [i \in D |-> P(i)] <=>
          h \in [D -> BOOLEAN] /\ \A i \in D : h[i] <=> P(i)
    <3> HIDE DEF D
    <3> QED
      BY <2>3
  <2> QED
    BY <2>1, <2>2, <2>4 DEF Valid
<1>4. ASSUME NEW h
      PROVE  C(h) <=> Valid(s, h)
  <2> DEFINE P(i) == \/ i = Len(s) + 1
                     \/ utf8_iterate(s, i) > 0 /\ h[i + utf8_iterate(s, i)]
  <2>1. ASSUME NEW i \in D
        PROVE  P(i) <=> i = Len(s) + 1 \/ \E n : Piece(s, i, n) /\ h[i + n]
    <3>1. CASE i = Len(s) + 1
      BY <3>1
    <3>2. CASE i # Len(s) + 1
      <4>1. i \in 1 .. Len(s)
        BY <3>2
      <4>2. \A n : Piece(s, i, n) <=> n = utf8_iterate(s, i) /\ n > 0
        BY <4>1, PieceIsIterate
      <4> QED
        BY <3>2, <4>2
    <3> QED
      BY <3>1, <3>2
  <2>2. C(h) <=> h = [i \in D |-> P(i)]
    OBVIOUS
  <2>3. \A i \in D : P(i) \in BOOLEAN
    OBVIOUS
  <2> HIDE DEF P, C
  <2>4. h = [i \in D |-> P(i)] <=>
          h \in [D -> BOOLEAN] /\ \A i \in D : h[i] <=> P(i)
    <3> HIDE DEF D
    <3> QED
      BY <2>3
  <2> QED
    BY <2>1, <2>2, <2>4 DEF Valid
<1> HIDE DEF U, C
<1>5. (CHOOSE h : U(h)) = f
  <2>1. U(CHOOSE h : U(h))
    BY <1>3
  <2> QED
    BY <1>3, <2>1, ValidUnique
<1>6. (CHOOSE h : C(h)) = f
  <2>1. C(CHOOSE h : C(h))
    BY <1>4
  <2> QED
    BY <1>4, <2>1, ValidUnique
<1>7. f[1] \in BOOLEAN
  BY <1>0 DEF Valid
<1> QED
  BY <1>1, <1>2, <1>5, <1>6, <1>7

(* A text stays text exactly when a character is put behind it, of octets   *)
(* that are as many as their first one announces, or of one that announces  *)
(* none.                                                                    *)
LEMMA TextAppended ==
  ASSUME NEW t \in Seq(Octet), NEW e \in Seq(Octet), IsUTF8(t), e # <<>>,
         \/ Len(e) = utf8_check_first(e[1])
         \/ Len(e) = 1 /\ utf8_check_first(e[1]) = 0
  PROVE  IsUTF8(t \o e) <=> IsCharacter(e)
<1> DEFINE s == t \o e  L == Len(t)  M == Len(e)
<1>0. /\ s \in Seq(Octet) /\ Len(s) = L + M /\ L \in Nat /\ M \in Nat /\ M >= 1
      /\ \A i \in 1 .. L + M : s[i] = IF i <= L THEN t[i] ELSE e[i - L]
  BY ConcatProperties, EmptySeq
<1>1. PICK f : Valid(t, f)
  BY ValidExists
<1>2. PICK g : Valid(s, g)
  BY <1>0, ValidExists
<1>3. ASSUME NEW i \in 1 .. L, NEW n, Piece(t, i, n)
      PROVE  Piece(s, i, n)
  <2>1. /\ n \in Int /\ 1 <= n /\ i \in 1 .. L /\ i + n \in 1 .. L + 1
        /\ n \in 1 .. 4
    BY <1>3, PieceBounds DEF Piece
  <2>2. i + n - 1 \in 1 .. L
    BY <1>0, <2>1
  <2>3. SubSeq(s, i, i + n - 1) = SubSeq(t, i, i + n - 1)
    BY <2>2, SubSeqOfConcat1
  <2>4. i + n - 1 <= Len(s)
    BY <1>0, <2>1
  <2> HIDE DEF s
  <2> QED
    BY <1>3, <2>1, <2>3, <2>4 DEF Piece
<1>4. ASSUME NEW i \in 1 .. Len(s), NEW n, NEW m, Piece(s, i, n), Piece(s, i, m)
      PROVE  n = m
  <2> HIDE DEF s
  <2>1. \A k : Piece(s, i, k) <=> k = utf8_iterate(s, i) /\ k > 0
    BY <1>0, PieceIsIterate
  <2> QED
    BY <1>4, <2>1
<1>5. g[L + 1] <=> IsCharacter(e)
  <2>1. L + 1 \in 1 .. Len(s) + 1 /\ L + 1 # Len(s) + 1
        /\ Len(s) + 1 \in 1 .. Len(s) + 1
    BY <1>0
  <2>2. g[L + 1] <=> \E n : Piece(s, L + 1, n) /\ g[L + 1 + n]
    BY <1>2, <2>1 DEF Valid
  <2>3. ASSUME NEW n \in Int, 1 <= n, n <= M
        PROVE  SubSeq(s, L + 1, L + 1 + n - 1) = SubSeq(e, 1, n)
    <3>1. /\ L + 1 \in L + 1 .. L + M /\ L + 1 + n - 1 \in L + 1 .. L + M
          /\ L + 1 - L = 1 /\ L + 1 + n - 1 - L = n
      BY <1>0, <2>3
    <3> QED
      BY <3>1, SubSeqOfConcat2
  <2>4. ASSUME NEW n, Piece(s, L + 1, n)
        PROVE  IsCharacter(e)
    <3>1. n \in Int /\ 1 <= n /\ n <= M
      <4>1. /\ n \in Int /\ 1 <= n /\ L + 1 + n \in 1 .. Len(s) + 1
        BY <1>0, <2>1, <2>4, PieceBounds
      <4> QED
        BY <1>0, <4>1
    <3>2. IsCharacter(SubSeq(e, 1, n))
      BY <2>3, <2>4, <3>1 DEF Piece
    <3>3. /\ SubSeq(e, 1, n) \in Seq(Octet) /\ Len(SubSeq(e, 1, n)) = n
          /\ SubSeq(e, 1, n)[1] = e[1]
      <4>1. 1 + n - 1 = n
        BY <3>1
      <4> QED
        BY <3>1, <4>1, PartOfText
    <3>4. n = utf8_check_first(e[1])
      BY <3>2, <3>3, CharacterLength
    <3>5. n = M
      BY <3>1, <3>4
    <3>6. SubSeq(e, 1, n) = e
      BY <3>5, SubSeqFull
    <3> QED
      BY <3>2, <3>6
  <2>5. ASSUME IsCharacter(e)
        PROVE  Piece(s, L + 1, M) /\ g[L + 1 + M]
    <3>1. M \in 1 .. 4
      <4>1. M \in Int /\ 1 <= M /\ M <= 4
        BY <2>5, CharacterLength
      <4> HIDE DEF M
      <4> QED
        BY <4>1
    <3>2. SubSeq(s, L + 1, L + 1 + M - 1) = e
      BY <1>0, <2>3, SubSeqFull
    <3>3. Piece(s, L + 1, M)
      <4>1. L + 1 + M - 1 <= Len(s)
        BY <1>0
      <4> HIDE DEF s, L, M
      <4> QED
        BY <2>5, <3>1, <3>2, <4>1 DEF Piece
    <3>4. g[Len(s) + 1]
      BY <1>2, <2>1 DEF Valid
    <3>5. L + 1 + M = Len(s) + 1
      BY <1>0
    <3> QED
      BY <3>3, <3>4, <3>5
  <2> HIDE DEF s, L, M
  <2> QED
    BY <2>2, <2>4, <2>5
<1>6. \A i \in 1 .. L + 1 : f[i] => (g[i] <=> g[L + 1])
  <2> DEFINE T == {k \in Nat : \E i \in 1 .. L + 1 :
                     k = L + 1 - i /\ f[i] /\ ~ (g[i] <=> g[L + 1])}
  <2> SUFFICES ASSUME T # {} PROVE FALSE
    <3>1. ASSUME NEW i \in 1 .. L + 1, f[i], ~ (g[i] <=> g[L + 1])
          PROVE  L + 1 - i \in T
      <4>1. L + 1 - i \in Nat
        BY <1>0
      <4> QED
        BY <3>1, <4>1
    <3> HIDE DEF T
    <3> QED
      BY <3>1
  <2>1. PICK k \in T : \A m \in T : k <= m
    <3>1. T \subseteq Nat
      OBVIOUS
    <3> HIDE DEF T
    <3> QED
      BY <3>1, LeastNumber
  <2>2. PICK i \in 1 .. L + 1 : k = L + 1 - i /\ f[i] /\ ~ (g[i] <=> g[L + 1])
    BY <2>1
  <2>3. i # L + 1 /\ i \in 1 .. L /\ i \in 1 .. Len(s) /\ i # Len(s) + 1
        /\ i \in 1 .. Len(s) + 1
    <3>1. i # L + 1
      BY <2>2
    <3> HIDE DEF s, L, M
    <3> QED
      BY <1>0, <3>1
  <2>4. PICK n : Piece(t, i, n) /\ f[i + n]
    BY <1>1, <2>2, <2>3 DEF Valid
  <2>5. /\ n \in Int /\ 1 <= n /\ i \in Int /\ i + n \in 1 .. L + 1
    BY <2>3, <2>4, PieceBounds
  <2>6. g[i + n] <=> g[L + 1]
    <3>1. L + 1 - (i + n) \in Nat /\ ~ (k <= L + 1 - (i + n))
      <4>1. i + n \in Int /\ i + n <= L + 1 /\ L \in Int
        BY <2>5, <1>0
      <4> QED
        BY <2>2, <2>5, <4>1
    <3>2. L + 1 - (i + n) \notin T
      <4> HIDE DEF T
      <4> QED
        BY <2>1, <3>1
    <3> QED
      BY <2>4, <2>5, <3>1, <3>2
  <2>7. g[i] <=> g[i + n]
    <3>1. g[i] <=> \E m : Piece(s, i, m) /\ g[i + m]
      BY <1>2, <2>3 DEF Valid
    <3>2. Piece(s, i, n)
      BY <1>3, <2>3, <2>4
    <3> HIDE DEF s, L, M
    <3> QED
      BY <1>4, <2>3, <3>1, <3>2
  <2> HIDE DEF T
  <2> QED
    BY <2>2, <2>6, <2>7
<1>7. IsUTF8(t) = f[1] /\ IsUTF8(s) = g[1] /\ 1 \in 1 .. L + 1
  <2>1. 1 \in 1 .. L + 1
    BY <1>0
  <2> HIDE DEF s
  <2> QED
    BY <1>0, <1>1, <1>2, <2>1, TextIsValid
<1> QED
  BY <1>5, <1>6, <1>7

(* Nothing is text.                                                         *)
LEMMA EmptyIsText == IsUTF8(<<>>)
<1>1. <<>> \in Seq(Octet) /\ Len(<<>>) + 1 = 1 /\ 1 \in 1 .. 1
  BY EmptySeq
<1>2. PICK f : Valid(<<>>, f)
  BY <1>1, ValidExists
<1>3. f[1]
  BY <1>1, <1>2 DEF Valid
<1> QED
  BY <1>1, <1>2, <1>3, TextIsValid

-----------------------------------------------------------------------------
(* The octets that a character may have: no status, and the first ones of   *)
(* characters are those that do not continue one.                           *)
Carried(u) == Between(u, 0, 191) \/ Between(u, 194, 244)

(* Every octet of a character is one of them.                               *)
LEMMA CharacterOctets ==
  ASSUME NEW s \in Seq(Octet), IsCharacter(s), NEW i \in 1 .. Len(s)
  PROVE  Carried(s[i])
<1> DEFINE n == Len(s)  a == s[1]  b == s[2]  c == s[3]  d == s[4]
<1>1. Row(n, a, b, c, d)
  BY CharacterRows
<1>2. /\ i = 1 => s[i] = a
      /\ i = 2 => s[i] = b
      /\ i = 3 => s[i] = c
      /\ i = 4 => s[i] = d
  OBVIOUS
<1>3. n \in Int /\ 1 <= n /\ n <= 4 /\ i \in Int /\ 1 <= i /\ i <= n
  BY CharacterLength
<1> HIDE DEF n, a, b, c, d
<1>4. /\ Carried(a)
      /\ n >= 2 => Carried(b)
      /\ n >= 3 => Carried(c)
      /\ n >= 4 => Carried(d)
  BY <1>1, SMT DEF Row, Carried, Between
<1>5. i = 1 \/ i = 2 \/ i = 3 \/ i = 4
  BY <1>3
<1> QED
  BY <1>2, <1>3, <1>4, <1>5

(* None of them is taken for a status, and those that continue no character *)
(* start one.                                                               *)
LEMMA CarriedOctets ==
  \A u : Carried(u) =>
     /\ u \in Octet /\ u \notin {254, 255}
     /\ utf8_check_first(u) > 0 <=> u \notin Continuation
<1> SUFFICES ASSUME NEW u, Carried(u)
             PROVE  /\ u \in Octet /\ u \notin {254, 255}
                    /\ utf8_check_first(u) > 0 <=> u \notin Continuation
  OBVIOUS
<1>1. Between(u, 0, 255) /\ u # 254 /\ u # 255
  BY SMT DEF Carried, Between
<1>2. utf8_check_first(u) > 0 <=> ~ Between(u, 128, 191)
  <2>1. /\ utf8_check_first(u) \in Int
        /\ 0 <= utf8_check_first(u) /\ utf8_check_first(u) <= 4
        /\ utf8_check_first(u) = 1 <=> Between(u, 0, 127)
        /\ utf8_check_first(u) = 2 <=> Between(u, 194, 223)
        /\ utf8_check_first(u) = 3 <=> Between(u, 224, 239)
        /\ utf8_check_first(u) = 4 <=> Between(u, 240, 244)
    BY <1>1, FirstOctet, Zenon
  <2> QED
    BY <2>1, SMT DEF Carried, Between
<1>3. u \in Octet /\ (u \in Continuation <=> Between(u, 128, 191))
  BY <1>1, OctetRange, ContinuationRange
<1> QED
  BY <1>1, <1>2, <1>3

-----------------------------------------------------------------------------
(* Lines and columns of what has been read, without a choice: a column for  *)
(* every character behind the last newline.                                 *)
News(r) == {i \in 1 .. Len(r) : r[i] = Newline}

Cols(r) == {i \in 1 .. Len(r) : /\ r[i] \notin Continuation
                                /\ \A j \in News(r) : j < i}

(* Both are finite.                                                         *)
LEMMA PlacesAreFinite ==
  ASSUME NEW r \in Seq(Octet)
  PROVE  IsFiniteSet(News(r)) /\ IsFiniteSet(Cols(r))
<1>1. IsFiniteSet(1 .. Len(r))
  BY FS_Interval
<1>2. News(r) \subseteq 1 .. Len(r) /\ Cols(r) \subseteq 1 .. Len(r)
  BY DEF News, Cols
<1> QED
  BY <1>1, <1>2, FS_Subset

(* They are the line and the column of PlaceIsExact.                        *)
LEMMA PlaceOfRead ==
  ASSUME NEW r \in Seq(Octet)
  PROVE  LET newlines == {i \in DOMAIN r : r[i] = Newline}
             start    == CHOOSE i \in newlines \cup {0} :
                           \A j \in newlines : j <= i
         IN /\ newlines = News(r)
            /\ {i \in start + 1 .. Len(r) : r[i] \notin Continuation} = Cols(r)
<1> DEFINE N == {i \in DOMAIN r : r[i] = Newline}
           start == CHOOSE i \in N \cup {0} : \A j \in N : j <= i
<1>1. N = News(r) /\ Len(r) \in Nat
  BY DEF News
<1>2. \A j \in News(r) : j \in Int /\ 1 <= j /\ j <= Len(r)
  BY DEF News
<1>3. \E i \in N \cup {0} : \A j \in N : j <= i
  <2> DEFINE T == {k \in Nat : \E i \in News(r) \cup {0} : k = Len(r) - i}
  <2>1. ASSUME NEW i \in News(r) \cup {0}
        PROVE  i \in Int /\ Len(r) - i \in T
    <3>1. i \in Int /\ 0 <= i /\ i <= Len(r)
      BY <1>1, <1>2
    <3>2. Len(r) - i \in Nat
      BY <1>1, <3>1
    <3> QED
      BY <3>1, <3>2
  <2>2. T \subseteq Nat /\ T # {}
    <3>1. T \subseteq Nat
      OBVIOUS
    <3> HIDE DEF T
    <3> QED
      BY <2>1, <3>1
  <2>3. PICK k \in T : \A m \in T : k <= m
    <3> HIDE DEF T
    <3> QED
      BY <2>2, LeastNumber
  <2>4. PICK i \in News(r) \cup {0} : k = Len(r) - i
    BY <2>3
  <2>5. ASSUME NEW j \in News(r)
        PROVE  j <= i
    <3>1. k <= Len(r) - j /\ i \in Int /\ j \in Int
      <4> HIDE DEF T
      <4> QED
        BY <2>1, <2>3
    <3> QED
      BY <1>1, <2>4, <3>1
  <2> QED
    BY <1>1, <2>4, <2>5
<1>4. start \in N \cup {0} /\ \A j \in N : j <= start
  <2> HIDE DEF N
  <2> QED
    BY <1>3
<1> HIDE DEF start, N
<1>5. start \in Int /\ 0 <= start
  BY <1>1, <1>2, <1>4
<1>6. ASSUME NEW i \in Int
      PROVE  (i \in start + 1 .. Len(r)) <=>
               (i \in 1 .. Len(r) /\ \A j \in News(r) : j < i)
  <2>1. ASSUME i \in start + 1 .. Len(r)
        PROVE  i \in 1 .. Len(r) /\ \A j \in News(r) : j < i
    BY <1>1, <1>2, <1>4, <1>5, <2>1
  <2>2. ASSUME i \in 1 .. Len(r), \A j \in News(r) : j < i
        PROVE  i \in start + 1 .. Len(r)
    <3>1. start < i
      BY <1>1, <1>4, <2>2
    <3> QED
      BY <1>1, <1>5, <2>2, <3>1
  <2> QED
    BY <2>1, <2>2
<1>7. {i \in start + 1 .. Len(r) : r[i] \notin Continuation} = Cols(r)
  <2>1. \A i \in start + 1 .. Len(r) : i \in Int
    OBVIOUS
  <2>2. \A i \in 1 .. Len(r) : i \in Int
    OBVIOUS
  <2> QED
    BY <1>6, <2>1, <2>2 DEF Cols
<1> QED
  BY <1>1, <1>7 DEF start, N

(* What one more octet does to them.                                        *)
LEMMA PlaceOfAppend ==
  ASSUME NEW r \in Seq(Octet), NEW c \in Octet
  PROVE  LET q == Append(r, c)
             n == Len(r) + 1
         IN /\ c = Newline => News(q) = News(r) \cup {n} /\ Cols(q) = {}
            /\ c # Newline => News(q) = News(r)
            /\ c # Newline /\ c \notin Continuation => Cols(q) = Cols(r) \cup {n}
            /\ c \in Continuation => c # Newline /\ Cols(q) = Cols(r)
            /\ n \notin News(r) /\ n \notin Cols(r)
<1> DEFINE q == Append(r, c)  n == Len(r) + 1
<1>1. /\ Len(r) \in Nat /\ q \in Seq(Octet) /\ Len(q) = n
      /\ \A i \in 1 .. Len(r) : q[i] = r[i]
      /\ q[n] = c
  BY AppendProperties
<1>2. 1 .. n = (1 .. Len(r)) \cup {n} /\ n \notin 1 .. Len(r) /\ n \in Int
  BY <1>1
<1>3. \A i \in 1 .. Len(r) : i < n
  BY <1>1
<1> HIDE DEF q, n
<1>4. n \notin News(r) /\ n \notin Cols(r)
  BY <1>2 DEF News, Cols
<1>5. News(q) = News(r) \cup (IF c = Newline THEN {n} ELSE {})
  BY <1>1, <1>2 DEF News
<1>6. ASSUME c = Newline
      PROVE  Cols(q) = {}
  <2>1. n \in News(q)
    BY <1>5, <1>6
  <2>2. \A i \in 1 .. n : ~ (n < i)
    BY <1>1, <1>2
  <2> QED
    BY <1>1, <2>1, <2>2 DEF Cols
<1>7. ASSUME c # Newline
      PROVE  Cols(q) = Cols(r) \cup (IF c \notin Continuation THEN {n} ELSE {})
  <2>1. News(q) = News(r)
    BY <1>5, <1>7
  <2>2. \A j \in News(r) : j < n
    BY <1>3 DEF News
  <2> QED
    BY <1>1, <1>2, <2>1, <2>2 DEF Cols
<1>8. c \in Continuation => c # Newline
  BY ContinuationRange, SMT DEF Newline, Between
<1> QED
  BY <1>4, <1>5, <1>6, <1>7, <1>8 DEF q, n

-----------------------------------------------------------------------------
(* The place as the code keeps it: exact, and with what Unget needs to go   *)
(* back over a newline, the column at the end of the line before.           *)
Place ==
  /\ position = Len(read)
  /\ line = 1 + Cardinality(News(read))
  /\ column = Cardinality(Cols(read))
  /\ state = "OK" /\ read # <<>> /\ back = None =>
       /\ buffer_pos >= 1
       /\ Last(read) = Newline => last_column = Cardinality(Cols(Front(read)))

(* The inductive invariant.                                                 *)
StreamInv ==
  /\ taken \in Seq(Octet) /\ read \in Seq(Octet) /\ buffer \in Seq(Octet)
  /\ buffer_pos \in Int /\ 0 <= buffer_pos /\ buffer_pos <= Len(buffer)
  /\ state \in {"OK", "EOF", "ERROR"}
  /\ last_column \in Nat /\ back \in Octet \cup {None}
  /\ state = "ERROR" <=> ~ IsUTF8(taken)
  /\ buffer = <<>> \/ IsCharacter(buffer)
  /\ \A i \in 1 .. Len(read) : Carried(read[i])
  /\ Place

(* It holds at first.                                                       *)
LEMMA StreamStarts ==
  ASSUME StreamInit
  PROVE  StreamInv
<1>1. <<>> \in Seq(Octet) /\ Len(<<>>) = 0 /\ 1 .. 0 = {}
  BY EmptySeq
<1>2. News(<<>>) = {} /\ Cols(<<>>) = {} /\ Cardinality({}) = 0
  BY <1>1, FS_EmptySet DEF News, Cols
<1>3. /\ taken = <<>> /\ read = <<>> /\ buffer = <<>> /\ buffer_pos = 0
      /\ state = "OK" /\ line = 1 /\ column = 0 /\ last_column = 0
      /\ position = 0 /\ back = None
  BY DEF StreamInit
<1>4. News(read) = {} /\ Cols(read) = {} /\ Len(read) = 0 /\ Len(buffer) = 0
      /\ 1 .. Len(read) = {}
  BY <1>1, <1>2, <1>3
<1>5. Place
  <2>1. Cardinality(News(read)) = 0 /\ Cardinality(Cols(read)) = 0
    BY <1>2, <1>4
  <2>2. 1 + 0 = 1
    OBVIOUS
  <2> QED
    BY <1>3, <1>4, <2>1, <2>2, Zenon DEF Place
<1>6. state = "ERROR" <=> ~ IsUTF8(taken)
  BY <1>3, EmptyIsText
<1> QED
  BY <1>1, <1>3, <1>4, <1>5, <1>6 DEF StreamInv

(* Nothing that is given out disturbs it.                                   *)
LEMMA GiveOutSteps ==
  ASSUME StreamInv, state = "OK", taken' \in Seq(Octet), IsUTF8(taken'),
         NEW b \in Seq(Octet), IsCharacter(b),
         NEW pos \in Int, 1 <= pos, pos <= Len(b), GiveOut(b, pos)
  PROVE  StreamInv'
<1> DEFINE c == b[pos]  n == Len(read) + 1
<1>1. Carried(c) /\ c \in Octet /\ (utf8_check_first(c) > 0 <=> c \notin Continuation)
  <2>1. pos \in 1 .. Len(b)
    OBVIOUS
  <2>2. Carried(c)
    BY <2>1, CharacterOctets
  <2> HIDE DEF c
  <2> QED
    BY <2>2, CarriedOctets
<1>2. /\ buffer' = b /\ buffer_pos' = pos /\ read' = Append(read, c)
      /\ position' = position + 1 /\ back' = None /\ state' = state
      /\ IF c = Newline
         THEN line' = line + 1 /\ last_column' = column /\ column' = 0
         ELSE /\ column' = IF utf8_check_first(c) > 0 THEN column + 1 ELSE column
              /\ line' = line /\ last_column' = last_column
  BY DEF GiveOut
<1> HIDE DEF c
<1>3. /\ read \in Seq(Octet) /\ Len(read) \in Nat
      /\ position = Len(read) /\ line = 1 + Cardinality(News(read))
      /\ column = Cardinality(Cols(read)) /\ last_column \in Nat
      /\ \A i \in 1 .. Len(read) : Carried(read[i])
  BY DEF StreamInv, Place
<1>4. /\ read' \in Seq(Octet) /\ Len(read') = n /\ read' # <<>>
      /\ \A i \in 1 .. Len(read) : read'[i] = read[i]
      /\ read'[n] = c
  BY <1>1, <1>2, <1>3, AppendProperties
<1>5. Last(read') = c /\ Front(read') = read
  <2>1. Last(read') = c
    BY <1>4 DEF Last
  <2>2. Len(read') - 1 = Len(read)
    BY <1>3, <1>4
  <2>3. Front(read') = SubSeq(read', 1, Len(read))
    BY <2>2 DEF Front
  <2>4. SubSeq(read', 1, Len(read)) = read
    <3>1. \A i \in 1 .. Len(read) : read'[i] \in Octet
      BY <1>3, <1>4, ElementOfSeq
    <3>2. /\ SubSeq(read', 1, Len(read)) \in Seq(Octet)
          /\ Len(SubSeq(read', 1, Len(read))) =
               IF 1 <= Len(read) THEN Len(read) - 1 + 1 ELSE 0
          /\ \A i \in 1 .. Len(read) - 1 + 1 :
                SubSeq(read', 1, Len(read))[i] = read'[1 + i - 1]
      <4>1. 1 \in Int /\ Len(read) \in Int
        BY <1>3
      <4> QED
        BY <3>1, <4>1, SubSeqProperties
    <3>3. Len(SubSeq(read', 1, Len(read))) = Len(read)
      BY <1>3, <3>2
    <3>4. \A i \in 1 .. Len(read) : SubSeq(read', 1, Len(read))[i] = read[i]
      <4>1. \A i \in 1 .. Len(read) : 1 + i - 1 = i /\ i \in 1 .. Len(read) - 1 + 1
        BY <1>3
      <4> QED
        BY <1>4, <3>2, <4>1
    <3> QED
      BY <1>3, <3>2, <3>3, <3>4, SeqEqual
  <2> QED
    BY <2>1, <2>3, <2>4
<1>6. \A i \in 1 .. Len(read') : Carried(read'[i])
  <2>1. \A i \in 1 .. n : i \in 1 .. Len(read) \/ i = n
    BY <1>3
  <2> QED
    BY <1>1, <1>3, <1>4, <2>1
<1>7. /\ IsFiniteSet(News(read)) /\ IsFiniteSet(Cols(read))
      /\ c = Newline => News(read') = News(read) \cup {n} /\ Cols(read') = {}
      /\ c # Newline => News(read') = News(read)
      /\ c # Newline /\ c \notin Continuation => Cols(read') = Cols(read) \cup {n}
      /\ c \in Continuation => c # Newline /\ Cols(read') = Cols(read)
      /\ n \notin News(read) /\ n \notin Cols(read)
  BY <1>1, <1>2, <1>3, PlaceOfAppend, PlacesAreFinite
<1>8. /\ Cardinality(News(read)) \in Nat /\ Cardinality(Cols(read)) \in Nat
      /\ Cardinality(News(read) \cup {n}) = Cardinality(News(read)) + 1
      /\ Cardinality(Cols(read) \cup {n}) = Cardinality(Cols(read)) + 1
      /\ Cardinality({}) = 0
  BY <1>7, FS_CardinalityType, FS_AddElement, FS_EmptySet
<1>9. /\ position' = Len(read')
      /\ line' = 1 + Cardinality(News(read'))
      /\ column' = Cardinality(Cols(read'))
      /\ last_column' \in Nat
      /\ c = Newline => last_column' = Cardinality(Cols(read))
  <2> HIDE DEF n
  <2>0. position' = Len(read')
    BY <1>2, <1>3, <1>4 DEF n
  <2>1. CASE c = Newline
    <3>1. line' = line + 1 /\ last_column' = column /\ column' = 0
      BY <1>2, <2>1
    <3>2. News(read') = News(read) \cup {n} /\ Cols(read') = {}
      BY <1>7, <2>1
    <3>3. Cardinality(News(read')) = Cardinality(News(read)) + 1
          /\ Cardinality(Cols(read')) = 0
      BY <1>8, <3>2
    <3> QED
      BY <1>3, <1>8, <2>0, <3>1, <3>3
  <2>2. CASE c # Newline
    <3>1. /\ line' = line /\ last_column' = last_column
          /\ column' = IF c \notin Continuation THEN column + 1 ELSE column
      BY <1>1, <1>2, <2>2
    <3>2. News(read') = News(read)
      BY <1>7, <2>2
    <3>3. Cardinality(Cols(read')) = IF c \notin Continuation
                                     THEN Cardinality(Cols(read)) + 1
                                     ELSE Cardinality(Cols(read))
      <4>1. CASE c \in Continuation
        BY <1>7, <4>1
      <4>2. CASE c \notin Continuation
        BY <1>7, <1>8, <2>2, <4>2
      <4> QED
        BY <4>1, <4>2
    <3>4. line' = 1 + Cardinality(News(read'))
      BY <1>3, <3>1, <3>2
    <3>5. column' = Cardinality(Cols(read'))
      BY <1>3, <3>1, <3>3
    <3> QED
      BY <1>3, <2>0, <2>2, <3>1, <3>4, <3>5
  <2> QED
    BY <2>1, <2>2
<1>10. Place'
  BY <1>2, <1>5, <1>9 DEF Place
<1>11. buffer' # <<>> /\ IsCharacter(buffer') /\ Len(b) \in Int
  BY <1>2, EmptySeq
<1> QED
  BY <1>2, <1>4, <1>6, <1>9, <1>10, <1>11 DEF StreamInv

(* Nor does a status.                                                       *)
LEMMA StopSteps ==
  ASSUME StreamInv, NEW status \in {"EOF", "ERROR"}, taken' \in Seq(Octet),
         status = "ERROR" <=> ~ IsUTF8(taken'), Stop(status)
  PROVE  StreamInv'
<1>1. /\ state' = status /\ back' = None /\ read' = read /\ buffer' = buffer
      /\ buffer_pos' = buffer_pos /\ line' = line /\ column' = column
      /\ last_column' = last_column /\ position' = position
  BY DEF Stop
<1>2. state' \in {"OK", "EOF", "ERROR"} /\ state' # "OK"
  BY <1>1
<1> QED
  BY <1>1, <1>2 DEF StreamInv, Place

(* stream_get gives out the next octet of the buffer.                       *)
LEMMA GetNextSteps ==
  ASSUME StreamInv, GetNext
  PROVE  StreamInv'
<1>1. state = "OK" /\ ~ Exhausted /\ GiveOut(buffer, buffer_pos + 1)
      /\ taken' = taken
  BY DEF GetNext
<1>2. /\ taken \in Seq(Octet) /\ buffer \in Seq(Octet) /\ Len(buffer) \in Int
      /\ buffer_pos \in Int /\ 0 <= buffer_pos
      /\ state = "ERROR" <=> ~ IsUTF8(taken)
      /\ buffer = <<>> \/ IsCharacter(buffer)
  BY DEF StreamInv
<1>3. buffer_pos < Len(buffer)
  BY <1>1 DEF Exhausted
<1>4. buffer # <<>>
  BY <1>2, <1>3, EmptySeq
<1>5. /\ IsUTF8(taken') /\ taken' \in Seq(Octet) /\ IsCharacter(buffer)
      /\ buffer_pos + 1 \in Int /\ 1 <= buffer_pos + 1
      /\ buffer_pos + 1 <= Len(buffer)
  BY <1>1, <1>2, <1>3, <1>4
<1> QED
  BY <1>1, <1>2, <1>5, GiveOutSteps

(* stream_get meets the end of the text.                                    *)
LEMMA GetEndSteps ==
  ASSUME StreamInv, GetEnd
  PROVE  StreamInv'
<1>1. state = "OK" /\ Stop("EOF") /\ taken' = taken
  BY DEF GetEnd
<1>2. taken \in Seq(Octet) /\ (state = "ERROR" <=> ~ IsUTF8(taken))
  BY DEF StreamInv
<1>3. "EOF" \in {"EOF", "ERROR"} /\ taken' \in Seq(Octet) /\ IsUTF8(taken')
      /\ "EOF" # "ERROR"
  BY <1>1, <1>2
<1> QED
  BY <1>1, <1>3, StopSteps

(* The octets e are taken: what has been taken stays text exactly when they *)
(* are a character, and that is when they are given out.                    *)
NewCharacter(e) ==
  /\ e \in Seq(Octet) /\ Len(e) \in Int /\ 1 <= Len(e)
  /\ taken' = taken \o e /\ taken' \in Seq(Octet)
  /\ IsUTF8(taken') <=> IsCharacter(e)
  /\ \/ IsCharacter(e) /\ Refill(e)
     \/ ~ IsCharacter(e) /\ IllFormed

(* That is what stream_get does when its buffer is at the end.              *)
LEMMA CharacterTaken ==
  ASSUME StreamAssumption, StreamInv, GetCharacter
  PROVE  \E e \in Seq(Octet) : NewCharacter(e)
<1>1. /\ state = "OK"
      /\ \E c \in Source :
           LET count == IF c < 128 THEN 1 ELSE utf8_check_first(c)
           IN IF count < 2
              THEN /\ taken' = Append(taken, c)
                   /\ IF count = 1 THEN Refill(<<c>>) ELSE IllFormed
              ELSE \E rest \in [1 .. count - 1 -> Source \cup {EofOctet}] :
                     /\ taken' = Append(taken, c) \o rest
                     /\ IF utf8_check_full(<<c>> \o rest)
                        THEN Refill(<<c>> \o rest)
                        ELSE IllFormed
  BY DEF GetCharacter
<1>2. PICK c \in Source :
        LET count == IF c < 128 THEN 1 ELSE utf8_check_first(c)
        IN IF count < 2
           THEN /\ taken' = Append(taken, c)
                /\ IF count = 1 THEN Refill(<<c>>) ELSE IllFormed
           ELSE \E rest \in [1 .. count - 1 -> Source \cup {EofOctet}] :
                  /\ taken' = Append(taken, c) \o rest
                  /\ IF utf8_check_full(<<c>> \o rest)
                     THEN Refill(<<c>> \o rest)
                     ELSE IllFormed
  BY <1>1
<1> DEFINE count == IF c < 128 THEN 1 ELSE utf8_check_first(c)
<1>3. /\ taken \in Seq(Octet) /\ IsUTF8(taken)
      /\ c \in Octet /\ Between(c, 0, 255)
  BY <1>1, OctetRange DEF StreamInv, StreamAssumption
<1>4. count = utf8_check_first(c) /\ count \in Int /\ 0 <= count /\ count <= 4
  <2>1. /\ utf8_check_first(c) \in Int
        /\ 0 <= utf8_check_first(c) /\ utf8_check_first(c) <= 4
        /\ utf8_check_first(c) = 1 <=> Between(c, 0, 127)
        /\ utf8_check_first(c) = 2 <=> Between(c, 194, 223)
        /\ utf8_check_first(c) = 3 <=> Between(c, 224, 239)
        /\ utf8_check_first(c) = 4 <=> Between(c, 240, 244)
    BY <1>3, FirstOctet
  <2>2. c < 128 => utf8_check_first(c) = 1
    BY <1>3, <2>1, SMT DEF Between
  <2> QED
    BY <2>1, <2>2
<1>5. CASE count < 2
  <2> DEFINE e == <<c>>
  <2>1. /\ taken' = Append(taken, c)
        /\ IF count = 1 THEN Refill(e) ELSE IllFormed
    BY <1>2, <1>5, Zenon
  <2>2. e \in Seq(Octet) /\ Len(e) = 1 /\ e[1] = c /\ e # <<>>
    BY <1>3
  <2>3. taken' = taken \o e /\ taken' \in Seq(Octet)
    BY <1>3, <2>1, <2>2, AppendIsConcat, AppendProperties
  <2>4. count = 0 \/ count = 1
    <3> HIDE DEF count
    <3> QED
      BY <1>4, <1>5
  <2>5. IsUTF8(taken') <=> IsCharacter(e)
    <3>1. \/ Len(e) = utf8_check_first(e[1])
          \/ Len(e) = 1 /\ utf8_check_first(e[1]) = 0
      <4> HIDE DEF count
      <4> QED
        BY <1>4, <2>2, <2>4
    <3> HIDE DEF e
    <3> QED
      BY <1>3, <2>2, <2>3, <3>1, TextAppended
  <2>6. IsCharacter(e) <=> count = 1
    <3>1. ASSUME IsCharacter(e)
          PROVE  count = 1
      <4> HIDE DEF e, count
      <4> QED
        BY <1>4, <2>2, <3>1, CharacterLength
    <3>2. ASSUME count = 1
          PROVE  IsCharacter(e)
      <4>1. Between(c, 0, 127)
        <5>1. utf8_check_first(c) = 1
          BY <1>4, <3>2
        <5> QED
          BY <1>3, <5>1, FirstOctet
      <4> HIDE DEF e
      <4>2. Row(1, c, e[2], e[3], e[4])
        BY <4>1, SMT DEF Row
      <4> QED
        BY <2>2, <4>2, CharacterRows
    <3> QED
      BY <3>1, <3>2
  <2>7. CASE count = 1
    <3>1. Refill(e) /\ IsCharacter(e)
      BY <2>1, <2>6, <2>7
    <3>2. Len(e) \in Int /\ 1 <= Len(e)
      BY <2>2
    <3> HIDE DEF e
    <3> QED
      BY <2>2, <2>3, <2>5, <3>1, <3>2 DEF NewCharacter
  <2>8. CASE count # 1
    <3>1. IllFormed /\ ~ IsCharacter(e)
      BY <2>1, <2>6, <2>8
    <3>2. Len(e) \in Int /\ 1 <= Len(e)
      BY <2>2
    <3> HIDE DEF e
    <3> QED
      BY <2>2, <2>3, <2>5, <3>1, <3>2 DEF NewCharacter
  <2> QED
    BY <2>7, <2>8
<1>6. CASE ~ (count < 2)
  <2>1. PICK rest \in [1 .. count - 1 -> Source \cup {EofOctet}] :
          /\ taken' = Append(taken, c) \o rest
          /\ IF utf8_check_full(<<c>> \o rest)
             THEN Refill(<<c>> \o rest)
             ELSE IllFormed
    BY <1>2, <1>6, Zenon
  <2> DEFINE e == <<c>> \o rest
  <2>2. rest \in Seq(Octet) /\ Len(rest) = count - 1
    <3>1. count - 1 \in Nat
      <4> HIDE DEF count
      <4> QED
        BY <1>4, <1>6
    <3>2. Source \cup {EofOctet} \subseteq Octet
      BY OctetRange, SMT DEF StreamAssumption, EofOctet, Between
    <3> HIDE DEF count
    <3>3. rest \in [1 .. count - 1 -> Octet]
      BY <3>2
    <3> QED
      BY <3>1, <3>3
  <2>3. <<c>> \in Seq(Octet) /\ Len(<<c>>) = 1 /\ <<c>>[1] = c
    BY <1>3
  <2>4. e \in Seq(Octet) /\ Len(e) = count /\ e[1] = c /\ e # <<>>
    <3>1. /\ e \in Seq(Octet) /\ Len(e) = Len(<<c>>) + Len(rest)
          /\ \A i \in 1 .. Len(<<c>>) + Len(rest) :
                e[i] = IF i <= Len(<<c>>) THEN <<c>>[i] ELSE rest[i - Len(<<c>>)]
      BY <2>2, <2>3, ConcatProperties
    <3>2. Len(<<c>>) + Len(rest) = count /\ 1 \in 1 .. count
      <4> HIDE DEF count
      <4> QED
        BY <1>4, <1>6, <2>2, <2>3
    <3>3. e[1] = c
      BY <2>3, <3>1, <3>2
    <3>4. e # <<>>
      <4> HIDE DEF count, e
      <4> QED
        BY <1>4, <1>6, <3>1, <3>2, EmptySeq
    <3> QED
      BY <3>1, <3>2, <3>3, <3>4
  <2>5. taken' = taken \o e
    <3>1. Append(taken, c) = taken \o <<c>>
      BY <1>3, AppendIsConcat
    <3>2. (taken \o <<c>>) \o rest = taken \o (<<c>> \o rest)
      BY <1>3, <2>2, <2>3, ConcatAssociative
    <3> QED
      BY <2>1, <3>1, <3>2
  <2> HIDE DEF e
  <2>6. taken' \in Seq(Octet)
    BY <1>3, <2>4, <2>5, ConcatProperties
  <2>7. Len(e) = utf8_check_first(e[1]) /\ Len(e) > 1
    <3> HIDE DEF count
    <3> QED
      BY <1>4, <1>6, <2>4
  <2>8. IsUTF8(taken') <=> IsCharacter(e)
    BY <1>3, <2>4, <2>5, <2>7, TextAppended
  <2>9. utf8_check_full(e) <=> IsCharacter(e)
    BY <2>4, <2>7, FullIsCharacter
  <2>10. IF utf8_check_full(e) THEN Refill(e) ELSE IllFormed
    BY <2>1 DEF e
  <2>11. Len(e) \in Int /\ 1 <= Len(e)
    BY <2>4, <2>7
  <2> QED
    BY <2>4, <2>5, <2>6, <2>8, <2>9, <2>10, <2>11 DEF NewCharacter
<1> QED
  BY <1>5, <1>6

(* A new character keeps the invariant, and so does what is none.           *)
LEMMA GetCharacterSteps ==
  ASSUME StreamAssumption, StreamInv, GetCharacter
  PROVE  StreamInv'
<1>1. PICK e \in Seq(Octet) : NewCharacter(e)
  BY CharacterTaken
<1>2. state = "OK"
  BY DEF GetCharacter
<1>3. /\ Len(e) \in Int /\ 1 <= Len(e) /\ taken' \in Seq(Octet)
      /\ IsUTF8(taken') <=> IsCharacter(e)
  BY <1>1 DEF NewCharacter
<1>4. CASE IsCharacter(e) /\ Refill(e)
  <2>1. GiveOut(e, 1)
    BY <1>4 DEF Refill
  <2>2. 1 \in Int /\ 1 <= 1
    OBVIOUS
  <2> QED
    BY <1>2, <1>3, <1>4, <2>1, <2>2, GiveOutSteps
<1>5. CASE ~ IsCharacter(e) /\ IllFormed
  <2>1. Stop("ERROR")
    BY <1>5 DEF IllFormed
  <2> QED
    BY <1>3, <1>5, <2>1, StopSteps
<1> QED
  BY <1>1, <1>4, <1>5 DEF NewCharacter

(* What is left of a sequence without its last element, and the two put     *)
(* together again.                                                          *)
LEMMA FrontAndLast ==
  ASSUME NEW s \in Seq(Octet), s # <<>>
  PROVE  /\ Front(s) \in Seq(Octet) /\ Len(Front(s)) = Len(s) - 1
         /\ \A i \in 1 .. Len(s) - 1 : Front(s)[i] = s[i]
         /\ Last(s) = s[Len(s)] /\ Last(s) \in Octet
         /\ Append(Front(s), Last(s)) = s
<1> DEFINE c == Last(s)  r == Front(s)
<1>3. Len(s) \in Nat \ {0} /\ Len(s) \in 1 .. Len(s)
  <2>1. Len(s) \in Nat \ {0}
    BY EmptySeq, LenProperties
  <2> QED
    BY <2>1
<1>4. /\ r \in Seq(Octet) /\ Len(r) = Len(s) - 1
      /\ \A i \in 1 .. Len(s) - 1 : r[i] = s[i]
  <2>1. \A i \in 1 .. Len(s) - 1 : s[i] \in Octet
    <3>1. \A i \in 1 .. Len(s) - 1 : i \in 1 .. Len(s)
      BY <1>3
    <3> QED
      BY <3>1, ElementOfSeq
  <2>2. 1 \in Int /\ Len(s) - 1 \in Int
    BY <1>3
  <2>3. r = SubSeq(s, 1, Len(s) - 1)
    BY DEF Front
  <2>4. /\ r \in Seq(Octet)
        /\ Len(r) = IF 1 <= Len(s) - 1 THEN Len(s) - 1 - 1 + 1 ELSE 0
        /\ \A i \in 1 .. Len(s) - 1 - 1 + 1 : r[i] = s[1 + i - 1]
    BY <2>1, <2>2, <2>3, SubSeqProperties
  <2> HIDE DEF r
  <2>5. Len(r) = Len(s) - 1
    <3> DEFINE k == Len(s)
    <3>1. k \in Int /\ k >= 1 /\ Len(r) = IF 1 <= k - 1 THEN k - 1 - 1 + 1 ELSE 0
      BY <1>3, <2>4
    <3> HIDE DEF k
    <3>2. Len(r) = k - 1
      BY <3>1
    <3> QED
      BY <3>2 DEF k
  <2>6. \A i \in 1 .. Len(s) - 1 : i \in 1 .. Len(s) - 1 - 1 + 1 /\ 1 + i - 1 = i
    BY <1>3
  <2> QED
    BY <2>4, <2>5, <2>6
<1>5. c = s[Len(s)]
  BY DEF Last
<1>6. c \in Octet
  BY <1>3, <1>5, ElementOfSeq
<1> HIDE DEF c, r
<1>7. Append(r, c) = s
  <2>1. /\ Append(r, c) \in Seq(Octet) /\ Len(Append(r, c)) = Len(r) + 1
        /\ \A i \in 1 .. Len(r) : Append(r, c)[i] = r[i]
        /\ Append(r, c)[Len(r) + 1] = c
    BY <1>4, <1>6, AppendProperties
  <2>2. Len(r) + 1 = Len(s)
    BY <1>3, <1>4
  <2>3. ASSUME NEW i \in 1 .. Len(s)
        PROVE  Append(r, c)[i] = s[i]
    <3>1. CASE i = Len(s)
      BY <1>5, <2>1, <2>2, <3>1
    <3>2. CASE i # Len(s)
      <4>1. i \in 1 .. Len(s) - 1
        BY <1>3, <3>2
      <4> QED
        BY <1>4, <2>1, <4>1
    <3> QED
      BY <3>1, <3>2
  <2> QED
    BY <2>1, <2>2, <2>3, SeqEqual
<1> QED
  BY <1>4, <1>5, <1>6, <1>7 DEF c, r

(* Going back: everything is as it was before the last octet was given out. *)
LEMMA UngetSteps ==
  ASSUME StreamInv, Unget
  PROVE  StreamInv'
<1> DEFINE c == Last(read)  r == Front(read)  n == Len(r) + 1
<1>1. /\ state = "OK" /\ read # <<>> /\ back = None
      /\ position' = position - 1
      /\ IF c = Newline
         THEN line' = line - 1 /\ column' = last_column
         ELSE /\ column' = IF utf8_check_first(c) > 0 THEN column - 1 ELSE column
              /\ line' = line
      /\ buffer_pos' = buffer_pos - 1 /\ read' = r /\ back' = c
      /\ taken' = taken /\ buffer' = buffer /\ state' = state
      /\ last_column' = last_column
  BY DEF Unget
<1>2. /\ read \in Seq(Octet) /\ Len(read) \in Nat
      /\ buffer_pos \in Int /\ buffer_pos <= Len(buffer)
      /\ position = Len(read) /\ line = 1 + Cardinality(News(read))
      /\ column = Cardinality(Cols(read)) /\ last_column \in Nat
      /\ \A i \in 1 .. Len(read) : Carried(read[i])
      /\ buffer_pos >= 1
      /\ c = Newline => last_column = Cardinality(Cols(r))
  BY <1>1 DEF StreamInv, Place
<1>3. Len(read) \in Nat \ {0} /\ Len(read) \in 1 .. Len(read)
  <2>1. Len(read) \in Nat \ {0}
    BY <1>1, <1>2, EmptySeq
  <2> QED
    BY <2>1
<1>4. /\ r \in Seq(Octet) /\ Len(r) = Len(read) - 1
      /\ \A i \in 1 .. Len(read) - 1 : r[i] = read[i]
  BY <1>1, <1>2, FrontAndLast
<1>5. c = read[Len(read)] /\ Carried(c)
  BY <1>2, <1>3 DEF Last
<1>6. c \in Octet /\ (utf8_check_first(c) > 0 <=> c \notin Continuation)
  <2> HIDE DEF c
  <2> QED
    BY <1>5, CarriedOctets
<1>7. Append(r, c) = read
  BY <1>1, <1>2, FrontAndLast
<1> HIDE DEF c, r
<1>8. /\ IsFiniteSet(News(r)) /\ IsFiniteSet(Cols(r))
      /\ c = Newline => News(read) = News(r) \cup {n} /\ Cols(read) = {}
      /\ c # Newline => News(read) = News(r)
      /\ c # Newline /\ c \notin Continuation => Cols(read) = Cols(r) \cup {n}
      /\ c \in Continuation => c # Newline /\ Cols(read) = Cols(r)
      /\ n \notin News(r) /\ n \notin Cols(r)
  BY <1>4, <1>6, <1>7, PlaceOfAppend, PlacesAreFinite
<1> HIDE DEF n
<1>9. /\ Cardinality(News(r)) \in Nat /\ Cardinality(Cols(r)) \in Nat
      /\ Cardinality(News(r) \cup {n}) = Cardinality(News(r)) + 1
      /\ Cardinality(Cols(r) \cup {n}) = Cardinality(Cols(r)) + 1
  BY <1>8, FS_CardinalityType, FS_AddElement
<1>10. /\ position' = Len(r)
       /\ line' = 1 + Cardinality(News(r))
       /\ column' = Cardinality(Cols(r))
  <2>0. position' = Len(r)
    BY <1>1, <1>2, <1>4
  <2>1. CASE c = Newline
    <3>1. line' = line - 1 /\ column' = last_column
      BY <1>1, <2>1
    <3>2. Cardinality(News(read)) = Cardinality(News(r)) + 1
      BY <1>8, <1>9, <2>1
    <3> QED
      BY <1>2, <1>9, <2>0, <2>1, <3>1, <3>2
  <2>2. CASE c # Newline
    <3>1. /\ line' = line
          /\ column' = IF c \notin Continuation THEN column - 1 ELSE column
      BY <1>1, <1>6, <2>2
    <3>2. News(read) = News(r)
      BY <1>8, <2>2
    <3>3. Cardinality(Cols(read)) = IF c \notin Continuation
                                    THEN Cardinality(Cols(r)) + 1
                                    ELSE Cardinality(Cols(r))
      <4>1. CASE c \in Continuation
        BY <1>8, <4>1
      <4>2. CASE c \notin Continuation
        BY <1>8, <1>9, <2>2, <4>2
      <4> QED
        BY <4>1, <4>2
    <3>4. line' = 1 + Cardinality(News(r))
      BY <1>2, <3>1, <3>2
    <3>5. column' = Cardinality(Cols(r))
      BY <1>2, <1>9, <3>1, <3>3
    <3> QED
      BY <2>0, <3>4, <3>5
  <2> QED
    BY <2>1, <2>2
<1>11. back' # None /\ back' \in Octet
  <2>1. Between(c, 0, 255)
    BY <1>6, OctetRange
  <2>2. c # None
    BY <2>1, SMT DEF Between, None
  <2> QED
    BY <1>1, <1>6, <2>2
<1>12. Place'
  BY <1>1, <1>10, <1>11 DEF Place
<1>13. \A i \in 1 .. Len(read') : Carried(read'[i])
  <2>1. \A i \in 1 .. Len(read) - 1 : i \in 1 .. Len(read)
    BY <1>2
  <2> QED
    BY <1>1, <1>2, <1>4, <2>1
<1>14. /\ buffer_pos' \in Int /\ 0 <= buffer_pos' /\ buffer_pos' <= Len(buffer')
  <2>1. Len(buffer) \in Int
    BY DEF StreamInv
  <2> QED
    BY <1>1, <1>2, <2>1
<1> QED
  BY <1>1, <1>4, <1>11, <1>12, <1>13, <1>14 DEF StreamInv

-----------------------------------------------------------------------------
(***************************************************************************)
(* What is passed on.  The octet that may be given back is in the buffer,   *)
(* at the place in front of the next, and a NUL that got lost is not the    *)
(* last octet that was taken.                                               *)
(***************************************************************************)
PassInv ==
  /\ \A i \in lost : i \in Nat /\ 1 <= i /\ i < Len(taken) /\ taken[i] = 0
  /\ state = "OK" /\ read # <<>> /\ back = None =>
       Last(read) = buffer[buffer_pos]
  /\ state # "ERROR" =>
       /\ Len(Passed) = Len(taken) - Cardinality(lost)
       /\ \A i \in DOMAIN taken \ lost : Passed[i - LostBefore(i)] = taken[i]

(* The first octet of the rest of a character may as well be in front of it.*)
LEMMA RestMoves ==
  ASSUME NEW r \in Seq(Octet), NEW b \in Seq(Octet), NEW k \in 1 .. Len(b)
  PROVE  /\ Append(r, b[k]) \o SubSeq(b, k + 1, Len(b)) = r \o SubSeq(b, k, Len(b))
         /\ r \o SubSeq(b, k, Len(b)) \in Seq(Octet)
<1> DEFINE n == Len(b)  m == Len(r)
           x == Append(r, b[k])  y == SubSeq(b, k + 1, n)  z == SubSeq(b, k, n)
<1>1. n \in Nat /\ m \in Nat /\ k \in Int /\ 1 <= k /\ k <= n /\ b[k] \in Octet
  BY LenProperties, ElementOfSeq
<1>2. /\ x \in Seq(Octet) /\ Len(x) = m + 1
      /\ \A i \in 1 .. m : x[i] = r[i]
      /\ x[m + 1] = b[k]
  BY <1>1, AppendProperties
<1>3. \A i \in k .. n : b[i] \in Octet
  <2>1. \A i \in k .. n : i \in 1 .. n
    BY <1>1
  <2> QED
    BY <2>1, ElementOfSeq
<1> HIDE DEF n, m
<1>4. /\ z \in Seq(Octet) /\ Len(z) = n - k + 1
      /\ \A i \in 1 .. n - k + 1 : z[i] = b[k + i - 1]
  BY <1>1, <1>3, SubSeqProperties
<1>5. /\ y \in Seq(Octet) /\ Len(y) = n - k
      /\ \A i \in 1 .. n - k : y[i] = b[k + i]
  <2>1. \A i \in k + 1 .. n : b[i] \in Octet
    BY <1>1, <1>3
  <2>2. /\ y \in Seq(Octet)
        /\ Len(y) = IF k + 1 <= n THEN n - (k + 1) + 1 ELSE 0
        /\ \A i \in 1 .. n - (k + 1) + 1 : y[i] = b[k + 1 + i - 1]
    BY <1>1, <2>1, SubSeqProperties
  <2> HIDE DEF y
  <2>3. n - (k + 1) + 1 = n - k /\ (~ (k + 1 <= n) => n - k = 0)
    BY <1>1
  <2>4. \A i \in 1 .. n - k : k + 1 + i - 1 = k + i
    BY <1>1
  <2> QED
    BY <2>2, <2>3, <2>4
<1> HIDE DEF x, y, z
<1>6. /\ x \o y \in Seq(Octet) /\ Len(x \o y) = (m + 1) + (n - k)
      /\ \A i \in 1 .. (m + 1) + (n - k) :
            (x \o y)[i] = IF i <= m + 1 THEN x[i] ELSE y[i - (m + 1)]
  <2>1. /\ x \o y \in Seq(Octet) /\ Len(x \o y) = Len(x) + Len(y)
        /\ \A i \in 1 .. Len(x) + Len(y) :
              (x \o y)[i] = IF i <= Len(x) THEN x[i] ELSE y[i - Len(x)]
    BY <1>2, <1>5, ConcatProperties
  <2> QED
    BY <1>2, <1>5, <2>1
<1>7. /\ r \o z \in Seq(Octet) /\ Len(r \o z) = m + (n - k + 1)
      /\ \A i \in 1 .. m + (n - k + 1) :
            (r \o z)[i] = IF i <= m THEN r[i] ELSE z[i - m]
  BY <1>4, ConcatProperties DEF m
<1>8. Len(x \o y) = Len(r \o z)
  BY <1>1, <1>6, <1>7
<1>9. ASSUME NEW i \in 1 .. Len(x \o y)
      PROVE  (x \o y)[i] = (r \o z)[i]
  <2>1. i \in 1 .. (m + 1) + (n - k) /\ i \in 1 .. m + (n - k + 1) /\ i \in Int
    BY <1>1, <1>6, <1>9
  <2>2. CASE i <= m
    <3>1. i \in 1 .. m /\ i <= m + 1
      BY <1>1, <2>1, <2>2
    <3> QED
      BY <1>2, <1>6, <1>7, <2>1, <2>2, <3>1
  <2>3. CASE i = m + 1
    <3>1. i - m = 1 /\ 1 \in 1 .. n - k + 1 /\ k + 1 - 1 = k /\ ~ (i <= m)
      BY <1>1, <2>3
    <3>2. (x \o y)[i] = b[k]
      BY <1>1, <1>2, <1>6, <2>1, <2>3
    <3>3. (r \o z)[i] = z[1]
      BY <1>7, <2>1, <3>1
    <3> QED
      BY <1>4, <3>1, <3>2, <3>3
  <2>4. CASE i > m + 1
    <3>1. /\ i - (m + 1) \in 1 .. n - k /\ i - m \in 1 .. n - k + 1
          /\ k + (i - (m + 1)) = k + (i - m) - 1
          /\ ~ (i <= m) /\ ~ (i <= m + 1)
      BY <1>1, <2>1, <2>4
    <3>2. (x \o y)[i] = b[k + (i - (m + 1))]
      BY <1>5, <1>6, <2>1, <3>1
    <3>3. (r \o z)[i] = b[k + (i - m) - 1]
      BY <1>4, <1>7, <2>1, <3>1
    <3> QED
      BY <3>1, <3>2, <3>3
  <2>5. i <= m \/ i = m + 1 \/ i > m + 1
    BY <1>1, <2>1
  <2> QED
    BY <2>2, <2>3, <2>4, <2>5
<1>10. x \o y = r \o z
  BY <1>6, <1>7, <1>8, <1>9, SeqEqual
<1> QED
  BY <1>7, <1>10 DEF x, y, z, n

(* A NUL is a character of its own.                                         *)
LEMMA NulIsAlone ==
  ASSUME NEW s \in Seq(Octet), IsCharacter(s), NEW i \in 1 .. Len(s), s[i] = 0
  PROVE  Len(s) = 1
<1> DEFINE n == Len(s)  a == s[1]  b == s[2]  c == s[3]  d == s[4]
<1>1. Row(n, a, b, c, d)
  BY CharacterRows
<1>2. /\ i = 1 => s[i] = a
      /\ i = 2 => s[i] = b
      /\ i = 3 => s[i] = c
      /\ i = 4 => s[i] = d
  OBVIOUS
<1>3. n \in Int /\ 1 <= n /\ n <= 4 /\ i \in Int /\ 1 <= i /\ i <= n
  BY CharacterLength
<1>4. s[i] = 0
  OBVIOUS
<1> HIDE DEF n, a, b, c, d
<1>5. /\ n >= 2 => a # 0 /\ b # 0
      /\ n >= 3 => c # 0
      /\ n >= 4 => d # 0
  BY <1>1, SMT DEF Row, Between
<1>6. i = 1 \/ i = 2 \/ i = 3 \/ i = 4
  BY <1>3
<1>7. n = 1
  BY <1>2, <1>3, <1>4, <1>5, <1>6
<1> QED
  BY <1>7 DEF n

(* Of the octets in front of a place, those that are not lost are as many   *)
(* more, at a later place, as lie between, less what got lost there.        *)
LEMMA LostGrows ==
  ASSUME NEW N \in Nat, \A i \in lost : i \in Nat /\ 1 <= i /\ i < N
  PROVE  /\ IsFiniteSet(lost) /\ Cardinality(lost) \in Nat
         /\ \A i \in Nat : LostBefore(i) \in Nat
         /\ \A i \in Nat : 1 <= i => LostBefore(i) <= i - 1
         /\ \A i \in Nat : N <= i => LostBefore(i) = Cardinality(lost)
         /\ \A i, j \in Nat : i < j /\ i \notin lost =>
               LostBefore(j) <= LostBefore(i) + (j - i - 1)
<1> DEFINE before(i) == {k \in lost : k < i}
<1>1. IsFiniteSet(lost)
  <2>1. lost \in SUBSET (1 .. N)
    OBVIOUS
  <2>2. IsFiniteSet(1 .. N)
    BY FS_Interval
  <2> QED
    BY <2>1, <2>2, FS_Subset
<1>2. \A i : /\ IsFiniteSet(before(i)) /\ Cardinality(before(i)) \in Nat
             /\ LostBefore(i) = Cardinality(before(i))
  BY <1>1, FS_Subset, FS_CardinalityType DEF LostBefore
<1>3. \A i \in Nat : 1 <= i => LostBefore(i) <= i - 1
  <2> SUFFICES ASSUME NEW i \in Nat, 1 <= i
               PROVE  LostBefore(i) <= i - 1
    OBVIOUS
  <2>1. before(i) \in SUBSET (1 .. i - 1)
    OBVIOUS
  <2>2. IsFiniteSet(1 .. i - 1) /\ Cardinality(1 .. i - 1) = i - 1
    <3>1. 1 \in Int /\ i - 1 \in Int /\ (1 > i - 1 => i - 1 = 0)
          /\ i - 1 - 1 + 1 = i - 1
      OBVIOUS
    <3> QED
      BY <3>1, FS_Interval
  <2> HIDE DEF before
  <2> QED
    BY <1>2, <2>1, <2>2, FS_Subset
<1>4. \A i \in Nat : N <= i => LostBefore(i) = Cardinality(lost)
  <2> SUFFICES ASSUME NEW i \in Nat, N <= i
               PROVE  before(i) = lost
    BY <1>2
  <2> QED
    OBVIOUS
<1>5. ASSUME NEW i \in Nat, NEW j \in Nat, i < j, i \notin lost
      PROVE  LostBefore(j) <= LostBefore(i) + (j - i - 1)
  <2> DEFINE between == i + 1 .. j - 1
  <2>1. before(j) \in SUBSET (before(i) \cup between)
    BY <1>5
  <2>2. IsFiniteSet(between) /\ Cardinality(between) = j - i - 1
    <3>1. i + 1 \in Int /\ j - 1 \in Int
      OBVIOUS
    <3>2. /\ IsFiniteSet(between)
          /\ Cardinality(between) = IF i + 1 > j - 1 THEN 0 ELSE j - 1 - (i + 1) + 1
      BY <3>1, FS_Interval
    <3> HIDE DEF between
    <3> QED
      BY <1>5, <3>2
  <2> HIDE DEF before, between
  <2>3. /\ IsFiniteSet(before(i) \cup between)
        /\ Cardinality(before(i) \cup between) =
              Cardinality(before(i)) + Cardinality(between)
                - Cardinality(before(i) \cap between)
    BY <1>2, <2>2, FS_Union
  <2>4. Cardinality(before(i) \cap between) \in Nat
    <3>1. before(i) \cap between \in SUBSET between
      OBVIOUS
    <3> QED
      BY <2>2, <3>1, FS_Subset, FS_CardinalityType
  <2>5. Cardinality(before(j)) <= Cardinality(before(i) \cup between)
    BY <2>1, <2>3, FS_Subset
  <2> QED
    BY <1>2, <2>2, <2>3, <2>4, <2>5
<1>6. Cardinality(lost) \in Nat /\ \A i \in Nat : LostBefore(i) \in Nat
  BY <1>1, <1>2, FS_CardinalityType
<1> QED
  BY <1>1, <1>3, <1>4, <1>5, <1>6

(* GetNext and Unget: the octet goes over between what was given out and    *)
(* the rest, and nothing else changes.                                      *)
LEMMA MovesPass ==
  ASSUME StreamInv, PassInv, GetNext \/ Unget
  PROVE  PassInv'
<1>1. /\ taken' = taken /\ lost' = lost /\ state = "OK" /\ state' = state
      /\ buffer' = buffer
  BY DEF GetNext, GiveOut, Unget
<1>2. /\ read \in Seq(Octet) /\ buffer \in Seq(Octet) /\ Len(buffer) \in Nat
      /\ buffer_pos \in Int /\ 0 <= buffer_pos /\ buffer_pos <= Len(buffer)
  BY DEF StreamInv
<1>3. Passed' = Passed /\ (read' # <<>> /\ back' = None =>
                              Last(read') = buffer'[buffer_pos'])
  <2>1. CASE GetNext
    <3>1. /\ buffer_pos < Len(buffer)
          /\ buffer_pos' = buffer_pos + 1
          /\ read' = Append(read, buffer[buffer_pos + 1])
      BY <2>1 DEF GetNext, GiveOut, Exhausted
    <3>2. buffer_pos + 1 \in 1 .. Len(buffer)
      BY <1>2, <3>1
    <3>3. Passed' = Passed
      BY <1>1, <1>2, <3>1, <3>2, RestMoves DEF Passed
    <3>4. Last(read') = buffer[buffer_pos + 1]
      <4>1. buffer[buffer_pos + 1] \in Octet
        BY <1>2, <3>2, ElementOfSeq
      <4> QED
        BY <1>2, <3>1, <4>1, AppendProperties DEF Last
    <3> QED
      BY <1>1, <3>1, <3>3, <3>4
  <2>2. CASE Unget
    <3> DEFINE r == Front(read)  c == Last(read)
    <3>1. /\ read # <<>> /\ back = None /\ back' = c
          /\ buffer_pos' = buffer_pos - 1 /\ read' = r
      BY <2>2 DEF Unget
    <3>2. c = buffer[buffer_pos] /\ buffer_pos >= 1
      BY <1>1, <3>1 DEF PassInv, StreamInv, Place
    <3>3. buffer_pos \in 1 .. Len(buffer) /\ (buffer_pos - 1) + 1 = buffer_pos
      BY <1>2, <3>2
    <3>4. r \in Seq(Octet) /\ Append(r, c) = read
      BY <1>2, <3>1, FrontAndLast
    <3>5. c # None
      <4>1. Between(c, 0, 255)
        BY <1>2, <3>2, <3>3, ElementOfSeq, OctetRange
      <4> QED
        BY <4>1, SMT DEF Between, None
    <3> HIDE DEF r, c
    <3>6. Passed' = r \o SubSeq(buffer, buffer_pos, Len(buffer))
      BY <1>1, <3>1, <3>3 DEF Passed
    <3>7. Passed = Append(r, buffer[buffer_pos]) \o SubSeq(buffer, buffer_pos + 1, Len(buffer))
      BY <3>2, <3>4 DEF Passed
    <3>8. Passed' = Passed
      BY <1>2, <3>3, <3>4, <3>6, <3>7, RestMoves
    <3> QED
      BY <3>1, <3>5, <3>8
  <2> QED
    BY <2>1, <2>2
<1>4. \A i : LostBefore(i)' = LostBefore(i)
  BY <1>1 DEF LostBefore
<1> QED
  BY <1>1, <1>3, <1>4 DEF PassInv

(* Refill: the new character comes behind what was passed on, less the NUL  *)
(* that was given back.                                                     *)
LEMMA RefillPasses ==
  ASSUME StreamInv, PassInv, state = "OK", Exhausted,
         NEW e \in Seq(Octet), Len(e) \in Int, 1 <= Len(e),
         taken' = taken \o e, Refill(e)
  PROVE  PassInv'
<1> DEFINE T == Len(taken)  m == Len(read)  n == Len(e)
           L == Cardinality(lost)  nul == buffer_pos < Len(buffer)
<1>1. /\ taken \in Seq(Octet) /\ read \in Seq(Octet) /\ buffer \in Seq(Octet)
      /\ buffer_pos \in Int /\ 0 <= buffer_pos /\ buffer_pos <= Len(buffer)
      /\ buffer = <<>> \/ IsCharacter(buffer)
  BY DEF StreamInv
<1>2. T \in Nat /\ m \in Nat /\ n \in Nat /\ Len(buffer) \in Nat
      /\ DOMAIN taken = 1 .. T
  BY <1>1, LenProperties
<1>3. \A i \in lost : i \in Nat /\ 1 <= i /\ i < T /\ taken[i] = 0
  BY DEF PassInv
<1>4. /\ Len(Passed) = T - L
      /\ \A i \in 1 .. T : i \notin lost => Passed[i - LostBefore(i)] = taken[i]
  BY <1>2 DEF PassInv
<1>5. /\ IsFiniteSet(lost) /\ L \in Nat
      /\ \A i \in Nat : LostBefore(i) \in Nat
      /\ \A i \in Nat : 1 <= i => LostBefore(i) <= i - 1
      /\ \A i \in Nat : T <= i => LostBefore(i) = L
      /\ \A i, j \in Nat : i < j /\ i \notin lost =>
            LostBefore(j) <= LostBefore(i) + (j - i - 1)
  BY <1>2, <1>3, LostGrows
<1>6. /\ state' = state /\ read' = Append(read, e[1]) /\ buffer' = e
      /\ buffer_pos' = 1 /\ lost' = IF nul THEN lost \cup {T} ELSE lost
  BY DEF Refill, GiveOut
<1>7. Passed' = read \o e
  <2>1. 1 \in 1 .. Len(e) /\ 1 + 1 = 2
    BY <1>2
  <2>2. Append(read, e[1]) \o SubSeq(e, 1 + 1, Len(e)) = read \o SubSeq(e, 1, Len(e))
    BY <1>1, <2>1, RestMoves
  <2>3. SubSeq(e, 1, Len(e)) = e
    BY SubSeqFull
  <2> QED
    BY <1>6, <2>1, <2>2, <2>3 DEF Passed
<1>8. /\ Len(taken') = T + n /\ DOMAIN taken' = 1 .. T + n
      /\ \A i \in 1 .. T + n : taken'[i] = IF i <= T THEN taken[i] ELSE e[i - T]
  <2>1. /\ taken' \in Seq(Octet) /\ Len(taken') = T + n
        /\ \A i \in 1 .. T + n : taken'[i] = IF i <= T THEN taken[i] ELSE e[i - T]
    BY <1>1, ConcatProperties
  <2>2. DOMAIN taken' = 1 .. Len(taken')
    BY <2>1, LenProperties
  <2> QED
    BY <2>1, <2>2
<1>9. /\ Len(Passed') = m + n
      /\ \A i \in 1 .. m + n : Passed'[i] = IF i <= m THEN read[i] ELSE e[i - m]
  BY <1>1, <1>7, ConcatProperties
<1>10. Last(read') = buffer'[buffer_pos']
  <2>1. e[1] \in Octet
    BY <1>2, ElementOfSeq
  <2> QED
    BY <1>1, <1>6, <2>1, AppendProperties DEF Last
<1> HIDE DEF T, m, n, L
<1>11. /\ Cardinality(lost') = T - m
       /\ \A i \in lost' : i \in Nat /\ 1 <= i /\ i <= T /\ taken[i] = 0
       /\ \A i \in 1 .. T : i \notin lost' =>
             /\ i - LostBefore(i) \in 1 .. m
             /\ read[i - LostBefore(i)] = taken[i]
             /\ LostBefore(i)' = LostBefore(i)
  <2>1. CASE ~ nul
    <3>1. buffer_pos = Len(buffer)
      BY <1>1, <1>2, <2>1
    <3>2. Passed = read
      <4>1. buffer_pos + 1 \in Int /\ Len(buffer) \in Int /\ Len(buffer) < buffer_pos + 1
        BY <1>1, <1>2, <3>1
      <4>2. SubSeq(buffer, buffer_pos + 1, Len(buffer)) = <<>>
        BY <4>1, SubSeqEmpty
      <4> QED
        BY <1>1, <4>2, ConcatEmptySeq DEF Passed
    <3>3. lost' = lost /\ m = T - L
      BY <1>4, <1>6, <2>1, <3>2 DEF m
    <3>4. Cardinality(lost') = T - m
      BY <1>2, <1>5, <3>3 DEF L
    <3>5. ASSUME NEW i \in 1 .. T, i \notin lost
          PROVE  i - LostBefore(i) \in 1 .. m
      <4> DEFINE j == T + 1  p == LostBefore(i)
      <4>1. i \in Nat /\ 1 <= i /\ i <= T /\ j \in Nat /\ i < j /\ T <= j
            /\ j - i - 1 = T - i
        BY <1>2
      <4> HIDE DEF j
      <4>2. LostBefore(j) = L /\ p \in Nat /\ p <= i - 1
        BY <1>5, <4>1
      <4>3. LostBefore(j) <= LostBefore(i) + (j - i - 1)
        BY <1>5, <3>5, <4>1
      <4> HIDE DEF p
      <4>4. L <= p + (T - i)
        BY <4>1, <4>2, <4>3 DEF p
      <4>5. i - p \in 1 .. m
        BY <1>2, <1>5, <3>3, <4>1, <4>2, <4>4
      <4> QED
        BY <4>5 DEF p
    <3>6. \A i : LostBefore(i)' = LostBefore(i)
      BY <3>3 DEF LostBefore
    <3>7. \A i \in lost' : i \in Nat /\ 1 <= i /\ i <= T /\ taken[i] = 0
      BY <1>2, <1>3, <3>3
    <3> QED
      BY <1>4, <3>2, <3>3, <3>4, <3>5, <3>6, <3>7
  <2>2. CASE nul
    <3>1. buffer # <<>> /\ buffer[buffer_pos + 1] = 0 /\ buffer_pos + 1 \in 1 .. Len(buffer)
      <4>1. buffer_pos + 1 \in 1 .. Len(buffer)
        BY <1>1, <1>2, <2>2
      <4>2. buffer # <<>>
        BY <4>1
      <4> QED
        BY <2>2, <4>1, <4>2 DEF Exhausted
    <3>2. Len(buffer) = 1 /\ buffer_pos = 0
      <4>1. Len(buffer) = 1
        BY <1>1, <3>1, NulIsAlone
      <4> QED
        BY <1>1, <2>2, <4>1
    <3>3. /\ Len(Passed) = m + 1
          /\ \A i \in 1 .. m + 1 : Passed[i] = IF i <= m THEN read[i] ELSE 0
      <4>1. SubSeq(buffer, buffer_pos + 1, Len(buffer)) = buffer
        <5>1. buffer_pos + 1 = 1
          BY <3>2
        <5> QED
          BY <1>1, <5>1, SubSeqFull
      <4>2. /\ Len(read \o buffer) = m + 1
            /\ \A i \in 1 .. m + 1 :
                  (read \o buffer)[i] = IF i <= m THEN read[i] ELSE buffer[i - m]
        <5>1. /\ Len(read \o buffer) = m + Len(buffer)
              /\ \A i \in 1 .. m + Len(buffer) :
                    (read \o buffer)[i] = IF i <= m THEN read[i] ELSE buffer[i - m]
          BY <1>1, ConcatProperties DEF m
        <5> QED
          BY <3>2, <5>1
      <4>3. \A i \in 1 .. m + 1 : ~ (i <= m) => i - m = buffer_pos + 1
        BY <1>2, <3>2
      <4> QED
        BY <3>1, <4>1, <4>2, <4>3 DEF Passed
    <3>4. m + 1 = T - L /\ T \notin lost /\ T \in 1 .. T
      <4>1. m + 1 = T - L
        BY <1>4, <3>3
      <4>2. T \notin lost
        BY <1>2, <1>3
      <4> QED
        BY <1>2, <1>5, <4>1, <4>2
    <3>5. lost' = lost \cup {T}
      BY <1>6, <2>2
    <3>6. Cardinality(lost') = T - m
      <4>1. Cardinality(lost \cup {T}) = L + 1
        BY <1>5, <3>4, FS_AddElement DEF L
      <4> QED
        BY <1>2, <1>5, <3>4, <3>5, <4>1
    <3>7. taken[T] = 0
      <4>1. LostBefore(T) = L
        BY <1>2, <1>5
      <4>2. Passed[T - L] = taken[T]
        BY <1>4, <3>4, <4>1
      <4>3. T - L \in 1 .. m + 1 /\ ~ (T - L <= m)
        BY <1>2, <1>5, <3>4
      <4> QED
        BY <3>3, <4>2, <4>3
    <3>8. ASSUME NEW i \in 1 .. T, i \notin lost'
          PROVE  /\ i - LostBefore(i) \in 1 .. m
                 /\ read[i - LostBefore(i)] = taken[i]
                 /\ LostBefore(i)' = LostBefore(i)
      <4>1. i \in Nat /\ 1 <= i /\ i < T /\ T <= T /\ i \notin lost
        BY <1>2, <3>5, <3>8
      <4>2. LostBefore(T) = L /\ LostBefore(i) \in Nat /\ LostBefore(i) <= i - 1
        BY <1>2, <1>5, <4>1
      <4>3. L <= LostBefore(i) + (T - i - 1)
        BY <1>2, <1>5, <4>1, <4>2
      <4>4. i - LostBefore(i) \in 1 .. m /\ i - LostBefore(i) \in 1 .. m + 1
            /\ i - LostBefore(i) <= m
        <5> DEFINE p == LostBefore(i)
        <5>1. p \in Nat /\ p <= i - 1 /\ L <= p + (T - i - 1)
          BY <4>2, <4>3
        <5> HIDE DEF p
        <5>0. i \in Int /\ m + 1 = T - L /\ L \in Int /\ T \in Int /\ m \in Int
          BY <1>2, <1>5, <3>4, <4>1
        <5>2. i - p \in 1 .. m /\ i - p \in 1 .. m + 1 /\ i - p <= m
          BY <4>1, <5>0, <5>1
        <5> QED
          BY <5>2 DEF p
      <4>5. read[i - LostBefore(i)] = taken[i]
        BY <1>4, <3>3, <4>1, <4>4
      <4>6. {j \in lost' : j < i} = {j \in lost : j < i}
        BY <1>2, <3>5, <4>1
      <4> QED
        BY <4>4, <4>5, <4>6 DEF LostBefore
    <3>9. \A i \in lost' : i \in Nat /\ 1 <= i /\ i <= T /\ taken[i] = 0
      BY <1>2, <1>3, <3>4, <3>5, <3>7
    <3> QED
      BY <3>6, <3>8, <3>9
  <2> QED
    BY <2>1, <2>2
<1>12. ASSUME NEW i \in lost'
       PROVE  i \in Nat /\ 1 <= i /\ i < Len(taken') /\ taken'[i] = 0
  <2>1. i \in Nat /\ 1 <= i /\ i <= T /\ taken[i] = 0
    BY <1>11
  <2>2. i \in 1 .. T + n /\ i < T + n
    BY <1>2, <2>1 DEF n
  <2> QED
    BY <1>8, <2>1, <2>2
<1>13. Len(Passed') = Len(taken') - Cardinality(lost')
  BY <1>2, <1>8, <1>9, <1>11
<1>14. ASSUME NEW i \in 1 .. T + n, i \notin lost'
       PROVE  Passed'[i - LostBefore(i)'] = taken'[i]
  <2>1. CASE i <= T
    <3>1. i \in 1 .. T
      BY <1>2, <2>1
    <3> DEFINE k == i - LostBefore(i)
    <3>2. k \in 1 .. m /\ read[k] = taken[i] /\ LostBefore(i)' = LostBefore(i)
      BY <1>11, <1>14, <3>1
    <3> HIDE DEF k
    <3>3. k \in 1 .. m + n /\ k <= m
      BY <1>2, <3>2
    <3>4. Passed'[k] = taken[i] /\ taken'[i] = taken[i]
      BY <1>8, <1>9, <1>14, <2>1, <3>2, <3>3
    <3> QED
      BY <3>2, <3>4 DEF k
  <2>2. CASE ~ (i <= T)
    <3>1. \A j \in lost' : j \in Nat /\ j <= T /\ j < i
      <4>1. i \in Int /\ i > T
        BY <1>2, <2>2
      <4> QED
        BY <1>2, <1>11, <4>1
    <3>2. LostBefore(i)' = T - m
      <4>1. {j \in lost' : j < i} = lost'
        BY <3>1
      <4> QED
        BY <1>11, <4>1 DEF LostBefore
    <3>3. /\ i - (T - m) \in 1 .. m + n /\ ~ (i - (T - m) <= m)
          /\ i - (T - m) - m = i - T
      BY <1>2, <2>2
    <3> QED
      BY <1>8, <1>9, <1>14, <2>2, <3>2, <3>3
  <2> QED
    BY <2>1, <2>2
<1> QED
  BY <1>8, <1>10, <1>12, <1>13, <1>14 DEF PassInv

(* Every step keeps what is passed on.                                      *)
LEMMA PassNext ==
  ASSUME StreamAssumption, StreamInv, PassInv, [StreamNext]_streamVars
  PROVE  PassInv'
<1>1. CASE GetEnd
  <2>1. /\ UNCHANGED <<taken, read, buffer, buffer_pos, lost>>
        /\ state = "OK" /\ state' = "EOF"
    BY <1>1 DEF GetEnd, Stop
  <2>2. Passed' = Passed /\ \A i : LostBefore(i)' = LostBefore(i)
    BY <2>1 DEF Passed, LostBefore
  <2> QED
    BY <2>1, <2>2 DEF PassInv
<1>2. CASE GetCharacter
  <2>1. PICK e \in Seq(Octet) : NewCharacter(e)
    BY <1>2, CharacterTaken
  <2>2. /\ state = "OK" /\ Exhausted /\ Len(e) \in Int /\ 1 <= Len(e)
        /\ taken' = taken \o e
    BY <1>2, <2>1 DEF GetCharacter, NewCharacter
  <2>3. CASE Refill(e)
    BY <2>2, <2>3, RefillPasses
  <2>4. CASE IllFormed
    <3>1. lost' = lost /\ state' = "ERROR"
      BY <2>4 DEF IllFormed, Stop
    <3>2. taken \in Seq(Octet)
      BY DEF StreamInv
    <3>3. /\ Len(taken') = Len(taken) + Len(e) /\ Len(taken) \in Nat
          /\ \A i \in 1 .. Len(taken) + Len(e) :
                taken'[i] = IF i <= Len(taken) THEN taken[i] ELSE e[i - Len(taken)]
      BY <2>2, <3>2, ConcatProperties, LenProperties
    <3>4. \A i \in lost : i \in Nat /\ 1 <= i /\ i < Len(taken) /\ taken[i] = 0
      BY DEF PassInv
    <3>5. ASSUME NEW i \in lost
          PROVE  i \in Nat /\ 1 <= i /\ i < Len(taken') /\ taken'[i] = 0
      <4>1. i \in 1 .. Len(taken) + Len(e) /\ i <= Len(taken)
            /\ i < Len(taken) + Len(e)
        BY <2>2, <3>3, <3>4
      <4> QED
        BY <3>3, <3>4, <4>1
    <3> QED
      BY <3>1, <3>5 DEF PassInv
  <2> QED
    BY <2>1, <2>3, <2>4 DEF NewCharacter
<1>3. CASE UNCHANGED streamVars
  <2>1. UNCHANGED <<taken, read, buffer, buffer_pos, lost, state, back>>
    BY <1>3 DEF streamVars
  <2>2. Passed' = Passed /\ \A i : LostBefore(i)' = LostBefore(i)
    BY <2>1 DEF Passed, LostBefore
  <2> QED
    BY <2>1, <2>2 DEF PassInv
<1> QED
  BY <1>1, <1>2, <1>3, MovesPass DEF StreamNext

(* It holds at first.                                                       *)
LEMMA PassStarts ==
  ASSUME StreamInit
  PROVE  PassInv
<1>1. taken = <<>> /\ read = <<>> /\ buffer = <<>> /\ buffer_pos = 0 /\ lost = {}
  BY DEF StreamInit
<1>2. Len(<<>>) = 0 /\ DOMAIN <<>> = {} /\ <<>> \in Seq(Octet)
  BY EmptySeq
<1>3. SubSeq(<<>>, 0 + 1, 0) = <<>>
  BY SubSeqEmpty
<1>4. Passed = <<>>
  BY <1>1, <1>2, <1>3, ConcatEmptySeq DEF Passed
<1>5. Cardinality(lost) = 0
  BY <1>1, FS_EmptySet
<1> QED
  BY <1>1, <1>2, <1>4, <1>5 DEF PassInv

-----------------------------------------------------------------------------
(* The invariant holds in every state of the stream.                        *)
THEOREM StreamInvariant ==
  ASSUME StreamAssumption
  PROVE  StreamSpec => [](StreamInv /\ PassInv)
<1>1. StreamInit => StreamInv /\ PassInv
  BY StreamStarts, PassStarts
<1>2. StreamInv /\ [StreamNext]_streamVars => StreamInv'
  <2> SUFFICES ASSUME StreamInv, [StreamNext]_streamVars
               PROVE  StreamInv'
    OBVIOUS
  <2>1. CASE GetNext
    BY <2>1, GetNextSteps
  <2>2. CASE GetEnd
    BY <2>2, GetEndSteps
  <2>3. CASE GetCharacter
    BY <2>3, GetCharacterSteps
  <2>4. CASE Unget
    BY <2>4, UngetSteps
  <2>5. CASE UNCHANGED streamVars
    BY <2>5 DEF streamVars, StreamInv, Place
  <2> QED
    BY <2>1, <2>2, <2>3, <2>4, <2>5 DEF StreamNext
<1>3. StreamInv /\ PassInv /\ [StreamNext]_streamVars => PassInv'
  BY PassNext
<1> QED
  BY <1>1, <1>2, <1>3, PTL DEF StreamSpec

(* The invariant implies each thing that the stream promises.               *)
LEMMA StreamPromises ==
  ASSUME StreamInv, PassInv
  PROVE  OctetsAreSound
<1>1. /\ taken \in Seq(Octet) /\ read \in Seq(Octet) /\ buffer \in Seq(Octet)
      /\ buffer_pos \in Int /\ 0 <= buffer_pos /\ buffer_pos <= Len(buffer)
      /\ state \in {"OK", "EOF", "ERROR"}
      /\ last_column \in Nat /\ back \in Octet \cup {None}
      /\ state = "ERROR" <=> ~ IsUTF8(taken)
      /\ buffer = <<>> \/ IsCharacter(buffer)
      /\ \A i \in 1 .. Len(read) : Carried(read[i])
      /\ position = Len(read)
      /\ line = 1 + Cardinality(News(read))
      /\ column = Cardinality(Cols(read))
  BY DEF StreamInv, Place
<1>2. Cardinality(News(read)) \in Nat /\ Cardinality(Cols(read)) \in Nat
  BY <1>1, PlacesAreFinite, FS_CardinalityType
<1>3. StreamTypeOK
  <2>1. buffer_pos \in 0 .. Len(buffer) /\ position \in Nat
    BY <1>1
  <2>2. line \in Nat \ {0} /\ column \in Nat
    BY <1>1, <1>2
  <2>3. lost \subseteq DOMAIN taken
    <3>1. \A i \in lost : i \in Nat /\ 1 <= i /\ i < Len(taken)
      BY DEF PassInv
    <3>2. DOMAIN taken = 1 .. Len(taken) /\ Len(taken) \in Nat
      BY <1>1, LenProperties
    <3> QED
      BY <3>1, <3>2
  <2> QED
    BY <1>1, <2>1, <2>2, <2>3 DEF StreamTypeOK
<1>4. ErrorsAreIllFormed
  BY <1>1 DEF ErrorsAreIllFormed
<1>5. StringsAreUTF8
  <2> SUFFICES ASSUME NEW n \in 0 .. Len(taken)
               PROVE  utf8_check_string(SubSeq(taken, 1, n)) =
                        IsUTF8(SubSeq(taken, 1, n))
    BY DEF StringsAreUTF8
  <2> DEFINE s == SubSeq(taken, 1, n)
  <2>1. s \in Seq(Octet)
    <3>1. n \in Int /\ 1 \in Int
      OBVIOUS
    <3>2. \A i \in 1 .. n : taken[i] \in Octet
      <4>1. \A i \in 1 .. n : i \in 1 .. Len(taken)
        BY <1>1
      <4> QED
        BY <1>1, <4>1, ElementOfSeq
    <3> QED
      BY <3>1, <3>2, SubSeqProperties
  <2> HIDE DEF s
  <2>2. PICK f : Valid(s, f)
    BY <2>1, ValidExists
  <2>3. utf8_check_string(s) = IsUTF8(s)
    BY <2>1, <2>2, TextIsValid
  <2> QED
    BY <2>3 DEF s
<1>6. NoOctetIsAStatus
  <2>1. DOMAIN read = 1 .. Len(read)
    BY <1>1
  <2> QED
    BY <1>1, <2>1, CarriedOctets DEF NoOctetIsAStatus
<1>7. EncodeUndoesDecode
  <2> SUFFICES ASSUME Len(buffer) > 1
               PROVE  utf8_encode(CodePoint(buffer)) = buffer
    BY DEF EncodeUndoesDecode
  <2>1. buffer # <<>>
    BY EmptySeq
  <2> QED
    BY <1>1, <2>1, EncodeIsInverse
<1>8. PlaceIsExact
  <2> DEFINE newlines == {i \in DOMAIN read : read[i] = Newline}
             start    == CHOOSE i \in newlines \cup {0} :
                           \A j \in newlines : j <= i
             columns  == {i \in start + 1 .. Len(read) :
                            read[i] \notin Continuation}
  <2>1. newlines = News(read) /\ columns = Cols(read)
    BY <1>1, PlaceOfRead
  <2>2. PlaceIsExact <=> /\ position = Len(read)
                         /\ line = 1 + Cardinality(newlines)
                         /\ column = Cardinality(columns)
    BY DEF PlaceIsExact
  <2> HIDE DEF newlines, columns
  <2> QED
    BY <1>1, <2>1, <2>2
<1>9. PassesWhatCame
  BY DEF PassInv, PassesWhatCame
<1> QED
  BY <1>3, <1>4, <1>5, <1>6, <1>7, <1>8, <1>9 DEF OctetsAreSound

(* Every state of the stream, for every source and however much is taken of *)
(* it: the types hold; the stream has failed exactly when what it has taken *)
(* is not UTF-8 by the table of the standard; utf8_check_string decides the *)
(* same for every beginning of it; no octet that was given out reads as a   *)
(* status; encoding what was decoded gives the same octets; all that came   *)
(* is passed on, in order and once, but for a NUL that was given back; and  *)
(* the line, the column and the position are those of what has been read,   *)
(* however the lexer went back.                                             *)
THEOREM OctetsSound ==
  ASSUME StreamAssumption
  PROVE  StreamSpec => []OctetsAreSound
<1>1. StreamInv /\ PassInv => OctetsAreSound
  BY StreamPromises
<1> QED
  BY <1>1, StreamInvariant, PTL

=============================================================================
