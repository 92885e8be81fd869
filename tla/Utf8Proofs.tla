----------------------------- MODULE Utf8Proofs -----------------------------
(***************************************************************************)
(* is_valid_utf8 stays within the name and the byte after it, and answers   *)
(* what the definition by code points says, for names of any length and of  *)
(* any bytes.                                                               *)
(***************************************************************************)
EXTENDS Utf8, TLAPS

\* What the loop keeps.  The byte after the name is no continuation byte, so
\* that the tests of a sequence that runs over the end stop there.
Inv ==
    /\ maxlen \in Nat \ {0} /\ ix \in Nat /\ far \in Nat
    /\ mem \in [1..(maxlen + 1) -> 0..255]
    /\ mem[maxlen + 1] \in 0..127
    /\ InBounds

\* The byte after the name, as the loop reads it.
LEMMA AfterName == ASSUME Inv PROVE ~ Cont(s(maxlen))
<1>1. maxlen + 1 \in DOMAIN mem
  BY DEF Inv
<1>2. s(maxlen) = mem[maxlen + 1]
  BY <1>1 DEF s
<1>3. mem[maxlen + 1] \notin 128..191
  <2>1. mem[maxlen + 1] \in 0..127
    BY DEF Inv
  <2>2. \A b \in 0..127 : b \notin 128..191
    OBVIOUS
  <2> QED
    BY <2>1, <2>2
<1> QED
  BY <1>2, <1>3 DEF Cont

\* A byte that is found to be wrong is at most the one after the name, and if
\* none is the sequence ends within the name.
LEMMA BadByteFacts ==
    ASSUME Inv, Running, NEW n \in 2..4
    PROVE  /\ BadByte(n) \in 0..maxlen
           /\ BadByte(n) = 0 => ix + n <= maxlen
<1>1. ~ Cont(s(maxlen))
  BY AfterName
<1>2. maxlen \in Nat /\ ix \in Nat /\ ix < maxlen
  BY DEF Inv, Running
<1>3. ix + 1 <= maxlen
  BY <1>2
<1>4. Cont(s(ix + 1)) => ix + 2 <= maxlen
  <2>1. ix + 1 = maxlen => ~ Cont(s(ix + 1))
    BY <1>1
  <2> QED
    BY <2>1, <1>2, <1>3
<1>5. Cont(s(ix + 1)) /\ Cont(s(ix + 2)) => ix + 3 <= maxlen
  <2>1. ix + 2 = maxlen => ~ Cont(s(ix + 2))
    BY <1>1
  <2> QED
    BY <2>1, <1>2, <1>4
<1>6. Cont(s(ix + 1)) /\ Cont(s(ix + 2)) /\ Cont(s(ix + 3)) => ix + 4 <= maxlen
  <2>1. ix + 3 = maxlen => ~ Cont(s(ix + 3))
    BY <1>1
  <2> QED
    BY <2>1, <1>2, <1>5
<1> QED
  BY <1>2, <1>3, <1>4, <1>5, <1>6 DEF BadByte

\* A sequence of n bytes keeps the invariant, whether it is accepted or not.
LEMMA MultiKeepsInv ==
    ASSUME Inv, Running, NEW n \in 2..4, Multi(n)
    PROVE  Inv'
<1>1. BadByte(n) \in 0..maxlen /\ (BadByte(n) = 0 => ix + n <= maxlen)
  BY BadByteFacts
<1>2. UNCHANGED <<mem, maxlen>>
  BY DEF Multi
<1>3. ix' \in Nat /\ ix' <= maxlen
  BY <1>1 DEF Multi, Inv, InBounds
<1>4. far' \in Nat /\ far' <= maxlen
  BY <1>1 DEF Multi, Reads, Inv, InBounds
<1> QED
  BY <1>2, <1>3, <1>4 DEF Inv, InBounds

\* One step of the loop keeps the invariant.
LEMMA StepKeepsInv == Inv /\ [Next]_vars => Inv'
<1> SUFFICES ASSUME Inv, [Next]_vars PROVE Inv'
  OBVIOUS
<1>1. CASE Ascii
  BY <1>1 DEF Ascii, Running, Reads, Inv, InBounds
<1>2. CASE TwoBytes
  BY <1>2, MultiKeepsInv DEF TwoBytes
<1>3. CASE ThreeBytes
  BY <1>3, MultiKeepsInv DEF ThreeBytes
<1>4. CASE FourBytes
  BY <1>4, MultiKeepsInv DEF FourBytes
<1>5. CASE BadFirst
  BY <1>5 DEF BadFirst, Running, Reads, Inv, InBounds
<1>6. CASE Return
  BY <1>6 DEF Return, Inv, InBounds
<1>7. CASE UNCHANGED vars
  BY <1>7 DEF vars, Inv, InBounds
<1> QED
  BY <1>1, <1>2, <1>3, <1>4, <1>5, <1>6, <1>7 DEF Next

LEMMA InitHasInv == Init => Inv
<1> SUFFICES ASSUME Init PROVE Inv
  OBVIOUS
<1>1. maxlen \in Nat \ {0} /\ ix = 0 /\ far = 0
  BY Utf8Assumption DEF Init
<1>2. mem \in [1..(maxlen + 1) -> 0..255]
  <2>1. Byte \cup After \subseteq 0..255
    BY Utf8Assumption
  <2> QED
    BY <2>1 DEF Init
<1>3. mem[maxlen + 1] \in 0..127
  <2> DEFINE Low == 0..127
  <2>1. mem[maxlen + 1] \in After
    BY DEF Init
  <2>2. After \subseteq Low
    BY Utf8Assumption
  <2> HIDE DEF Low
  <2>3. mem[maxlen + 1] \in Low
    BY <2>1, <2>2
  <2> QED
    BY <2>3 DEF Low
<1> QED
  BY <1>1, <1>2, <1>3 DEF Inv, InBounds

\* is_valid_utf8 never leaves the name and never reads more than the one byte
\* after it, although the unsigned bounds maxlen - 2 and maxlen - 3 wrap around
\* for short names.
THEOREM ReadsStayInBounds == Spec => []InBounds
<1>1. Inv => InBounds
  BY DEF Inv
<1> QED
  BY <1>1, InitHasInv, StepKeepsInv, PTL DEF Spec

-----------------------------------------------------------------------------
(* The definition of a valid name, as an operator of the bytes and the      *)
(* length, which the loop never changes.                                    *)

ByteAt(m, i) == IF i + 1 \in DOMAIN m THEN m[i + 1] ELSE 0

CodePointAt(m, i, n) ==
    <<ByteAt(m, i),
      (ByteAt(m, i) - 192) * 64 + ByteAt(m, i + 1) - 128,
      (ByteAt(m, i) - 224) * 4096 + (ByteAt(m, i + 1) - 128) * 64 + ByteAt(m, i + 2) - 128,
      (ByteAt(m, i) - 240) * 262144 + (ByteAt(m, i + 1) - 128) * 4096
         + (ByteAt(m, i + 2) - 128) * 64 + ByteAt(m, i + 3) - 128>>[n]

EncodesAt(m, len, i, n) ==
    /\ i + n <= len
    /\ Leads(ByteAt(m, i), n)
    /\ \A j \in 1..(n - 1) : Follows(ByteAt(m, i + j))
    /\ CodePointAt(m, i, n) >= Least[n]
    /\ Scalar(CodePointAt(m, i, n))

\* g says from which places on the name is made of encodings.
Solves(m, len, g) ==
    g = [i \in 0..len |-> i = len \/ \E n \in 1..4 : EncodesAt(m, len, i, n) /\ g[i + n]]

ValidFrom(m, len) == CHOOSE g : Solves(m, len, g)

\* WellFormed is that, from the first byte on.
LEMMA WellFormedIsValid == WellFormed <=> ValidFrom(mem, maxlen)[0]
  BY SMT DEF WellFormed, Encodes, CodePoint, s, ValidFrom, Solves, EncodesAt, CodePointAt, ByteAt

LEMMA EncodesIsAt == \A i : \A n \in 1..4 : EncodesAt(mem, maxlen, i, n) <=> Encodes(i, n)
  BY SMT DEF Encodes, CodePoint, s, EncodesAt, CodePointAt, ByteAt

\* The definition is one: there is a solution.  A place is good when a set of
\* places has it and with every place but the end the end of an encoding.
LEMMA ValidSolves == ASSUME NEW m, NEW len \in Nat PROVE Solves(m, len, ValidFrom(m, len))
<1> DEFINE Step(C, c) == c = len \/ \E n \in 1..4 : EncodesAt(m, len, c, n) /\ c + n \in C
           Good(i) == \E C \in SUBSET (i..len) : i \in C /\ \A c \in C : Step(C, c)
           g == [i \in 0..len |-> Good(i)]
<1>1. \A i : \A n \in 1..4 : EncodesAt(m, len, i, n) => i + n <= len
  BY DEF EncodesAt
<1>2. ASSUME NEW i \in 0..len, Good(i), i # len
      PROVE  \E n \in 1..4 : EncodesAt(m, len, i, n) /\ Good(i + n)
  <2>1. PICK C \in SUBSET (i..len) : i \in C /\ \A c \in C : Step(C, c)
    BY <1>2
  <2>2. PICK n \in 1..4 : EncodesAt(m, len, i, n) /\ i + n \in C
    BY <1>2, <2>1
  <2> DEFINE D == C \cap ((i + n)..len)
  <2>3. D \in SUBSET ((i + n)..len) /\ i + n \in D
    BY <1>1, <2>2
  <2>4. ASSUME NEW c \in D PROVE Step(D, c)
    <3>1. CASE c = len
      BY <3>1
    <3>2. ASSUME NEW k \in 1..4, EncodesAt(m, len, c, k), c + k \in C
          PROVE  c + k \in D
      BY <1>1, <3>2
    <3>3. QED
      BY <2>1, <3>1, <3>2
  <2>5. Good(i + n)
    BY <2>3, <2>4
  <2>6. QED
    BY <2>2, <2>5
<1>3. ASSUME NEW i \in 0..len, NEW n \in 1..4, EncodesAt(m, len, i, n), Good(i + n)
      PROVE  Good(i)
  <2>1. PICK C \in SUBSET ((i + n)..len) : i + n \in C /\ \A c \in C : Step(C, c)
    BY <1>3
  <2> DEFINE D == C \cup {i}
  <2>2. D \in SUBSET (i..len) /\ i \in D
    BY <2>1
  <2>3. \A c \in D : Step(D, c)
    BY <1>3, <2>1
  <2>4. QED
    BY <2>2, <2>3
<1>4. Good(len)
  <2>1. {len} \in SUBSET (len..len) /\ len \in {len} /\ \A c \in {len} : Step({len}, c)
    OBVIOUS
  <2>2. QED
    BY <2>1
<1> HIDE DEF Good
<1>5. \A i \in 0..len : Good(i) <=> (i = len \/ \E n \in 1..4 : EncodesAt(m, len, i, n) /\ g[i + n])
  <2>1. \A i \in 0..len : \A n \in 1..4 : EncodesAt(m, len, i, n) => g[i + n] = Good(i + n)
    BY <1>1
  <2>2. QED
    BY <1>2, <1>3, <1>4, <2>1
<1>6. Solves(m, len, g)
  <2>1. \A i \in 0..len :
           g[i] = (i = len \/ \E n \in 1..4 : EncodesAt(m, len, i, n) /\ g[i + n])
    <3>1. \A i \in 0..len : Good(i) \in BOOLEAN
      BY DEF Good
    <3>2. QED
      BY <1>5, <3>1
  <2>2. g = [i \in 0..len |-> g[i]]
    OBVIOUS
  <2> HIDE DEF g
  <2>3. QED
    BY <2>1, <2>2, Zenon DEF Solves
<1>7. QED
  BY <1>6 DEF ValidFrom

\* From a place on the name is valid when it is the end, or an encoding with a
\* valid rest begins there.
LEMMA ValidStep ==
    ASSUME Inv, NEW i \in 0..maxlen
    PROVE  ValidFrom(mem, maxlen)[i] <=>
              (i = maxlen \/ \E n \in 1..4 : Encodes(i, n) /\ ValidFrom(mem, maxlen)[i + n])
<1>1. PICK g : g = ValidFrom(mem, maxlen)
  OBVIOUS
<1>2. Solves(mem, maxlen, g)
  BY <1>1, ValidSolves DEF Inv
<1>3. g[i] = (i = maxlen \/ \E n \in 1..4 : EncodesAt(mem, maxlen, i, n) /\ g[i + n])
  BY <1>2 DEF Solves
<1>4. QED
  BY <1>1, <1>3, EncodesIsAt

-----------------------------------------------------------------------------
(* Encodings of one to four bytes.                                         *)

LEMMA Bytes == ASSUME Inv, NEW i \in Nat PROVE s(i) \in 0..255
<1>1. \A j \in DOMAIN mem : mem[j] \in 0..255
  BY DEF Inv
<1>2. QED
  BY <1>1 DEF s

\* The parts of the definition, by the number of bytes.
LEMMA CodePoints ==
    \A i : /\ CodePoint(i, 1) = s(i)
           /\ CodePoint(i, 2) = (s(i) - 192) * 64 + s(i + 1) - 128
           /\ CodePoint(i, 3) = (s(i) - 224) * 4096 + (s(i + 1) - 128) * 64 + s(i + 2) - 128
           /\ CodePoint(i, 4) = (s(i) - 240) * 262144 + (s(i + 1) - 128) * 4096
                                  + (s(i + 2) - 128) * 64 + s(i + 3) - 128
  BY SMT DEF CodePoint

LEMMA Leasts == Least[1] = 0 /\ Least[2] = 128 /\ Least[3] = 2048 /\ Least[4] = 65536
  BY SMT DEF Least

LEMMA LeadRanges ==
    \A b : /\ Leads(b, 1) <=> b \in 0..127
           /\ Leads(b, 2) <=> b \in 192..223
           /\ Leads(b, 3) <=> b \in 224..239
           /\ Leads(b, 4) <=> b \in 240..247
  BY SMT DEF Leads

LEMMA Followers ==
    \A i : /\ (\A j \in 1..(1 - 1) : Follows(s(i + j)))
           /\ (\A j \in 1..(2 - 1) : Follows(s(i + j))) <=> Cont(s(i + 1))
           /\ (\A j \in 1..(3 - 1) : Follows(s(i + j))) <=> Cont(s(i + 1)) /\ Cont(s(i + 2))
           /\ (\A j \in 1..(4 - 1) : Follows(s(i + j))) <=>
                 Cont(s(i + 1)) /\ Cont(s(i + 2)) /\ Cont(s(i + 3))
<1>1. 1..(1 - 1) = {} /\ 1..(2 - 1) = {1} /\ 1..(3 - 1) = {1, 2} /\ 1..(4 - 1) = {1, 2, 3}
  BY SMT
<1>2. \A b : Follows(b) <=> Cont(b)
  BY Zenon DEF Cont, Follows
<1>3. QED
  BY <1>1, <1>2, Zenon

\* Ranges of bytes as bounds, which is how the arithmetic below has them.
LEMMA Ranges ==
    ASSUME NEW b \in Int
    PROVE  /\ Cont(b) <=> 128 <= b /\ b <= 191
           /\ b \in 192..223 <=> 192 <= b /\ b <= 223
           /\ b \in 194..223 <=> 194 <= b /\ b <= 223
           /\ b \in 224..239 <=> 224 <= b /\ b <= 239
           /\ b \in 240..247 <=> 240 <= b /\ b <= 247
<1>1. \A lo, hi \in Int : b \in lo..hi <=> lo <= b /\ b <= hi
  OBVIOUS
<1>2. Cont(b) <=> 128 <= b /\ b <= 191
  BY <1>1 DEF Cont
<1>3. b \in 192..223 <=> 192 <= b /\ b <= 223
  BY <1>1
<1>4. b \in 194..223 <=> 194 <= b /\ b <= 223
  BY <1>1
<1>5. b \in 224..239 <=> 224 <= b /\ b <= 239
  BY <1>1
<1>6. b \in 240..247 <=> 240 <= b /\ b <= 247
  BY <1>1
<1>7. QED
  BY <1>2, <1>3, <1>4, <1>5, <1>6, Zenon

LEMMA EncodesOne ==
    ASSUME Inv, NEW i \in Nat
    PROVE  Encodes(i, 1) <=> i + 1 <= maxlen /\ s(i) \in 0..127
<1>1. Encodes(i, 1) <=> /\ i + 1 <= maxlen /\ s(i) \in 0..127
                        /\ s(i) >= 0 /\ Scalar(s(i))
  BY CodePoints, Leasts, LeadRanges, Followers, SMT DEF Encodes
<1>2. s(i) \in 0..127 => s(i) >= 0 /\ Scalar(s(i))
  BY DEF Scalar
<1>3. QED
  BY <1>1, <1>2

LEMMA EncodesTwo ==
    ASSUME Inv, NEW i \in Nat
    PROVE  Encodes(i, 2) <=> i + 2 <= maxlen /\ s(i) \in 194..223 /\ Cont(s(i + 1))
<1> DEFINE Code(a, b) == (a - 192) * 64 + b - 128
           Good(a, b) == Code(a, b) >= 128 /\ Scalar(Code(a, b))
<1>1. Encodes(i, 2) <=> /\ i + 2 <= maxlen /\ s(i) \in 192..223 /\ Cont(s(i + 1))
                        /\ Good(s(i), s(i + 1))
  BY CodePoints, Leasts, LeadRanges, Followers, SMT DEF Encodes
<1>2. \A a, b \in Int : 192 <= a /\ a <= 223 /\ 128 <= b /\ b <= 191 => (Good(a, b) <=> 194 <= a)
  BY SMT DEF Scalar
<1> HIDE DEF Good
<1>3. PICK a, b : a = s(i) /\ b = s(i + 1)
  OBVIOUS
<1>4. a \in Int /\ b \in Int
  BY <1>3, Bytes
<1>5. a \in 192..223 /\ Cont(b) => (Good(a, b) <=> a \in 194..223)
  BY <1>2, <1>4, Ranges
<1>6. a \in 194..223 => a \in 192..223
  BY <1>4, Ranges
<1>7. QED
  BY <1>1, <1>3, <1>5, <1>6, Zenon

\* The first bytes of an encoding of three, of four bytes, given that they
\* are in the ranges of such bytes.
FineThree(a, b, c) ==
    /\ a = 224 => b \notin 128..159
    /\ a = 237 => b \notin 160..191
    /\ a = 239 => ~ (b = 191 /\ c \in {190, 191})

FineFour(a, b) ==
    /\ a = 240 => b \notin 128..143
    /\ a = 244 => ~ (b > 143)
    /\ ~ (a > 244)

LEMMA EncodesThree ==
    ASSUME Inv, NEW i \in Nat
    PROVE  Encodes(i, 3) <=>
              /\ i + 3 <= maxlen /\ s(i) \in 224..239 /\ Cont(s(i + 1)) /\ Cont(s(i + 2))
              /\ FineThree(s(i), s(i + 1), s(i + 2))
<1> DEFINE Code(a, b, c) == (a - 224) * 4096 + (b - 128) * 64 + c - 128
           Good(a, b, c) == Code(a, b, c) >= 2048 /\ Scalar(Code(a, b, c))
<1>1. Encodes(i, 3) <=>
         /\ i + 3 <= maxlen /\ s(i) \in 224..239 /\ Cont(s(i + 1)) /\ Cont(s(i + 2))
         /\ Good(s(i), s(i + 1), s(i + 2))
  BY CodePoints, Leasts, LeadRanges, Followers, SMT DEF Encodes
<1>2. ASSUME NEW a \in Int, NEW b \in Int, NEW c \in Int,
             224 <= a, a <= 239, 128 <= b, b <= 191, 128 <= c, c <= 191
      PROVE  Good(a, b, c) <=> FineThree(a, b, c)
  <2> USE <1>2
  <2>1. PICK r \in Int : r = c - 128 /\ 0 <= r /\ r <= 63
    OBVIOUS
  <2>2. Code(a, b, c) = (a - 224) * 4096 + (b - 128) * 64 + r
    BY <2>1
  <2>3. CASE a = 224
    <3>1. Good(a, b, c) <=> b >= 160
      BY <2>1, <2>2, <2>3, SMT DEF Scalar
    <3>2. QED
      BY <2>3, <3>1, SMT DEF FineThree
  <2>4. CASE a = 237
    <3>1. Good(a, b, c) <=> b < 160
      BY <2>1, <2>2, <2>4, SMT DEF Scalar
    <3>2. QED
      BY <2>4, <3>1, SMT DEF FineThree
  <2>5. CASE a = 239
    <3>1. Good(a, b, c) <=> ~ (b = 191 /\ r >= 62)
      BY <2>1, <2>2, <2>5, SMT DEF Scalar
    <3>2. QED
      BY <2>1, <2>5, <3>1, SMT DEF FineThree
  <2>6. CASE a # 224 /\ a # 237 /\ a # 239
    <3>1. Good(a, b, c)
      BY <2>1, <2>2, <2>6, SMT DEF Scalar
    <3>2. QED
      BY <2>6, <3>1, SMT DEF FineThree
  <2> HIDE DEF Good, Code
  <2>7. QED
    BY <2>3, <2>4, <2>5, <2>6, SMT
<1> HIDE DEF Good
<1>3. PICK a, b, c : a = s(i) /\ b = s(i + 1) /\ c = s(i + 2)
  OBVIOUS
<1>4. a \in Int /\ b \in Int /\ c \in Int
  BY <1>3, Bytes
<1>5. a \in 224..239 /\ Cont(b) /\ Cont(c) => (Good(a, b, c) <=> FineThree(a, b, c))
  BY <1>2, <1>4, Ranges
<1>6. QED
  BY <1>1, <1>3, <1>5, Zenon

LEMMA EncodesFour ==
    ASSUME Inv, NEW i \in Nat
    PROVE  Encodes(i, 4) <=>
              /\ i + 4 <= maxlen /\ s(i) \in 240..247
              /\ Cont(s(i + 1)) /\ Cont(s(i + 2)) /\ Cont(s(i + 3))
              /\ FineFour(s(i), s(i + 1))
<1> DEFINE Code(a, b, c, d) == (a - 240) * 262144 + (b - 128) * 4096 + (c - 128) * 64 + d - 128
           Good(a, b, c, d) == Code(a, b, c, d) >= 65536 /\ Scalar(Code(a, b, c, d))
<1>1. Encodes(i, 4) <=>
         /\ i + 4 <= maxlen /\ s(i) \in 240..247
         /\ Cont(s(i + 1)) /\ Cont(s(i + 2)) /\ Cont(s(i + 3))
         /\ Good(s(i), s(i + 1), s(i + 2), s(i + 3))
  BY CodePoints, Leasts, LeadRanges, Followers, SMT DEF Encodes
<1>2. ASSUME NEW a \in Int, NEW b \in Int, NEW c \in Int, NEW d \in Int,
             240 <= a, a <= 247, 128 <= b, b <= 191,
             128 <= c, c <= 191, 128 <= d, d <= 191
      PROVE  Good(a, b, c, d) <=> FineFour(a, b)
  <2> USE <1>2
  <2>1. PICK r \in Int : r = (c - 128) * 64 + d - 128 /\ 0 <= r /\ r <= 4095
    OBVIOUS
  <2>2. Code(a, b, c, d) = (a - 240) * 262144 + (b - 128) * 4096 + r
    BY <2>1, SMT
  <2>3. CASE a = 240
    <3>1. Good(a, b, c, d) <=> b >= 144
      BY <2>1, <2>2, <2>3, SMT DEF Scalar
    <3>2. QED
      BY <2>3, <3>1, SMT DEF FineFour
  <2>4. CASE a = 244
    <3>1. Good(a, b, c, d) <=> b <= 143
      BY <2>1, <2>2, <2>4, SMT DEF Scalar
    <3>2. QED
      BY <2>4, <3>1, SMT DEF FineFour
  <2>5. CASE a > 244
    <3>1. ~ Good(a, b, c, d)
      BY <2>1, <2>2, <2>5, SMT DEF Scalar
    <3>2. QED
      BY <2>5, <3>1, SMT DEF FineFour
  <2>6. CASE a # 240 /\ a < 244
    <3>1. Good(a, b, c, d)
      BY <2>1, <2>2, <2>6, SMT DEF Scalar
    <3>2. QED
      BY <2>6, <3>1, SMT DEF FineFour
  <2> HIDE DEF Good, Code
  <2>7. QED
    BY <2>3, <2>4, <2>5, <2>6, SMT
<1> HIDE DEF Good
<1>3. PICK a, b, c, d : a = s(i) /\ b = s(i + 1) /\ c = s(i + 2) /\ d = s(i + 3)
  OBVIOUS
<1>4. a \in Int /\ b \in Int /\ c \in Int /\ d \in Int
  BY <1>3, Bytes
<1>5. a \in 240..247 /\ Cont(b) /\ Cont(c) /\ Cont(d) => (Good(a, b, c, d) <=> FineFour(a, b))
  BY <1>2, <1>4, Ranges
<1>6. QED
  BY <1>1, <1>3, <1>5, Zenon

-----------------------------------------------------------------------------
(* What an iteration finds out about the place it stands at.               *)

\* The branches of the loop leave no encoding out.
LEMMA Branches ==
    ASSUME Inv, Running, NEW n \in 1..4, Encodes(ix, n)
    PROVE  One \/ Two \/ Three \/ Four
<1>1. ix \in Nat /\ maxlen \in Nat /\ s(ix) \in 0..255
  BY Bytes DEF Inv
<1>2. ix + n <= maxlen /\ Leads(s(ix), n)
  BY DEF Encodes
<1>3. Left(n)
  BY <1>1, <1>2 DEF Left
<1>4. QED
  BY <1>1, <1>2, <1>3, LeadRanges DEF One, Two, Three, Four

\* A place is the first of at most one encoding.
LEMMA OneEncoding ==
    ASSUME Inv, Running, NEW n \in 1..4, NEW k \in 1..4, Encodes(ix, n), Encodes(ix, k)
    PROVE  n = k
<1>1. Leads(s(ix), n) /\ Leads(s(ix), k)
  BY DEF Encodes
<1>2. s(ix) \in 0..255
  BY Bytes DEF Inv
<1>3. QED
  BY <1>1, <1>2 DEF Leads

LEMMA Accepts ==
    ASSUME Inv, Running, NEW n \in 1..4, Encodes(ix, n)
    PROVE  ValidFrom(mem, maxlen)[ix] <=> ValidFrom(mem, maxlen)[ix + n]
<1>1. ix \in 0..maxlen /\ ix # maxlen
  BY DEF Inv, InBounds, Running
<1>2. \A k \in 1..4 : Encodes(ix, k) => k = n
  BY OneEncoding
<1>3. QED
  BY <1>1, <1>2, ValidStep

LEMMA Rejects ==
    ASSUME Inv, Running, \A n \in 1..4 : ~ Encodes(ix, n)
    PROVE  ~ ValidFrom(mem, maxlen)[ix]
<1>1. ix \in 0..maxlen /\ ix # maxlen
  BY DEF Inv, InBounds, Running
<1>2. QED
  BY <1>1, ValidStep

\* The tests of a branch are those of the definition.
LEMMA TestsAreRight ==
    ASSUME Inv, Running, NEW n \in 2..4, Leads(s(ix), n)
    PROVE  Encodes(ix, n) <=> BadByte(n) = 0 /\ ~ Refused(n)
<1>1. BadByte(n) = 0 => ix + n <= maxlen
  BY BadByteFacts
<1>2. ix \in Nat /\ ix + 1 \in Nat
  BY DEF Inv
<1>3. CASE n = 2
  <2>1. BadByte(2) = 0 <=> Cont(s(ix + 1))
    BY <1>2 DEF BadByte
  <2>2. Refused(2) <=> s(ix) \in {192, 193}
    BY DEF Refused
  <2>3. s(ix) \in 192..223
    BY <1>3, LeadRanges
  <2>4. QED
    BY <1>1, <1>2, <1>3, <2>1, <2>2, <2>3, EncodesTwo
<1>4. CASE n = 3
  <2>1. BadByte(3) = 0 <=> Cont(s(ix + 1)) /\ Cont(s(ix + 2))
    BY <1>2 DEF BadByte
  <2>2. Refused(3) <=> ~ FineThree(s(ix), s(ix + 1), s(ix + 2))
    BY DEF Refused, FineThree
  <2>3. s(ix) \in 224..239
    BY <1>4, LeadRanges
  <2>4. Encodes(ix, 3) <=>
           /\ ix + 3 <= maxlen /\ s(ix) \in 224..239 /\ Cont(s(ix + 1)) /\ Cont(s(ix + 2))
           /\ FineThree(s(ix), s(ix + 1), s(ix + 2))
    BY <1>2, EncodesThree
  <2>5. QED
    BY <1>1, <1>4, <2>1, <2>2, <2>3, <2>4
<1>5. CASE n = 4
  <2>1. BadByte(4) = 0 <=> Cont(s(ix + 1)) /\ Cont(s(ix + 2)) /\ Cont(s(ix + 3))
    BY <1>2 DEF BadByte
  <2>2. Refused(4) <=> ~ FineFour(s(ix), s(ix + 1))
    BY DEF Refused, FineFour
  <2>3. s(ix) \in 240..247
    BY <1>5, LeadRanges
  <2>4. Encodes(ix, 4) <=>
           /\ ix + 4 <= maxlen /\ s(ix) \in 240..247
           /\ Cont(s(ix + 1)) /\ Cont(s(ix + 2)) /\ Cont(s(ix + 3))
           /\ FineFour(s(ix), s(ix + 1))
    BY <1>2, EncodesFour
  <2>5. QED
    BY <1>1, <1>5, <2>1, <2>2, <2>3, <2>4
<1>6. QED
  BY <1>3, <1>4, <1>5

-----------------------------------------------------------------------------
\* While the loop runs, the name is valid when its rest is, and the verdict is
\* that of the definition.
Right ==
    LET valid == ValidFrom(mem, maxlen)
    IN  /\ verdict \in {"running", "valid", "invalid"}
        /\ verdict = "running" => (valid[0] <=> valid[ix])
        /\ verdict = "valid" => valid[0]
        /\ verdict = "invalid" => ~ valid[0]

LEMMA MultiKeepsRight ==
    ASSUME Inv, Right, Running, NEW n \in 2..4, Leads(s(ix), n), Multi(n)
    PROVE  Right'
<1>1. PICK valid : valid = ValidFrom(mem, maxlen)
  OBVIOUS
<1>2. mem' = mem /\ maxlen' = maxlen /\ verdict = "running"
  BY DEF Multi, Running
<1>3. valid[0] <=> valid[ix]
  BY <1>1, <1>2 DEF Right
<1>4. Encodes(ix, n) <=> BadByte(n) = 0 /\ ~ Refused(n)
  BY TestsAreRight
<1>5. CASE BadByte(n) = 0 /\ ~ Refused(n)
  <2>1. ix' = ix + n /\ verdict' = verdict
    BY <1>5 DEF Multi
  <2>2. valid[ix] <=> valid[ix + n]
    BY <1>1, <1>4, <1>5, Accepts
  <2>3. QED
    BY <1>1, <1>2, <1>3, <2>1, <2>2 DEF Right
<1>6. CASE ~ (BadByte(n) = 0 /\ ~ Refused(n))
  <2>1. verdict' = "invalid"
    BY <1>6 DEF Multi
  <2>2. \A k \in 1..4 : ~ Encodes(ix, k)
    <3>1. s(ix) \in 0..255
      BY Bytes DEF Inv
    <3>2. \A k \in 1..4 : Leads(s(ix), k) => k = n
      BY <3>1 DEF Leads
    <3>3. QED
      BY <1>4, <1>6, <3>2 DEF Encodes
  <2>3. ~ valid[ix]
    BY <1>1, <2>2, Rejects
  <2>4. QED
    BY <1>1, <1>2, <1>3, <2>1, <2>3 DEF Right
<1>7. QED
  BY <1>5, <1>6

LEMMA StepKeepsRight == Inv /\ Right /\ [Next]_vars => Right'
<1> SUFFICES ASSUME Inv, Right, [Next]_vars PROVE Right'
  OBVIOUS
<1>1. PICK valid : valid = ValidFrom(mem, maxlen)
  OBVIOUS
<1>2. s(ix) \in 0..255 /\ ix \in Nat /\ maxlen \in Nat /\ ix <= maxlen
  BY Bytes DEF Inv, InBounds
<1>3. CASE Ascii
  <2>1. mem' = mem /\ maxlen' = maxlen /\ verdict = "running" /\ verdict' = verdict
           /\ ix' = ix + 1
    BY <1>3 DEF Ascii, Running
  <2>2. Encodes(ix, 1)
    BY <1>2, <1>3, EncodesOne DEF Ascii, Running, One
  <2>3. valid[ix] <=> valid[ix + 1]
    BY <1>1, <1>3, <2>2, Accepts DEF Ascii
  <2>4. QED
    BY <1>1, <2>1, <2>3 DEF Right
<1>4. CASE TwoBytes
  BY <1>4, LeadRanges, MultiKeepsRight DEF TwoBytes, Two
<1>5. CASE ThreeBytes
  BY <1>5, LeadRanges, MultiKeepsRight DEF ThreeBytes, Three
<1>6. CASE FourBytes
  BY <1>6, LeadRanges, MultiKeepsRight DEF FourBytes, Four
<1>7. CASE BadFirst
  <2>1. mem' = mem /\ maxlen' = maxlen /\ verdict = "running" /\ verdict' = "invalid"
    BY <1>7 DEF BadFirst, Running
  <2>2. \A n \in 1..4 : ~ Encodes(ix, n)
    BY <1>7, Branches DEF BadFirst
  <2>3. ~ valid[ix]
    BY <1>1, <1>7, <2>2, Rejects DEF BadFirst
  <2>4. QED
    BY <1>1, <2>1, <2>3 DEF Right
<1>8. CASE Return
  <2>1. mem' = mem /\ maxlen' = maxlen /\ verdict = "running" /\ verdict' = "valid"
           /\ ix = maxlen
    BY <1>2, <1>8 DEF Return
  <2>2. valid[ix]
    BY <1>1, <1>2, <2>1, ValidStep
  <2>3. QED
    BY <1>1, <2>1, <2>2 DEF Right
<1>9. CASE UNCHANGED vars
  BY <1>9 DEF vars, Right
<1>10. QED
  BY <1>3, <1>4, <1>5, <1>6, <1>7, <1>8, <1>9 DEF Next

\* is_valid_utf8 answers what the definition by code points says, for every
\* name in every datagram: the tests of its branches are exactly those for the
\* shortest encoding of an allowed code point, no branch leaves an encoding out
\* although three of the bounds wrap around, and the byte after the name has no
\* part in the answer although the loop of a short name reads it.
THEOREM AnswerIsRight == Spec => []Correct
<1>1. Init => Inv /\ Right
  <2>1. Init => Inv
    BY InitHasInv
  <2>2. Init => Right
    BY DEF Init, Right
  <2>3. QED
    BY <2>1, <2>2
<1>2. Right => Correct
  BY WellFormedIsValid DEF Right, Correct
<1>3. QED
  BY <1>1, <1>2, StepKeepsInv, StepKeepsRight, PTL DEF Spec

=============================================================================
