-------------------------------- MODULE Utf8 --------------------------------
(***************************************************************************)
(* is_valid_utf8 of cht/util.cpp, as the Q_AP handler calls it: on the name *)
(* of an announcement, which lies in the middle of a datagram.  One step is *)
(* one iteration of the loop.                                               *)
(*                                                                          *)
(* The bounds maxlen - 1, - 2 and - 3 are unsigned: a name that is shorter  *)
(* has a huge bound, and the loop looks at what comes after the name.  The  *)
(* datagram was parsed, so an element begins there: its first byte is a     *)
(* digit or one of the letters d, e, i and l, and another byte follows.     *)
(***************************************************************************)
EXTENDS Integers, Sequences

CONSTANTS Byte,      \* the bytes that names are made of
          After,     \* the first bytes of elements
          MaxLen     \* bound on the length of the name

ASSUME Utf8Assumption ==
    /\ Byte \subseteq 0..255
    /\ After \subseteq 0..127
    /\ MaxLen \in Nat

VARIABLES mem,      \* the bytes of the datagram from the name on
          maxlen,   \* the length of the name
          ix,
          far,      \* history: the highest index at which a byte was read
          verdict   \* "running", "valid" or "invalid"

vars == <<mem, maxlen, ix, far, verdict>>

\* The caller has checked that the name is not empty.
Init ==
    /\ maxlen \in 1..MaxLen
    /\ mem \in [1..(maxlen + 1) -> Byte \cup After]
    /\ \A i \in 1..maxlen : mem[i] \in Byte
    /\ mem[maxlen + 1] \in After
    /\ ix = 0 /\ far = 0 /\ verdict = "running"

\* Byte i from the name on.  What lies further than the byte after the name
\* is never read (InBounds).
s(i) == IF i + 1 \in DOMAIN mem THEN mem[i + 1] ELSE 0

-----------------------------------------------------------------------------
\* ix < maxlen - (n - 1), where the difference wraps around below zero.
Left(n) == maxlen < n - 1 \/ ix < maxlen - (n - 1)

\* (b & 0xc0) == 0x80
Cont(b) == b \in 128..191

\* The branches by the first byte, in the order of the source.
One == s(ix) < 128
Two == ~ One /\ Left(2) /\ s(ix) \in 192..223
Three == ~ One /\ ~ Two /\ Left(3) /\ s(ix) \in 224..239
Four == ~ One /\ ~ Two /\ ~ Three /\ Left(4) /\ s(ix) \in 240..247

\* Mutation: the last byte is looked at first.
BadByteLastFirst(n) ==
    IF ~ Cont(s(ix + n - 1)) THEN ix + n - 1
    ELSE IF ~ Cont(s(ix + 1)) THEN ix + 1
    ELSE IF n > 2 /\ ~ Cont(s(ix + 2)) THEN ix + 2
    ELSE 0

\* The first of the n - 1 following bytes that is no continuation byte, or 0:
\* the operators || stop there.
BadByte(n) ==
    IF ~ Cont(s(ix + 1)) THEN ix + 1
    ELSE IF n > 2 /\ ~ Cont(s(ix + 2)) THEN ix + 2
    ELSE IF n > 3 /\ ~ Cont(s(ix + 3)) THEN ix + 3
    ELSE 0

\* Mutation: U+10FFFF is taken to be the last code point of its first byte.
RefusedShort(n) ==
    \/ n = 2 /\ s(ix) \in {192, 193}
    \/ /\ n = 3
       /\ \/ s(ix) = 224 /\ s(ix + 1) \in 128..159
          \/ s(ix) = 237 /\ s(ix + 1) \in 160..191
          \/ s(ix) = 239 /\ s(ix + 1) = 191 /\ s(ix + 2) \in {190, 191}
    \/ n = 4 /\ ((s(ix) = 240 /\ s(ix + 1) \in 128..143) \/ s(ix) > 244)

\* The tests of the first two or three bytes for code points that have a
\* shorter encoding, are surrogates, U+FFFE and U+FFFF, or are too large.
Refused(n) ==
    \/ n = 2 /\ s(ix) \in {192, 193}
    \/ /\ n = 3
       /\ \/ s(ix) = 224 /\ s(ix + 1) \in 128..159
          \/ s(ix) = 237 /\ s(ix + 1) \in 160..191
          \/ s(ix) = 239 /\ s(ix + 1) = 191 /\ s(ix + 2) \in {190, 191}
    \/ /\ n = 4
       /\ \/ s(ix) = 240 /\ s(ix + 1) \in 128..143
          \/ s(ix) = 244 /\ s(ix + 1) > 143
          \/ s(ix) > 244

Reads(i) == far' = IF i > far THEN i ELSE far

Running == verdict = "running" /\ ix < maxlen

\* Mutation: the index is not advanced.
AsciiStays ==
    /\ Running /\ One
    /\ Reads(ix)
    /\ UNCHANGED <<mem, maxlen, ix, verdict>>

Ascii ==
    /\ Running /\ One
    /\ ix' = ix + 1
    /\ Reads(ix)
    /\ UNCHANGED <<mem, maxlen, verdict>>

Multi(n) ==
    \/ /\ BadByte(n) # 0
       /\ Reads(BadByte(n))
       /\ verdict' = "invalid"
       /\ UNCHANGED <<mem, maxlen, ix>>
    \/ /\ BadByte(n) = 0
       /\ Reads(ix + n - 1)
       /\ IF Refused(n)
          THEN verdict' = "invalid" /\ UNCHANGED ix
          ELSE ix' = ix + n /\ UNCHANGED verdict
       /\ UNCHANGED <<mem, maxlen>>

TwoBytes == Running /\ Two /\ Multi(2)
ThreeBytes == Running /\ Three /\ Multi(3)
FourBytes == Running /\ Four /\ Multi(4)

BadFirst ==
    /\ Running /\ ~ One /\ ~ Two /\ ~ Three /\ ~ Four
    /\ Reads(ix)
    /\ verdict' = "invalid"
    /\ UNCHANGED <<mem, maxlen, ix>>

Return ==
    /\ verdict = "running" /\ ix >= maxlen
    /\ verdict' = "valid"
    /\ UNCHANGED <<mem, maxlen, ix, far>>

Next == Ascii \/ TwoBytes \/ ThreeBytes \/ FourBytes \/ BadFirst \/ Return

\* The loop runs to its end.
Spec == Init /\ [][Next]_vars /\ WF_vars(Next)

-----------------------------------------------------------------------------
(* What is a valid name.                                                   *)

Scalar(c) == 0 <= c /\ c <= 1114111 /\ ~ (55296 <= c /\ c <= 57343) /\ c # 65534 /\ c # 65535

\* The code point of n bytes from i on, by n.
CodePoint(i, n) ==
    <<s(i),
      (s(i) - 192) * 64 + s(i + 1) - 128,
      (s(i) - 224) * 4096 + (s(i + 1) - 128) * 64 + s(i + 2) - 128,
      (s(i) - 240) * 262144 + (s(i + 1) - 128) * 4096 + (s(i + 2) - 128) * 64 + s(i + 3) - 128>>[n]

\* b is the first of n bytes.
Leads(b, n) ==
    \/ n = 1 /\ b \in 0..127
    \/ n = 2 /\ b \in 192..223
    \/ n = 3 /\ b \in 224..239
    \/ n = 4 /\ b \in 240..247

\* b is one of the bytes that follow the first.
Follows(b) == b \in 128..191

\* The least code point that takes n bytes.
Least == <<0, 128, 2048, 65536>>

\* The n bytes from i on are the shortest encoding of a code point.
Encodes(i, n) ==
    /\ i + n <= maxlen
    /\ Leads(s(i), n)
    /\ \A j \in 1..(n - 1) : Follows(s(i + j))
    /\ CodePoint(i, n) >= Least[n]
    /\ Scalar(CodePoint(i, n))

\* The name is made of such encodings.
WellFormed ==
    LET good[i \in 0..maxlen] == i = maxlen \/ \E n \in 1..4 : Encodes(i, n) /\ good[i + n]
    IN  good[0]

\* The answer is that of the definition by code points, and what follows the
\* name has no part in it, although the loop of a short name reads it.
Correct == verdict # "running" => (verdict = "valid" <=> WellFormed)

\* The loop never leaves the name and reads at most the one byte after it,
\* which the datagram has.
InBounds == ix <= maxlen /\ far <= maxlen

\* The loop ends, on every name.
Ends == <>(verdict # "running")

=============================================================================
