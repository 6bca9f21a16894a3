---------------------- MODULE VariableLengthSizeProofs ----------------------
(* Machine-checked proofs about VariableLengthSize, for every size and byte. *)
EXTENDS VariableLengthSize, TLAPS

\* The object after n bytes, none of them the last, that make up the value v:
\* the value below, the count above it, and nothing else in the word.
Reading(s, n, v) ==
  /\ s \in [encoded : SUBSET Word, decoded : SUBSET Word]
  /\ n \in 0..7 /\ v \subseteq 0..(7 * n - 1)
  /\ s.decoded = v \cup Shl(Bits(n), 56)

\* The value after one more chunk of 7 bits.
Extended(v, b) == {i + 7 : i \in v} \cup (b \ {7})

\* The four bits of a number below 16.
LEMMA FourBits ==
  ASSUME NEW n \in 0..15
  PROVE  /\ Bits(n) \subseteq 0..3
         /\ 0 \in Bits(n) <=> n % 2 = 1
         /\ 1 \in Bits(n) <=> (n \div 2) % 2 = 1
         /\ 2 \in Bits(n) <=> (n \div 4) % 2 = 1
         /\ 3 \in Bits(n) <=> (n \div 8) % 2 = 1
<1>1. 2^0 = 1 /\ 2^1 = 2 /\ 2^2 = 4 /\ 2^3 = 8
  OBVIOUS
<1>2. n \div 1 = n
  OBVIOUS
<1> QED
  BY <1>1, <1>2 DEF Bits

\* A number below 16 is determined by its bits.
LEMMA BitsInjective ==
  ASSUME NEW n \in 0..15, NEW m \in 0..15, Bits(n) = Bits(m)
  PROVE  n = m
<1>1. n % 2 = m % 2 /\ (n \div 2) % 2 = (m \div 2) % 2
  BY FourBits
<1>2. (n \div 4) % 2 = (m \div 4) % 2 /\ (n \div 8) % 2 = (m \div 8) % 2
  BY FourBits
<1> QED
  BY <1>1, <1>2

\* The count is kept in the bits 56 to 59, and nowhere else.
LEMMA CountPlaced ==
  ASSUME NEW n \in 0..15
  PROVE  Shl(Bits(n), 56) = {i + 56 : i \in Bits(n)} /\ Shl(Bits(n), 56) \subseteq CountBits
BY FourBits DEF Shl, Word, CountBits

\* What is shifted can be shifted back.
LEMMA ShiftInjective ==
  ASSUME NEW A \in SUBSET Int, NEW B \in SUBSET Int, {i + 56 : i \in A} = {i + 56 : i \in B}
  PROVE  A \subseteq B
<1> SUFFICES ASSUME NEW i \in A PROVE i \in B
  OBVIOUS
<1>1. i + 56 \in {j + 56 : j \in B}
  OBVIOUS
<1>2. PICK j \in B : i + 56 = j + 56
  BY <1>1
<1> QED
  BY <1>2

\* The count read from the word is the number of bytes read.
LEMMA CountRead ==
  ASSUME NEW s, NEW n, NEW v, Reading(s, n, v)
  PROVE  Count(s) = n /\ ~is_complete(s) /\ ~fail(s)
<1>1. n \in 0..7 /\ v \subseteq 0..48 /\ s.decoded = v \cup Shl(Bits(n), 56)
  BY DEF Reading
<1>2. s.decoded \cap CountBits = Shl(Bits(n), 56)
  BY <1>1, CountPlaced DEF CountBits
<1>3. ASSUME NEW m \in 0..15, Shl(Bits(m), 56) = s.decoded \cap CountBits PROVE m = n
  <2>0. Shl(Bits(m), 56) = Shl(Bits(n), 56) /\ n \in 0..15
    BY <1>1, <1>2, <1>3
  <2>1. {i + 56 : i \in Bits(m)} = {i + 56 : i \in Bits(n)}
    <3>1. Shl(Bits(m), 56) = {i + 56 : i \in Bits(m)}
      BY CountPlaced
    <3>2. Shl(Bits(n), 56) = {i + 56 : i \in Bits(n)}
      BY <2>0, CountPlaced
    <3> QED
      BY <2>0, <3>1, <3>2
  <2>2. Bits(m) \subseteq 0..3 /\ Bits(n) \subseteq 0..3
    BY <1>1, FourBits
  <2>3. Bits(m) \in SUBSET Int /\ Bits(n) \in SUBSET Int
    BY <2>2
  <2>4. Bits(m) \subseteq Bits(n) /\ Bits(n) \subseteq Bits(m)
    BY <2>1, <2>3, ShiftInjective
  <2> QED
    BY <2>0, <2>4, BitsInjective
<1>4. Count(s) = n
  BY <1>1, <1>2, <1>3 DEF Count
<1>5. 63 \notin s.decoded /\ 62 \notin s.decoded
  BY <1>1, CountPlaced DEF CountBits
<1> QED
  BY <1>4, <1>5 DEF is_complete, fail, IS_COMPLETE, IS_FAIL

\* The shift by 7 moves the value up, and the count out of the word or to the
\* bit that add_byte clears.
LEMMA ShiftedWord ==
  ASSUME NEW s, NEW n, NEW v, Reading(s, n, v)
  PROVE  Shl(s.decoded, 7) \ {IS_COMPLETE} = {i + 7 : i \in v}
<1>1. /\ n \in 0..7 /\ v \subseteq 0..48 /\ s.decoded = v \cup Shl(Bits(n), 56)
      /\ Shl(Bits(n), 56) \subseteq 56..59
  BY CountPlaced DEF Reading, CountBits
<1>2. \A i \in v : i + 7 \in Word \ {IS_COMPLETE}
  BY <1>1 DEF Word, IS_COMPLETE
<1>3. \A i \in Shl(Bits(n), 56) : i + 7 \notin Word \ {IS_COMPLETE}
  BY <1>1 DEF Word, IS_COMPLETE
<1>4. Shl(s.decoded, 7) = {i + 7 : i \in s.decoded} \cap Word
  BY DEF Shl
<1>5. {i + 7 : i \in s.decoded} = {i + 7 : i \in v} \cup {i + 7 : i \in Shl(Bits(n), 56)}
  BY <1>1
<1> QED
  BY <1>2, <1>3, <1>4, <1>5

\* add_byte for a byte that is not refused: the new value and the new count do
\* not overlap.
LEMMA ByteAdded ==
  ASSUME NEW s, NEW n, NEW v, Reading(s, n, v), NEW b \in Byte, n < 7 \/ 7 \notin b
  PROVE  /\ add_byte(s, b).decoded = Extended(v, b) \cup Shl(Bits(n + 1), 56)
                                      \cup (IF 7 \in b THEN {} ELSE {IS_COMPLETE})
         /\ add_byte(s, b) \in [encoded : SUBSET Word, decoded : SUBSET Word]
         /\ Extended(v, b) \subseteq 0..(7 * n + 6)
<1>1. Count(s) = n /\ ~is_complete(s) /\ ~fail(s)
  BY CountRead
<1>2. ~Refused(s, b)
  BY <1>1 DEF Refused
<1>3. Shl(s.decoded, 7) \ {IS_COMPLETE} = {i + 7 : i \in v}
  BY ShiftedWord
<1>4. n \in 0..7 /\ v \subseteq 0..(7 * n - 1) /\ b \subseteq 0..7
  BY DEF Reading, Byte
<1>5. Extended(v, b) \subseteq 0..(7 * n + 6)
  <2>1. \A i \in v : i + 7 \in 0..(7 * n + 6)
    BY <1>4
  <2>2. \A i \in b \ {7} : i \in 0..(7 * n + 6)
    BY <1>4
  <2> QED
    BY <2>1, <2>2 DEF Extended
<1>6. \A w, k : Shl(w, k) \subseteq Word /\ Shr(w, k) \subseteq Word
  BY DEF Shl, Shr
<1>7. Extended(v, b) \subseteq Word /\ IS_COMPLETE \in Word
  BY <1>4, <1>5 DEF Word, IS_COMPLETE
<1>8. CASE 7 \in b
  <2>1. add_byte(s, b) =
          [encoded |-> Shr(s.encoded, 8) \cup Shl(b, 56),
           decoded |-> (Shl(s.decoded, 7) \ {IS_COMPLETE}) \cup Shl(Bits(n + 1), 56) \cup (b \ {7})]
    BY <1>1, <1>2, <1>8 DEF add_byte
  <2> QED
    BY <2>1, <1>3, <1>5, <1>6, <1>7, <1>8 DEF Extended
<1>9. CASE 7 \notin b
  <2>1. add_byte(s, b) =
          [encoded |-> Shr(Shr(s.encoded, 8) \cup Shl(b, 56), 8 * (8 - n - 1)),
           decoded |-> (Shl(s.decoded, 7) \ {IS_COMPLETE}) \cup Shl(Bits(n + 1), 56) \cup (b \ {7})
                       \cup {IS_COMPLETE}]
    BY <1>1, <1>2, <1>9 DEF add_byte
  <2> QED
    BY <2>1, <1>3, <1>5, <1>6, <1>7, <1>9 DEF Extended
<1> QED
  BY <1>8, <1>9

\* The decoder is exact: whatever the bytes are, a byte that announces another
\* one extends the value by its 7 bits, the last one completes the value, and
\* an eighth byte that announces another one makes the object fail.
THEOREM DecoderExact ==
  ASSUME NEW s, NEW n, NEW v, Reading(s, n, v), NEW b \in Byte
  PROVE  /\ 7 \in b /\ n < 7 => Reading(add_byte(s, b), n + 1, Extended(v, b))
         /\ 7 \notin b => value(add_byte(s, b)) = Extended(v, b) /\ is_complete(add_byte(s, b))
         /\ 7 \in b /\ n = 7 => fail(add_byte(s, b)) /\ ~is_complete(add_byte(s, b))
<1>0. n \in 0..7 /\ s \in [encoded : SUBSET Word, decoded : SUBSET Word]
  BY DEF Reading
<1>1. ASSUME 7 \in b, n < 7 PROVE Reading(add_byte(s, b), n + 1, Extended(v, b))
  <2>1. add_byte(s, b).decoded = Extended(v, b) \cup Shl(Bits(n + 1), 56)
    BY <1>1, ByteAdded
  <2>2. n + 1 \in 0..7 /\ 7 * (n + 1) - 1 = 7 * n + 6
    BY <1>0, <1>1
  <2>3. Extended(v, b) \subseteq 0..(7 * n + 6)
    BY <1>1, ByteAdded
  <2>4. Extended(v, b) \subseteq 0..(7 * (n + 1) - 1)
    BY <2>2, <2>3
  <2>5. add_byte(s, b) \in [encoded : SUBSET Word, decoded : SUBSET Word]
    BY <1>1, ByteAdded
  <2> QED
    BY <2>1, <2>2, <2>4, <2>5 DEF Reading
<1>2. ASSUME 7 \notin b
      PROVE  value(add_byte(s, b)) = Extended(v, b) /\ is_complete(add_byte(s, b))
  <2>1. add_byte(s, b).decoded = Extended(v, b) \cup Shl(Bits(n + 1), 56) \cup {IS_COMPLETE}
    BY <1>2, ByteAdded
  <2>2. Extended(v, b) \subseteq MAX_VALUE
    BY <1>0, <1>2, ByteAdded DEF MAX_VALUE
  <2>3. Shl(Bits(n + 1), 56) \cap MAX_VALUE = {}
    BY <1>0, CountPlaced DEF CountBits, MAX_VALUE
  <2>4. is_complete(add_byte(s, b))
    BY <2>1 DEF is_complete
  <2>5. IS_COMPLETE \notin MAX_VALUE
    BY DEF IS_COMPLETE, MAX_VALUE
  <2> QED
    BY <2>1, <2>2, <2>3, <2>4, <2>5 DEF value
<1>3. ASSUME 7 \in b, n = 7 PROVE fail(add_byte(s, b)) /\ ~is_complete(add_byte(s, b))
  <2>1. Count(s) = 7 /\ ~is_complete(s) /\ ~fail(s)
    BY <1>3, CountRead
  <2>2. add_byte(s, b) = [s EXCEPT !.decoded = s.decoded \cup {IS_FAIL}]
    BY <1>3, <2>1 DEF add_byte, Refused
  <2>3. add_byte(s, b).decoded = s.decoded \cup {IS_FAIL}
    BY <1>0, <2>2
  <2> QED
    BY <2>1, <2>3 DEF fail, is_complete, IS_FAIL, IS_COMPLETE
<1> QED
  BY <1>1, <1>2, <1>3
=============================================================================
