------------------------- MODULE VariableLengthSize -------------------------
(***************************************************************************)
(* VariableLengthSize: sizes below 2^56 in groups of 7 bits, the highest   *)
(* first, one per byte, whose top bit says that another byte follows.  The *)
(* code packs all of its state into two 64-bit words.  A word is the set   *)
(* of its bits that are set, a byte a subset of 0..7, an object the record *)
(* of its two words; the operators return the object that is left.         *)
(***************************************************************************)
EXTENDS Integers, Sequences, FiniteSetsExt, SequencesExt

Word == 0..63
Byte == SUBSET (0..7)

\* << and >> of std::uint64_t; | is \cup and & is \cap.
Shl(w, k) == {i + k : i \in w} \cap Word
Shr(w, k) == {i - k : i \in w} \cap Word

IS_COMPLETE == 63
IS_FAIL == 62
INVALID_VALUE == Word
MAX_VALUE == 0..55

\* The bits of a small number.
Bits(n) == {i \in 0..3 : (n \div 2^i) % 2 = 1}

Decoding == [encoded |-> {}, decoded |-> {}]      \* the default constructor, and reset()
is_complete(s) == IS_COMPLETE \in s.decoded
fail(s) == IS_FAIL \in s.decoded
value(s) == IF is_complete(s) THEN s.decoded \cap MAX_VALUE ELSE INVALID_VALUE

-----------------------------------------------------------------------------
(* Encoding *)

\* The number of groups of 7 bits of a value.
Groups(v) == IF v = {} THEN 1 ELSE Max(v) \div 7 + 1

\* The 7 bits that the i-th iteration of the loop cuts off.
Chunk(v, i) == Shr(v, 7 * i) \cap (0..6)

encode_impl(v) ==
  FoldLeft(LAMBDA e, i : Shl(e, 8) \cup Chunk(v, i) \cup {7}, Chunk(v, 0), [i \in 1..(Groups(v) - 1) |-> i])

\* The constructors from a number: a value out of range leaves the object empty.
Encoding(v) == IF v \subseteq MAX_VALUE
               THEN [encoded |-> encode_impl(v), decoded |-> v \cup {IS_COMPLETE}]
               ELSE Decoding

\* The marks of the encoded bytes tell how many there are.
bytes_count(s) ==
  LET marks == s.encoded \cap {8 * j + 7 : j \in 0..7}
  IN  IF marks = {} THEN (IF is_complete(s) THEN 1 ELSE 0)
      ELSE IF \E k \in 1..7 : marks = {8 * j + 7 : j \in 0..(k - 1)} THEN Cardinality(marks) + 1
      ELSE 0

\* The bytes from bytes() on, in the order of memory.
bytes(s) == [j \in 1..bytes_count(s) |-> Shr(s.encoded, 8 * (j - 1)) \cap (0..7)]

-----------------------------------------------------------------------------
(* Decoding *)

\* Four of the free bits count the bytes while they are read.
CountBits == 56..59
Count(s) == CHOOSE n \in 0..15 : Shl(Bits(n), 56) = s.decoded \cap CountBits

\* The byte b is refused: the object is finished, or this is a ninth byte.
Refused(s, b) == is_complete(s) \/ fail(s) \/ (Count(s) = 7 /\ 7 \in b)

\* RoundTrip: the shift leaves a bit of the count where the mask of the
\* complete value is.
KeepsCount(s, b) ==
  IF is_complete(s) \/ fail(s) THEN s
  ELSE IF Refused(s, b) THEN [s EXCEPT !.decoded = @ \cup {IS_FAIL}]
  ELSE LET n == Count(s)
           decoded == Shl(s.decoded, 7) \cup Shl(Bits(n + 1), 56) \cup (b \ {7})
           encoded == Shr(s.encoded, 8) \cup Shl(b, 56)
       IN  IF 7 \in b THEN [encoded |-> encoded, decoded |-> decoded]
           ELSE [encoded |-> Shr(encoded, 8 * (8 - n - 1)), decoded |-> decoded \cup {IS_COMPLETE}]

add_byte(s, b) ==
  IF is_complete(s) \/ fail(s) THEN s
  ELSE IF Refused(s, b) THEN [s EXCEPT !.decoded = @ \cup {IS_FAIL}]
  ELSE LET n == Count(s)
           decoded == (Shl(s.decoded, 7) \ {IS_COMPLETE}) \cup Shl(Bits(n + 1), 56) \cup (b \ {7})
           encoded == Shr(s.encoded, 8) \cup Shl(b, 56)
       IN  IF 7 \in b THEN [encoded |-> encoded, decoded |-> decoded]
           ELSE [encoded |-> Shr(encoded, 8 * (8 - n - 1)), decoded |-> decoded \cup {IS_COMPLETE}]

\* add_bytes goes on until a byte is refused: the object it leaves, and how
\* many bytes it has taken.
add_bytes(s, bs) ==
  FoldLeft(LAMBDA acc, b : IF acc.stopped THEN acc
                           ELSE [size |-> add_byte(acc.size, b),
                                 taken |-> acc.taken + (IF Refused(acc.size, b) THEN 0 ELSE 1),
                                 stopped |-> Refused(acc.size, b)],
           [size |-> s, taken |-> 0, stopped |-> FALSE], bs)
=============================================================================
