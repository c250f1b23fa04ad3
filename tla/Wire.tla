-------------------------------- MODULE Wire --------------------------------
(***************************************************************************)
(* Protobuf's wire format as the generated code of the undo module writes  *)
(* and reads it (x/undo/types/*.pb.go).  Every file carries its own copy   *)
(* of these functions; the ones in pending.pb.go stand for all.            *)
(*                                                                         *)
(* Bytes are real and so are tags and seven-bit groups.  A uint64, with    *)
(* its ten groups of which the last has one bit, is cut down to Groups     *)
(* groups of which the last has one bit.  A string is its bytes.  What may *)
(* fail or panic yields a set: the empty one, or the one with its result.  *)
(***************************************************************************)
EXTENDS Integers, SequencesExt

CONSTANTS
    Groups,    \* the bytes of the longest varint: 10 in the code
    FieldBits  \* the width of a field number: an int32 in the code

ASSUME WidthsAssumption == Groups \in Nat \ {0, 1} /\ FieldBits \in 5..7 * Groups

Power2[n \in Nat] == IF n = 0 THEN 1 ELSE 2 * Power2[n - 1]

WordBits == 7 * (Groups - 1) + 1
WordSize == Power2[WordBits]
Word == 0..WordSize - 1
Byte == 0..255
Text == Seq(Byte)

\* What a slice can hold: its length is an int.
MaxInt == Power2[WordBits - 1] - 1
Buffer == {data \in Text : Len(data) <= MaxInt}

\* Go's conversion of an unsigned number to a signed one of this width.
Signed(x, bits) == ((x + Power2[bits - 1]) % Power2[bits]) - Power2[bits - 1]

-----------------------------------------------------------------------------
(* Writing, back to front: every writer puts its bytes before the ones     *)
(* that have been written already.                                         *)

\* math_bits.Len64
Len64(x) == Cardinality({n \in 0..WordBits - 1 : Power2[n] <= x})

sov(x) == (Len64(x + 1 - (x % 2)) + 6) \div 7

Groups7[x \in Nat] == IF x < 128 THEN <<x>> ELSE <<(x % 128) + 128>> \o Groups7[x \div 128]

\* The offset goes back by sov; the loop then writes as many bytes as there are.
encodeVarint(x, rest) ==
    LET bytes == Groups7[x]
        buffer == [i \in 1..sov(x) |-> 0] \o rest
    IN  [i \in DOMAIN buffer |-> IF i <= Len(bytes) THEN bytes[i] ELSE buffer[i]]

UintField(tag, x, rest) == IF x # 0 THEN <<tag>> \o encodeVarint(x, rest) ELSE rest
IntField(tag, x, rest) == UintField(tag, x % WordSize, rest)
BoolField(tag, b, rest) == IF b THEN <<tag, 1>> \o rest ELSE rest
MessageField(tag, bytes, rest) == <<tag>> \o encodeVarint(Len(bytes), bytes \o rest)
StringField(tag, s, rest) == IF s # << >> THEN MessageField(tag, s, rest) ELSE rest

\* The sizes the buffer is made for, counted apart from the writing.
UintSize(x) == IF x # 0 THEN 1 + sov(x) ELSE 0
IntSize(x) == UintSize(x % WordSize)
BoolSize(b) == IF b THEN 2 ELSE 0
MessageSize(size) == 1 + size + sov(size)
StringSize(s) == IF s # << >> THEN MessageSize(Len(s)) ELSE 0

\* Marshal: a buffer of Size zeros, filled from its end; the first n bytes of it
\* are returned, n being the number of bytes written.  A buffer that is too short
\* is an index out of range.
Filled(bytes, size) ==
    IF Len(bytes) > size THEN {}
    ELSE {SubSeq([i \in 1..size - Len(bytes) |-> 0] \o bytes, 1, Len(bytes))}

-----------------------------------------------------------------------------
(* Reading.  A position is the number of bytes before it (iNdEx).          *)

\* The number in the bytes from a position to the last one, seven bits of each.
NumberTo(data, last) ==
    LET from[at \in 0..last] ==
            IF at = last THEN 0 ELSE (data[at + 1] % 128) + 128 * from[at + 1]
    IN  from

\* Mutant: the end of the data ends a number as well.
ReadVarintToTheEnd(data, at) ==
    LET ends == {i \in at + 1..at + Groups : i <= Len(data) /\ (data[i] < 128 \/ i = Len(data))}
    IN  IF ends = {} THEN {}
        ELSE {[value |-> NumberTo(data, Min(ends))[at] % WordSize, next |-> Min(ends)]}

\* The loop that reads a varint: at most Groups bytes, and the bits that do not
\* fit the word are shifted out of it.
ReadVarint(data, at) ==
    LET ends == {i \in at + 1..at + Groups : i <= Len(data) /\ data[i] < 128}
    IN  IF ends = {} THEN {}
        ELSE {[value |-> NumberTo(data, Min(ends))[at] % WordSize, next |-> Min(ends)]}

\* Where a length read at a position leads: not below zero, not past the end of
\* an int.
Jump(at, length) ==
    {to \in {Signed(at + Signed(length, WordBits), WordBits)} :
        Signed(length, WordBits) >= 0 /\ to >= 0}

\* The bytes of a string or an embedded message: where they start, where they end.
ReadBytes(data, at) ==
    UNION {{[from |-> length.next, post |-> post] :
               post \in {p \in Jump(length.next, length.value) : p <= Len(data)}}
           : length \in ReadVarint(data, at)}

\* Nothing here looks whether the bytes that are skipped are there.
PastValue(data, at, wireType) ==
    CASE wireType = 0 -> {v.next : v \in ReadVarint(data, at)}
      [] wireType = 1 -> {at + 8}
      [] wireType = 5 -> {at + 4}
      [] wireType = 2 -> UNION {Jump(v.next, v.value) : v \in ReadVarint(data, at)}
      [] wireType \in {3, 4} -> {at}
      [] OTHER -> {}

\* One turn of skip's loop: past a tag and its value, into a group or out of one.
SkipOne(data, c) ==
    UNION {LET wireType == tag.value % 8
               deeper == CASE wireType = 3 -> c.depth + 1
                           [] wireType = 4 -> c.depth - 1
                           [] OTHER -> c.depth
           IN  {[at |-> next, depth |-> deeper]
                : next \in IF deeper < 0 THEN {} ELSE PastValue(data, tag.next, wireType)}
           : tag \in ReadVarint(data, c.at)}

\* skip: the field at this position, a group with all that is in it.
SkipFrom(data) ==
    LET skipped[c \in [at : Nat, depth : Nat]] ==
            UNION {IF next.depth = 0 THEN {next.at} ELSE skipped[next] : next \in SkipOne(data, c)}
    IN  skipped
skip(data, at) == {to \in SkipFrom(data)[[at |-> at, depth |-> 0]] : to <= Len(data)}
=============================================================================
