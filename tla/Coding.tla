------------------------------- MODULE Coding -------------------------------
(***************************************************************************)
(* coding.cpp: fixed-width and variable-length integers as byte strings.   *)
(* The width is scaled down (a byte of 3 bits, an integer of 2 bytes) so   *)
(* that the largest value is reached; a byte string is a sequence.         *)
(***************************************************************************)
EXTENDS Integers, Sequences, SequencesExt

CONSTANTS
  ByteBits,   \* bits of a byte: 8 in the code
  Width       \* bytes of a uint64_t: 8 in the code

ASSUME CodingAssumption == ByteBits \in Nat \ {0, 1} /\ Width \in Nat \ {0}

\* The powers of base, from 0 on.
Power(base) == LET p[n \in Nat] == IF n = 0 THEN 1 ELSE base * p[n - 1] IN p

ByteSize == Power(2)[ByteBits]
Byte == 0..(ByteSize - 1)
BytePower == Power(ByteSize)
UINT_MAX == BytePower[Width] - 1

\* The flag bit of a varint byte, and the values the other bits take.
B == ByteSize \div 2

\* The members of a set of numbers in order.
Ascending(S) ==
  [k \in 1..Cardinality(S) |-> CHOOSE x \in S : Cardinality({y \in S : y < x}) = k - 1]
Descending(S) == Reverse(Ascending(S))

\* The number whose digits, the lowest first, are s.
Number(s, base) ==
  LET top[k \in 0..Len(s)] == IF k = 0 THEN 0 ELSE top[k - 1] * base + s[Len(s) + 1 - k]
  IN top[Len(s)]

\* Big endian: the byte order of the keys.
AppendFixed64(key, i) == key \o [k \in 1..Width |-> (i \div BytePower[Width - k]) % ByteSize]
AppendFixed8(key, i) == Append(key, i % ByteSize)

\* Each Remove gives the value and the rest of the slice.  The second is a
\* mutant: the bytes are not put back into the host's order.
RemoveFixed8(key) == [value |-> key[1], rest |-> Tail(key)]
RemoveHost64(key) ==
  [value |-> Number(SubSeq(key, 1, Width), ByteSize),
   rest  |-> SubSeq(key, Width + 1, Len(key))]
RemoveFixed64(key) ==
  [value |-> Number(Reverse(SubSeq(key, 1, Width)), ByteSize),
   rest  |-> SubSeq(key, Width + 1, Len(key))]

\* internal::AppendFixed64: the bytes as the (little endian) host stores them.
HostFixed64(i) == [k \in 1..Width |-> (i \div BytePower[k - 1]) % ByteSize]
HostValue(bytes) == Number(bytes, ByteSize)

-----------------------------------------------------------------------------
\* The most bytes GetVarint64 reads: the shift stays below the width.
MaxVarint64 == (Width * ByteBits - 1) \div (ByteBits - 1) + 1
MaxVarint32 == ((Width * ByteBits) \div 2 - 1) \div (ByteBits - 1) + 1

\* As many bytes of a varint as the value needs, the lowest first.
Varint(v, max) ==
  LET n == CHOOSE k \in 1..max : v < B^k /\ \A j \in 1..(k - 1) : v >= B^j
  IN [k \in 1..n |-> ((v \div B^(k - 1)) % B) + (IF k < n THEN B ELSE 0)]

\* The loop and its unrolled form for small values.
EncodeVarint64(v) == Varint(v, MaxVarint64)
EncodeVarint32(v) == Varint(v, MaxVarint32)

\* The values GetVarint64 or GetVarint32 give when s is read to its end: each ends
\* at a byte without the flag bit, and one longer than max bytes is refused.
Varints(s, max) ==
  LET ends  == Ascending({k \in DOMAIN s : s[k] < B})
      from(j) == IF j = 1 THEN 1 ELSE ends[j - 1] + 1
      good  == {j \in DOMAIN ends : \A i \in 1..j : ends[i] - from(i) < max}
  IN [j \in good |-> Number([k \in 1..(ends[j] + 1 - from(j)) |-> s[from(j) + k - 1] % B], B)]
=============================================================================
