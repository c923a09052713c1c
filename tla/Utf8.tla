-------------------------------- MODULE Utf8 --------------------------------
(***************************************************************************)
(* utf8::next, the step from one character of a string to the next one.    *)
(* A string is a sequence of octets and a position an index into it.       *)
(***************************************************************************)
EXTENDS Integers, Sequences

is_trail(oc) == oc \div 64 = 2

\* Octets of a sequence, by its lead; 0 for what leads none.
sequence_length(lead) ==
  CASE lead < 128                          -> 1
    [] lead \div 32 = 6                    -> 2
    [] lead \div 16 = 14                   -> 3
    [] lead \div 8 = 30                    -> 4
    [] lead >= 248 \/ is_trail(lead)       -> 0

\* At most 10FFFF and no surrogate (D800 to DFFF).
is_code_point_valid(cp) == cp <= 1114111 /\ ~(55296 <= cp /\ cp <= 57343)

is_overlong_sequence(cp, length) ==
  length > (IF cp < 128 THEN 1 ELSE IF cp < 2048 THEN 2 ELSE IF cp < 65536 THEN 3 ELSE 4)

\* get_sequence_1 to 4: the sequence must be whole and go on with trail octets; the
\* lead's marker bits are masked away.
IsComplete(s, it, length) ==
  /\ it + length - 1 <= Len(s)
  /\ \A k \in 1..(length - 1) : is_trail(s[it + k])

CodePoint(s, it, length) ==
  LET bits[k \in 0..(length - 1)] ==
        IF k = 0 THEN IF length = 1 THEN s[it] ELSE s[it] % 2^(7 - length)
        ELSE (bits[k - 1] * 64) + (s[it + k] % 64)
  IN bits[length - 1]

\* How far validate_next moves: 0 for each of its errors, which leave it in place.
validate_next(s, it) ==
  LET length == sequence_length(s[it])
  IN IF /\ length # 0
        /\ IsComplete(s, it, length)
        /\ is_code_point_valid(CodePoint(s, it, length))
        /\ ~is_overlong_sequence(CodePoint(s, it, length), length)
     THEN length
     ELSE 0

Throws == 0

\* The next position, or an exception.
next(s, it) == IF validate_next(s, it) = 0 THEN Throws ELSE it + validate_next(s, it)
=============================================================================
