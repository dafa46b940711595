----------------------------- MODULE StringOps ------------------------------
(***************************************************************************)
(* What SETRANGE, GETRANGE and APPEND of                                   *)
(* src/service/commands/string_commands.cc compute on the bytes of a       *)
(* string, and what their documentation says they compute.                 *)
(***************************************************************************)
EXTENDS Integers, Sequences

CONSTANTS
  Byte,   \* bytes of values
  Zero    \* the zero byte

ASSUME ByteAssumption == Zero \in Byte

Zeros(n) == [i \in 1 .. n |-> Zero]

Least(a, b) == IF a < b THEN a ELSE b

Greatest(a, b) == IF a < b THEN b ELSE a

-----------------------------------------------------------------------------
(* The code *)

\* SETRANGE on a key that is missing, or whose value a reply still holds.
SetRangeFresh(start, v) == IF start = 0 THEN v ELSE Zeros(start + 1) \o v

\* SETRANGE on a value of its own: what follows the start is replaced.
SetRangeInPlace(s, start, v) ==
  IF start > Len(s) THEN s \o Zeros(start - Len(s)) \o v ELSE SubSeq(s, 1, start) \o v

\* transform_index of GETRANGE: an offset becomes an index of at most size.
TransformIndex(size, i) == Least(size, IF i < 0 THEN Greatest(0, size + i) ELSE i)


\* GETRANGE.  A range that ends at size takes in the terminator of the string.
GetRange(s, start, end) ==
  LET first == TransformIndex(Len(s), start)
      last  == TransformIndex(Len(s), end)
  IN  IF first = Len(s) \/ last <= first THEN <<>>
      ELSE SubSeq(Append(s, Zero), first + 1, last + 1)

-----------------------------------------------------------------------------
(* The documentation *)

\* SETRANGE: "Overwrites part of the string stored at key, starting at the
\* specified offset, for the entire length of value", padded with zero bytes;
\* a missing key is an empty string.
Overwritten(s, start, v) ==
  [i \in 1 .. Greatest(Len(s), start + Len(v)) |->
     IF i > start /\ i <= start + Len(v) THEN v[i - start]
     ELSE IF i <= Len(s) THEN s[i] ELSE Zero]

\* GETRANGE: both offsets are inclusive, -1 is the last byte, and the range is
\* limited to the length of the string.
Substring(s, start, end) ==
  LET Index(i) == IF i < 0 THEN Len(s) + i ELSE i
  IN  SubSeq(s, Greatest(0, Index(start)) + 1, Least(Len(s) - 1, Index(end)) + 1)
=============================================================================
