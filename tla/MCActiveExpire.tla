--------------------------- MODULE MCActiveExpire ---------------------------
(* Instances of ActiveExpire for TLC. *)
EXTENDS ActiveExpire

MCKey == 1 .. 5

\* Two vectors of growth: 2, 4 and 8 buckets, with a chain that splits late.
MCHash == <<0, 1, 3, 5, 2>>
=============================================================================
