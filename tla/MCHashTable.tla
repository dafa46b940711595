---------------------------- MODULE MCHashTable -----------------------------
(* Instances of HashTable for TLC. *)
EXTENDS HashTable

MCKey == 1 .. 9

\* Collisions in every vector, a long chain, and runs of empty buckets.
MCHash == <<0, 3, 3, 7, 11, 1, 9, 5, 12>>
=============================================================================
