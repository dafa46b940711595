------------------------------ MODULE KeyTable ------------------------------
(***************************************************************************)
(* What a hash table of src/data_structure/hash_table.h promises its       *)
(* callers: a set of keys with lookup, insertion, removal, a size and a    *)
(* random element.  Buckets, expansion and incremental rehashing are       *)
(* invisible at this level: a step of background rehashing is a stutter.   *)
(***************************************************************************)
EXTENDS Integers, FiniteSets

CONSTANTS
  Key,    \* the keys callers use
  NoKey   \* the key of an operation that has none

VARIABLES
  keys,   \* the keys that have an entry
  ret     \* the last operation and what it returned

\* An answer: the operation, its key, the bool it returns and the size_t it
\* returns (FALSE and 0 where the operation returns none).
Answer(op, k, flag, n) == [op |-> op, key |-> k, flag |-> flag, count |-> n]

Init ==
  /\ keys = {}
  /\ ret = Answer("none", NoKey, FALSE, 0)

\* Find and Insert/Upsert: flag says whether the key had an entry.
Find(k) ==
  /\ ret' = Answer("Find", k, k \in keys, 0)
  /\ UNCHANGED keys

Upsert(k) ==
  /\ ret' = Answer("Upsert", k, k \in keys, 0)
  /\ keys' = keys \cup {k}

Erase(k) ==
  /\ ret' = Answer("Erase", k, k \in keys, 0)
  /\ keys' = keys \ {k}

Count ==
  /\ ret' = Answer("Count", NoKey, FALSE, Cardinality(keys))
  /\ UNCHANGED keys

\* Any entry may be drawn; drawing from a table that never had one gives null.
GetRandomEntry ==
  /\ \/ \E k \in keys : ret' = Answer("Random", k, TRUE, 0)
     \/ /\ keys = {}
        /\ ret' = Answer("Random", NoKey, FALSE, 0)
  /\ UNCHANGED keys

Next ==
  \/ \E k \in Key : Find(k) \/ Upsert(k) \/ Erase(k)
  \/ Count
  \/ GetRandomEntry

vars == <<keys, ret>>

Spec == Init /\ [][Next]_vars
=============================================================================
