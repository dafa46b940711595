----------------------------- MODULE HashTable ------------------------------
(***************************************************************************)
(* One hash table under any sequence of the operations of the class        *)
(* HashTable and of the background rehashing of the service that owns it.  *)
(***************************************************************************)
EXTENDS HashTableOps

CONSTANT NoKey  \* the key of an answer that has none

VARIABLES
  table,        \* the table
  ret           \* the last operation and what it returned

vars == <<table, ret>>

Answer(op, k, flag, n) == [op |-> op, key |-> k, flag |-> flag, count |-> n]

-----------------------------------------------------------------------------
(* The specification: any sequence of operations on one table *)

Init ==
  /\ table = EmptyTable
  /\ ret = Answer("none", NoKey, FALSE, 0)

Find(k) ==
  /\ table' = Lookup(table)
  /\ ret' = Answer("Find", k, Exists(table, k), 0)

Upsert(k) ==
  /\ table' = Create(table, k)
  /\ ret' = Answer("Upsert", k, Exists(table, k), 0)

Erase(k) ==
  /\ table' = Remove(table, k)
  /\ ret' = Answer("Erase", k, Exists(table, k), 0)

Count ==
  /\ ret' = Answer("Count", NoKey, FALSE, table.entries)
  /\ UNCHANGED table

\* A draw from a table that has buckets loops until it meets an entry.
GetRandomEntry ==
  /\ \/ /\ table.size0 # 0
        /\ \E k \in RandomEntries(table) : ret' = Answer("Random", k, TRUE, 0)
     \/ /\ table.size0 = 0
        /\ ret' = Answer("Random", NoKey, FALSE, 0)
  /\ UNCHANGED table

Bug_RehashesOnlyWhenFull ==
  /\ IsRehashing(table)
  /\ table.entries > table.size0
  /\ table' = RehashSome(table, CronBuckets)
  /\ UNCHANGED ret

\* An iteration of DataStructureService::IncrementalRehashing.
IncrementalRehashing ==
  /\ IsRehashing(table)
  /\ table' = RehashSome(table, CronBuckets)
  /\ UNCHANGED ret

Next ==
  \/ \E k \in Key : Find(k) \/ Upsert(k) \/ Erase(k)
  \/ Count
  \/ GetRandomEntry
  \/ IncrementalRehashing

Spec == Init /\ [][Next]_vars

\* Cron keeps calling IncrementalRehashing while the service runs.
FairSpec == Spec /\ WF_vars(IncrementalRehashing)

-----------------------------------------------------------------------------
(* Properties *)

\* The members of the class have their types; the vectors have the sizes
\* recorded for them.
TypeOK ==
  /\ table \in [size0 : Nat, size1 : Nat, b0 : [0 .. (table.size0 - 1) -> SUBSET Key],
                b1 : [0 .. (table.size1 - 1) -> SUBSET Key],
                entries : Nat, rehash_index : Int]
  /\ ret.op \in {"none", "Find", "Upsert", "Erase", "Count", "Random"}

\* Between operations the table is either at rest, with no second vector (the
\* assertion of Expand), or rehashing strictly inside the first vector into a
\* second one of twice its size (the assertions of RehashSome).
PhaseOK(t) ==
  \/ t.rehash_index = -1 /\ t.size1 = 0
  \/ t.rehash_index \in 0 .. (t.size0 - 1) /\ t.size1 = 2 * t.size0 /\ t.size0 > 0

\* Every entry is in the one bucket FindBucket would pick for its key: while
\* rehashing, the slots below rehash_index are empty in the first vector, and
\* the second vector holds only keys of those slots.
PlacementOK(t) ==
  /\ \A i \in 0 .. (t.size0 - 1) : \A k \in t.b0[i] :
       Slot(k, t.size0) = i /\ i >= t.rehash_index
  /\ \A j \in 0 .. (t.size1 - 1) : \A k \in t.b1[j] :
       Slot(k, t.size1) = j /\ Slot(k, t.size0) < t.rehash_index

Placement == PhaseOK(table) /\ PlacementOK(table)

\* entries_ is the number of entries stored, through insertions in the middle
\* of a rehash, removals and moves between vectors.
CountIsExact == table.entries = Cardinality(KeysOf(table))

\* The load stays bounded: insertion moves buckets at least twice as fast as it
\* adds entries, so a rehash ends before the second vector is full and no table
\* at rest holds more entries than buckets.
LoadOK(t) ==
  IF IsRehashing(t)
  THEN 2 * (t.entries - t.size0) <= t.rehash_index
  ELSE t.entries <= t.size0

LoadBounded == LoadOK(table)

\* A random draw can return every entry and nothing else, also in the middle of
\* a rehash, so eviction reaches every key and its draw from a table with
\* entries ends.
RandomReachesAll == table.size0 # 0 => RandomEntries(table) = KeysOf(table)

\* The table implements a set of keys: rehashing is invisible to callers.
Abstract == INSTANCE KeyTable WITH keys <- KeysOf(table)
ImplementsKeyTable == Abstract!Spec

\* A rehash does not stay in progress forever.
RehashTerminates == IsRehashing(table) ~> ~IsRehashing(table)
=============================================================================
