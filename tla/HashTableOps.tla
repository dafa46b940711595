---------------------------- MODULE HashTableOps ----------------------------
(***************************************************************************)
(* The chained hash table with incremental rehashing of                    *)
(* src/data_structure/hash_table.h.                                        *)
(*                                                                         *)
(* A table is a record of the members of the class: b0 and b1 are          *)
(* buckets_[0] and buckets_[1] (size0 and size1 their sizes), entries is   *)
(* entries_ and rehash_index is rehash_index_.  A bucket is the set of the *)
(* keys in its chain; the order of a chain is not observable.  The entry   *)
(* of a key is identified with the key: an entry inserted twice shows as   *)
(* entries_ differing from the number of keys stored, an entry in two      *)
(* buckets as a key FindBucket does not look for.                          *)
(*                                                                         *)
(* Operations are operators on tables, because an operation runs several   *)
(* of them in sequence (lookup, expand, lookup again, create) and because  *)
(* a service owns several tables.                                          *)
(***************************************************************************)
EXTENDS Integers, FiniteSets

CONSTANTS
  Key,          \* keys
  Hash,         \* XXH64 of every key
  InitBuckets,  \* buckets of the first resize (4 in the code)
  EmptyFactor,  \* empty buckets visited per bucket to rehash (10 in the code)
  CronBuckets   \* buckets per background RehashSome call (100 in the code)

ASSUME KeyAssumption == IsFiniteSet(Key)
ASSUME HashAssumption == Hash \in [Key -> Nat]
ASSUME SizeAssumption ==
  InitBuckets \in Nat \ {0} /\ EmptyFactor \in Nat \ {0} /\ CronBuckets \in Nat \ {0}

-----------------------------------------------------------------------------
(* The state of a table *)

\* A bucket vector of n empty buckets.
Vector(n) == [i \in 0 .. (n - 1) |-> {}]

Table(s0, s1, v0, v1, n, r) ==
  [size0 |-> s0, size1 |-> s1, b0 |-> v0, b1 |-> v1, entries |-> n, rehash_index |-> r]

EmptyTable == Table(0, 0, Vector(0), Vector(0), 0, -1)

IsRehashing(t) == t.rehash_index >= 0

\* The index of k in a vector of n buckets.
Slot(k, n) == Hash[k] % n

\* The keys that have an entry anywhere in the table.
KeysOf(t) ==
  (UNION {t.b0[i] : i \in 0 .. (t.size0 - 1)}) \cup (UNION {t.b1[i] : i \in 0 .. (t.size1 - 1)})

-----------------------------------------------------------------------------
(* Incremental rehashing *)

\* Where RehashSome(n) may leave its loop: at the end of buckets_[0], after n
\* buckets with entries or after n * EmptyFactor empty ones.
RehashEnds(t, n) ==
  {e \in (t.rehash_index + 1) .. t.size0 :
     LET visited == t.rehash_index .. (e - 1)
     IN  \/ e = t.size0
         \/ Cardinality({i \in visited : t.b0[i] # {}}) = n
         \/ Cardinality({i \in visited : t.b0[i] = {}}) = n * EmptyFactor}

\* It leaves at the first of them.
RehashEnd(t, n) ==
  CHOOSE e \in RehashEnds(t, n) : \A f \in RehashEnds(t, n) : e <= f

\* RehashBucket on the buckets rehash_index .. e-1: every entry moves to its
\* slot of buckets_[1], the bucket it leaves becomes null.
RehashBuckets(t, e) ==
  LET visited == t.rehash_index .. (e - 1)
      moved   == UNION {t.b0[i] : i \in visited}
  IN  Table(t.size0, t.size1,
            [i \in 0 .. (t.size0 - 1) |-> IF i \in visited THEN {} ELSE t.b0[i]],
            [j \in 0 .. (t.size1 - 1) |->
               t.b1[j] \cup {k \in moved : Slot(k, t.size1) = j}],
            t.entries, e)

\* The end of rehashing: buckets_[0] = std::move(buckets_[1]).
AdoptSecond(t) == Table(t.size1, 0, t.b1, Vector(0), t.entries, -1)

RehashSome(t, n) ==
  LET t1 == RehashBuckets(t, RehashEnd(t, n))
  IN  IF t1.rehash_index = t1.size0 THEN AdoptSecond(t1) ELSE t1

-----------------------------------------------------------------------------
(* Lookup *)

\* The step of rehashing FindBucket takes before it picks a bucket.
RehashStep(t) == IF IsRehashing(t) THEN RehashSome(t, 1) ELSE t

Bug_IgnoresRehashIndex(t, k) == TRUE

\* FindBucket picks from buckets_[0] when the bucket there is not rehashed yet.
InFirst(t, k) == Slot(k, t.size0) >= t.rehash_index

\* The bucket FindBucket returns, after its rehashing step.
FindBucket(t, k) ==
  IF InFirst(t, k) THEN t.b0[Slot(k, t.size0)] ELSE t.b1[Slot(k, t.size1)]

\* Replaces the bucket FindBucket returns, leaving n entries in the table.
SetBucket(t, k, chain, n) ==
  IF InFirst(t, k)
  THEN Table(t.size0, t.size1, [t.b0 EXCEPT ![Slot(k, t.size0)] = chain], t.b1, n, t.rehash_index)
  ELSE Table(t.size0, t.size1, t.b0, [t.b1 EXCEPT ![Slot(k, t.size1)] = chain], n, t.rehash_index)

-----------------------------------------------------------------------------
(* Expansion *)

\* Expand returns kNoExpand: not rehashing and the table is not full.
NoExpand(t) == ~IsRehashing(t) /\ (t.size0 = 0 \/ t.entries < t.size0)

Bug_ExpandsLate(t) ==
  IF IsRehashing(t) THEN t
  ELSE IF t.size0 = 0 THEN Table(InitBuckets, 0, Vector(InitBuckets), Vector(0), t.entries, -1)
  ELSE IF t.entries <= t.size0 THEN t
  ELSE RehashSome(
         Table(t.size0, 2 * t.size0, t.b0, Vector(2 * t.size0), t.entries, 0), 1)

\* NeedsToExpand's resize of an empty table; a full table gets a second
\* vector twice as large and StartRehashing takes a first step.
Expand(t) ==
  IF IsRehashing(t) THEN t
  ELSE IF t.size0 = 0 THEN Table(InitBuckets, 0, Vector(InitBuckets), Vector(0), t.entries, -1)
  ELSE IF t.entries < t.size0 THEN t
  ELSE RehashSome(
         Table(t.size0, 2 * t.size0, t.b0, Vector(2 * t.size0), t.entries, 0), 1)

-----------------------------------------------------------------------------
(* The operations of the class *)

\* Whether FindOrCreate finds an entry of k.
Exists(t, k) == t.size0 # 0 /\ LET t1 == RehashStep(t) IN k \in FindBucket(t1, k)

CreateEntryInBucket(t, k) ==
  SetBucket(t, k, FindBucket(t, k) \cup {k}, t.entries + 1)

Bug_StaleBucket(t, k) ==
  LET t1 == RehashStep(IF t.size0 = 0 THEN Expand(t) ELSE t)
      t2 == Expand(t1)
      i  == Slot(k, t1.size0)
  IN  IF k \in FindBucket(t1, k) THEN t1
      ELSE Table(t2.size0, t2.size1, [t2.b0 EXCEPT ![i] = @ \cup {k}], t2.b1,
                 t2.entries + 1, t2.rehash_index)

\* FindOrCreate with create_on_missing: the bucket is looked up again unless
\* Expand returned kNoExpand.
Create(t, k) ==
  LET t1 == RehashStep(IF t.size0 = 0 THEN Expand(t) ELSE t)
      t2 == Expand(t1)
      t3 == IF NoExpand(t1) THEN t2 ELSE RehashStep(t2)
  IN  IF k \in FindBucket(t1, k) THEN t1 ELSE CreateEntryInBucket(t3, k)

\* FindOrCreate without create_on_missing.
Lookup(t) == IF t.size0 = 0 THEN t ELSE RehashStep(t)

Bug_ErasesWithoutCounting(t, k) ==
  LET t1 == Lookup(t)
  IN  IF t1.size0 # 0 /\ k \in FindBucket(t1, k)
      THEN SetBucket(t1, k, FindBucket(t1, k) \ {k}, t1.entries) ELSE t1

Bug_CountsMissedErase(t, k) ==
  LET t1 == Lookup(t)
  IN  IF t1.size0 # 0
      THEN SetBucket(t1, k, FindBucket(t1, k) \ {k}, t1.entries - 1) ELSE t1

\* Erase.
Remove(t, k) ==
  LET t1 == Lookup(t)
  IN  IF t1.size0 # 0 /\ k \in FindBucket(t1, k)
      THEN SetBucket(t1, k, FindBucket(t1, k) \ {k}, t1.entries - 1)
      ELSE t1

Bug_DrawsFromFirstOnly(t) ==
  UNION {t.b0[r % t.size0] : r \in 0 .. (2 * t.size0 - 1)}

\* The entries GetRandomEntry can return, for every value of std::rand().
RandomEntries(t) ==
  UNION {IF r % t.size0 >= t.rehash_index THEN t.b0[r % t.size0] ELSE t.b1[r % t.size1] :
           r \in 0 .. (2 * t.size0 - 1)}
=============================================================================
