-------------------------- MODULE HashTableProofs ---------------------------
(***************************************************************************)
(* Proofs about HashTable for every finite set of keys, every hash         *)
(* function and every value of the size constants.                         *)
(*                                                                         *)
(* The argument is on tables: TableInv(t) says that t has its type, is in  *)
(* one of its two phases, keeps every key in its bucket, counts its keys   *)
(* and is not overloaded.  Each operation of the class preserves it and    *)
(* changes KeysOf(t) the way its name says; the invariants and the         *)
(* refinement of KeyTable follow.                                          *)
(***************************************************************************)
EXTENDS HashTable, FiniteSetTheorems, WellFoundedInduction, NaturalsInduction, TLAPS

-----------------------------------------------------------------------------
(* Tables *)

\* The members of a table have their types.
TableType(t) ==
  t \in [size0 : Nat, size1 : Nat, b0 : [0 .. (t.size0 - 1) -> SUBSET Key],
         b1 : [0 .. (t.size1 - 1) -> SUBSET Key], entries : Nat, rehash_index : Int]

\* The keys are where lookups expect them.
Shape(t) == TableType(t) /\ PhaseOK(t) /\ PlacementOK(t)

\* A bucket index is inside its vector.
LEMMA SlotType ==
  ASSUME NEW k \in Key, NEW n \in Nat \ {0}
  PROVE  Slot(k, n) \in 0 .. (n - 1)
BY HashAssumption DEF Slot

\* A nonempty set of naturals has a least element.
LEMMA LeastElement ==
  ASSUME NEW S \in SUBSET Nat, S # {}
  PROVE  \E x \in S : \A y \in S : x <= y
<1>1. IsWellFoundedOn(OpToRel(<, Nat), Nat)
  BY Zenon, NatLessThanWellFounded
<1>2. PICK x \in S : \A y \in S : ~(<<y, x>> \in OpToRel(<, Nat))
  BY Zenon, <1>1, WFMin
<1>3. \A y \in S : ~(y < x)
  BY Zenon, <1>2 DEF OpToRel
<1> QED BY <1>3

\* The loop of RehashSome advances rehash_index_ and stops inside buckets_[0].
LEMMA RehashEndType ==
  ASSUME NEW t, Shape(t), IsRehashing(t), NEW n \in Nat \ {0}
  PROVE  RehashEnd(t, n) \in (t.rehash_index + 1) .. t.size0
<1>1. RehashEnds(t, n) \in SUBSET ((t.rehash_index + 1) .. t.size0)
  BY DEF RehashEnds
<1>2. t.rehash_index + 1 \in Nat /\ t.size0 \in (t.rehash_index + 1) .. t.size0
  BY DEF Shape, TableType, PhaseOK, IsRehashing
<1>3. t.size0 \in RehashEnds(t, n)
  BY <1>2 DEF RehashEnds
<1>4. RehashEnds(t, n) \in SUBSET Nat
  BY <1>1, <1>2
<1>5. \E e \in RehashEnds(t, n) : \A f \in RehashEnds(t, n) : e <= f
  BY <1>3, <1>4, LeastElement
<1> QED BY <1>1, <1>5 DEF RehashEnd

\* A key is stored when some bucket of either vector holds it.
LEMMA KeysOfMember ==
  ASSUME NEW t, NEW k
  PROVE  k \in KeysOf(t) <=> \/ \E i \in 0 .. (t.size0 - 1) : k \in t.b0[i]
                            \/ \E j \in 0 .. (t.size1 - 1) : k \in t.b1[j]
BY DEF KeysOf

\* The members of a table built member by member.
LEMMA TableFields ==
  ASSUME NEW s0, NEW s1, NEW v0, NEW v1, NEW n, NEW r
  PROVE  LET u == Table(s0, s1, v0, v1, n, r)
         IN  /\ u.size0 = s0 /\ u.size1 = s1 /\ u.b0 = v0 /\ u.b1 = v1
             /\ u.entries = n /\ u.rehash_index = r
             /\ s0 \in Nat /\ s1 \in Nat /\ n \in Nat /\ r \in Int
                /\ v0 \in [0 .. (s0 - 1) -> SUBSET Key] /\ v1 \in [0 .. (s1 - 1) -> SUBSET Key]
                => TableType(u)
BY DEF Table, TableType

\* Moving a run of buckets loses no key and puts each in its slot of buckets_[1].
LEMMA RehashBucketsShape ==
  ASSUME NEW t, Shape(t), IsRehashing(t),
         NEW e \in (t.rehash_index + 1) .. t.size0
  PROVE  /\ TableType(RehashBuckets(t, e))
         /\ PlacementOK(RehashBuckets(t, e))
         /\ KeysOf(RehashBuckets(t, e)) = KeysOf(t)
<1> DEFINE u == RehashBuckets(t, e)
<1> DEFINE visited == t.rehash_index .. (e - 1)
<1> DEFINE moved == UNION {t.b0[i] : i \in visited}
<1>1. /\ t.size0 \in Nat \ {0} /\ t.size1 = 2 * t.size0 /\ t.rehash_index \in 0 .. (t.size0 - 1)
      /\ t.entries \in Nat /\ e \in Nat
      /\ t.b0 \in [0 .. (t.size0 - 1) -> SUBSET Key]
      /\ t.b1 \in [0 .. (t.size1 - 1) -> SUBSET Key]
  BY DEF Shape, TableType, PhaseOK, IsRehashing
<1>2. /\ u.size0 = t.size0 /\ u.size1 = t.size1 /\ u.entries = t.entries
      /\ u.rehash_index = e
      /\ u.b0 = [i \in 0 .. (t.size0 - 1) |-> IF i \in visited THEN {} ELSE t.b0[i]]
      /\ u.b1 = [j \in 0 .. (t.size1 - 1) |-> t.b1[j] \cup {k \in moved : Slot(k, t.size1) = j}]
  BY TableFields DEF RehashBuckets
<1>9. u = Table(t.size0, t.size1, u.b0, u.b1, t.entries, e)
  BY <1>2 DEF RehashBuckets
<1> HIDE DEF u
<1>3. visited \subseteq 0 .. (t.size0 - 1)
  BY <1>1
<1>4. moved \subseteq Key
  BY <1>1, <1>3
<1>5. \A k \in moved : \E i \in visited : k \in t.b0[i] /\ Slot(k, t.size0) = i
  BY <1>3 DEF Shape, PlacementOK
<1> HIDE DEF moved
<1>6. TableType(u)
  <2>1. u.b0 \in [0 .. (t.size0 - 1) -> SUBSET Key]
    BY <1>1, <1>2
  <2>2. u.b1 \in [0 .. (t.size1 - 1) -> SUBSET Key]
    <3>1. \A j \in 0 .. (t.size1 - 1) :
            t.b1[j] \cup {k \in moved : Slot(k, t.size1) = j} \in SUBSET Key
      BY Zenon, <1>1, <1>4
    <3> QED BY Zenon, <1>2, <3>1
  <2>3. t.size0 \in Nat /\ t.size1 \in Nat /\ t.entries \in Nat /\ e \in Int
    BY <1>1
  <2>4. TableType(Table(t.size0, t.size1, u.b0, u.b1, t.entries, e))
    BY <2>1, <2>2, <2>3, TableFields
  <2> QED BY Zenon, <1>9, <2>4
<1>7. PlacementOK(u)
  <2>1. ASSUME NEW i \in 0 .. (u.size0 - 1), NEW k \in u.b0[i]
        PROVE  Slot(k, u.size0) = i /\ i >= u.rehash_index
    <3>1. i \notin visited /\ k \in t.b0[i]
      BY <1>2, <2>1
    <3> QED BY <1>1, <1>2, <3>1 DEF Shape, PlacementOK
  <2>2. ASSUME NEW j \in 0 .. (u.size1 - 1), NEW k \in u.b1[j]
        PROVE  Slot(k, u.size1) = j /\ Slot(k, u.size0) < u.rehash_index
    <3>1. CASE k \in t.b1[j]
      <4>1. Slot(k, t.size1) = j /\ Slot(k, t.size0) < t.rehash_index
        BY <1>2, <3>1 DEF Shape, PlacementOK
      <4>2. k \in Key
        BY Zenon, <1>1, <1>2, <3>1
      <4>3. Slot(k, t.size0) \in Nat
        BY <1>1, <4>2, SlotType
      <4>4. t.rehash_index < e
        BY <1>1
      <4> QED BY <1>1, <1>2, <4>1, <4>3, <4>4
    <3>2. CASE k \in moved /\ Slot(k, t.size1) = j
      BY <1>1, <1>2, <1>5, <3>2
    <3> QED BY <1>2, <2>2, <3>1, <3>2
  <2> QED BY <2>1, <2>2 DEF PlacementOK
<1>8. ASSUME NEW k
      PROVE  k \in KeysOf(u) <=> k \in KeysOf(t)
  <2>1. ASSUME k \in KeysOf(u) PROVE k \in KeysOf(t)
    <3>1. CASE \E i \in 0 .. (u.size0 - 1) : k \in u.b0[i]
      <4>1. \E i \in 0 .. (t.size0 - 1) : k \in t.b0[i]
        BY <1>2, <3>1
      <4> QED BY <4>1, KeysOfMember
    <3>2. CASE \E j \in 0 .. (u.size1 - 1) : k \in u.b1[j]
      <4>1. PICK j \in 0 .. (t.size1 - 1) : k \in t.b1[j] \/ k \in moved
        BY <1>2, <3>2
      <4>2. CASE k \in t.b1[j]
        BY <4>2, KeysOfMember
      <4>3. CASE k \in moved
        <5>1. \E i \in 0 .. (t.size0 - 1) : k \in t.b0[i]
          BY <1>3, <1>5, <4>3
        <5> QED BY <5>1, KeysOfMember
      <4> QED BY <4>1, <4>2, <4>3
    <3> QED BY <2>1, <3>1, <3>2, KeysOfMember
  <2>2. ASSUME k \in KeysOf(t) PROVE k \in KeysOf(u)
    <3>1. CASE \E j \in 0 .. (t.size1 - 1) : k \in t.b1[j]
      <4>1. \E j \in 0 .. (u.size1 - 1) : k \in u.b1[j]
        BY <1>2, <3>1
      <4> QED BY <4>1, KeysOfMember
    <3>2. CASE \E i \in 0 .. (t.size0 - 1) : k \in t.b0[i]
      <4>1. PICK i \in 0 .. (t.size0 - 1) : k \in t.b0[i]
        BY <3>2
      <4>2. CASE i \in visited
        <5>1. k \in moved
          BY <4>1, <4>2 DEF moved
        <5>2. k \in Key /\ Slot(k, t.size1) \in 0 .. (t.size1 - 1)
          BY <1>1, <1>4, <5>1, SlotType
        <5>3. k \in u.b1[Slot(k, t.size1)]
          BY <1>2, <5>1, <5>2
        <5> QED BY Zenon, <1>2, <5>2, <5>3, KeysOfMember
      <4>3. CASE i \notin visited
        <5>1. k \in u.b0[i]
          BY <1>2, <4>1, <4>3
        <5> QED BY Zenon, <1>2, <5>1, KeysOfMember
      <4> QED BY <4>2, <4>3
    <3> QED BY <2>2, <3>1, <3>2, KeysOfMember
  <2> QED BY <2>1, <2>2
<1> QED BY <1>6, <1>7, <1>8 DEF u

\* RehashSome keeps the shape, the keys and entries_, and makes progress: either
\* rehash_index_ grows, or rehashing ends with a vector twice as large.
LEMMA RehashSomeShape ==
  ASSUME NEW t, Shape(t), IsRehashing(t), NEW n \in Nat \ {0}
  PROVE  LET u == RehashSome(t, n)
         IN  /\ Shape(u)
             /\ KeysOf(u) = KeysOf(t)
             /\ u.entries = t.entries
             /\ \/ IsRehashing(u) /\ u.size0 = t.size0 /\ u.rehash_index > t.rehash_index
                \/ ~IsRehashing(u) /\ u.size0 = 2 * t.size0
<1> DEFINE e == RehashEnd(t, n)
<1> DEFINE v == RehashBuckets(t, e)
<1>1. e \in (t.rehash_index + 1) .. t.size0
  BY RehashEndType
<1> HIDE DEF e
<1>2. /\ t.size0 \in Nat \ {0} /\ t.size1 = 2 * t.size0 /\ t.rehash_index \in 0 .. (t.size0 - 1)
      /\ e \in Nat
  BY <1>1 DEF Shape, TableType, PhaseOK, IsRehashing
<1>3. TableType(v) /\ PlacementOK(v) /\ KeysOf(v) = KeysOf(t)
  BY <1>1, RehashBucketsShape
<1>4. /\ v.size0 = t.size0 /\ v.size1 = t.size1 /\ v.entries = t.entries /\ v.rehash_index = e
  BY TableFields DEF RehashBuckets
<1> HIDE DEF v
<1>5. CASE e = t.size0
  <2> DEFINE u == AdoptSecond(v)
  <2>1. /\ u.size0 = v.size1 /\ u.size1 = 0 /\ u.b0 = v.b1 /\ u.b1 = Vector(0)
        /\ u.entries = v.entries /\ u.rehash_index = -1
    BY TableFields DEF AdoptSecond
  <2>2. TableType(u)
    <3>1. Vector(0) \in [0 .. (0 - 1) -> SUBSET Key]
      BY DEF Vector
    <3>2. v.size1 \in Nat /\ v.entries \in Nat /\ v.b1 \in [0 .. (v.size1 - 1) -> SUBSET Key]
      BY <1>3 DEF TableType
    <3> QED BY <3>1, <3>2, TableFields DEF AdoptSecond
  <2> HIDE DEF u
  <2>3. PhaseOK(u)
    BY <2>1 DEF PhaseOK
  <2>4. PlacementOK(u)
    <3>1. \A i \in 0 .. (u.size0 - 1) : \A k \in u.b0[i] :
            Slot(k, u.size0) = i /\ i >= u.rehash_index
      BY <1>3, <2>1 DEF PlacementOK
    <3> QED BY <2>1, <3>1 DEF PlacementOK
  <2>5. \A i \in 0 .. (v.size0 - 1) : v.b0[i] = {}
    <3> SUFFICES ASSUME NEW i \in 0 .. (v.size0 - 1), NEW k \in v.b0[i] PROVE FALSE
      OBVIOUS
    <3>1. i >= v.rehash_index
      BY <1>3 DEF PlacementOK
    <3> QED BY <1>2, <1>4, <1>5, <3>1
  <2>6. KeysOf(u) = KeysOf(v)
    <3>1. ASSUME NEW k PROVE k \in KeysOf(u) <=> k \in KeysOf(v)
      <4>1. k \in KeysOf(u) <=> \E j \in 0 .. (v.size1 - 1) : k \in v.b1[j]
        BY <2>1, KeysOfMember
      <4>2. k \in KeysOf(v) <=> \E j \in 0 .. (v.size1 - 1) : k \in v.b1[j]
        BY <2>5, KeysOfMember
      <4> QED BY <4>1, <4>2
    <3> QED BY <3>1
  <2>7. RehashSome(t, n) = u
    BY <1>4, <1>5 DEF RehashSome, u, v, e
  <2> QED
    BY <1>2, <1>3, <1>4, <2>1, <2>2, <2>3, <2>4, <2>6, <2>7 DEF Shape, IsRehashing
<1>6. CASE e # t.size0
  <2>1. RehashSome(t, n) = v
    BY <1>4, <1>6 DEF RehashSome, v, e
  <2>2. PhaseOK(v)
    BY <1>1, <1>2, <1>4, <1>6 DEF PhaseOK
  <2> QED
    BY <1>1, <1>2, <1>3, <1>4, <2>1, <2>2 DEF Shape, IsRehashing
<1> QED BY <1>5, <1>6

\* The same of the single step every lookup takes.
LEMMA RehashStepShape ==
  ASSUME NEW t, Shape(t)
  PROVE  LET u == RehashStep(t)
         IN  /\ Shape(u)
             /\ KeysOf(u) = KeysOf(t)
             /\ u.entries = t.entries
             /\ \/ ~IsRehashing(t) /\ u = t
                \/ IsRehashing(t) /\ IsRehashing(u) /\ u.size0 = t.size0
                   /\ u.rehash_index > t.rehash_index
                \/ IsRehashing(t) /\ ~IsRehashing(u) /\ u.size0 = 2 * t.size0
BY RehashSomeShape DEF RehashStep

\* The bucket FindBucket returns holds the key exactly when the table does.
LEMMA FindBucketCorrect ==
  ASSUME NEW t, Shape(t), t.size0 # 0, NEW k \in Key
  PROVE  k \in FindBucket(t, k) <=> k \in KeysOf(t)
<1>1. t.size0 \in Nat \ {0} /\ t.size1 \in Nat /\ t.rehash_index \in Int
  BY DEF Shape, TableType
<1>2. Slot(k, t.size0) \in 0 .. (t.size0 - 1)
  BY <1>1, SlotType
<1>3. CASE InFirst(t, k)
  <2>1. FindBucket(t, k) = t.b0[Slot(k, t.size0)]
    BY <1>3 DEF FindBucket
  <2>2. ASSUME k \in KeysOf(t) PROVE k \in t.b0[Slot(k, t.size0)]
    <3>1. \A j \in 0 .. (t.size1 - 1) : k \notin t.b1[j]
      BY <1>1, <1>2, <1>3 DEF Shape, PlacementOK, InFirst
    <3>2. PICK i \in 0 .. (t.size0 - 1) : k \in t.b0[i]
      BY <2>2, <3>1, KeysOfMember
    <3> QED BY <3>2 DEF Shape, PlacementOK
  <2> QED BY <1>2, <2>1, <2>2, KeysOfMember
<1>4. CASE ~InFirst(t, k)
  <2>1. FindBucket(t, k) = t.b1[Slot(k, t.size1)]
    BY <1>4 DEF FindBucket
  <2>2. Slot(k, t.size0) < t.rehash_index /\ t.size1 = 2 * t.size0
    BY <1>1, <1>2, <1>4 DEF InFirst, Shape, PhaseOK
  <2>3. Slot(k, t.size1) \in 0 .. (t.size1 - 1)
    BY <1>1, <2>2, SlotType
  <2>4. ASSUME k \in KeysOf(t) PROVE k \in t.b1[Slot(k, t.size1)]
    <3>1. \A i \in 0 .. (t.size0 - 1) : k \notin t.b0[i]
      BY <1>1, <1>2, <2>2 DEF Shape, PlacementOK
    <3>2. PICK j \in 0 .. (t.size1 - 1) : k \in t.b1[j]
      BY <2>4, <3>1, KeysOfMember
    <3> QED BY <3>2 DEF Shape, PlacementOK
  <2> QED BY <2>1, <2>3, <2>4, KeysOfMember
<1> QED BY <1>3, <1>4

\* A bucket holds keys only.
LEMMA FindBucketType ==
  ASSUME NEW t, Shape(t), t.size0 # 0, NEW k \in Key
  PROVE  FindBucket(t, k) \subseteq Key
<1>1. /\ t.size0 \in Nat \ {0} /\ t.size1 \in Nat /\ t.rehash_index \in Int
      /\ t.b0 \in [0 .. (t.size0 - 1) -> SUBSET Key]
      /\ t.b1 \in [0 .. (t.size1 - 1) -> SUBSET Key]
  BY DEF Shape, TableType
<1>2. Slot(k, t.size0) \in 0 .. (t.size0 - 1)
  BY <1>1, SlotType
<1>3. CASE InFirst(t, k)
  BY <1>1, <1>2, <1>3 DEF FindBucket
<1>4. CASE ~InFirst(t, k)
  <2>1. t.size1 \in Nat \ {0}
    BY <1>1, <1>2, <1>4 DEF Shape, PhaseOK, InFirst
  <2>2. Slot(k, t.size1) \in 0 .. (t.size1 - 1)
    BY <2>1, SlotType
  <2> QED BY <1>1, <1>4, <2>2 DEF FindBucket
<1> QED BY <1>3, <1>4

\* Replacing the bucket of k by one that differs in k alone adds or removes k
\* and disturbs nothing else.
LEMMA SetBucketShape ==
  ASSUME NEW t, Shape(t), t.size0 # 0, NEW k \in Key, NEW n \in Nat,
         NEW chain \in SUBSET Key, chain \ {k} = FindBucket(t, k) \ {k}
  PROVE  LET u == SetBucket(t, k, chain, n)
         IN  /\ Shape(u)
             /\ KeysOf(u) = IF k \in chain THEN KeysOf(t) \cup {k} ELSE KeysOf(t) \ {k}
             /\ u.entries = n /\ u.size0 = t.size0 /\ u.rehash_index = t.rehash_index
<1> DEFINE u == SetBucket(t, k, chain, n)
<1>1. /\ t.size0 \in Nat \ {0} /\ t.size1 \in Nat /\ t.rehash_index \in Int
      /\ t.b0 \in [0 .. (t.size0 - 1) -> SUBSET Key]
      /\ t.b1 \in [0 .. (t.size1 - 1) -> SUBSET Key]
  BY DEF Shape, TableType
<1>2. Slot(k, t.size0) \in 0 .. (t.size0 - 1)
  BY <1>1, SlotType
<1>3. u.entries = n /\ u.size0 = t.size0 /\ u.size1 = t.size1 /\ u.rehash_index = t.rehash_index
  <2>1. \E v0, v1 : u = Table(t.size0, t.size1, v0, v1, n, t.rehash_index)
    BY DEF SetBucket
  <2> QED BY <2>1, TableFields
<1>4. CASE InFirst(t, k)
  <2> DEFINE i0 == Slot(k, t.size0)
  <2>1. /\ u = Table(t.size0, t.size1, u.b0, u.b1, n, t.rehash_index)
        /\ u.b0 = [t.b0 EXCEPT ![i0] = chain] /\ u.b1 = t.b1
    <3>1. u = Table(t.size0, t.size1, [t.b0 EXCEPT ![i0] = chain], t.b1, n, t.rehash_index)
      BY <1>4 DEF SetBucket
    <3> HIDE DEF u
    <3> QED BY <3>1, TableFields
  <2> HIDE DEF u
  <2>2. FindBucket(t, k) = t.b0[i0]
    BY <1>4 DEF FindBucket
  <2>3. TableType(u)
    <3>1. u.b0 \in [0 .. (t.size0 - 1) -> SUBSET Key] /\ u.b1 \in [0 .. (t.size1 - 1) -> SUBSET Key]
      BY Zenon, <1>1, <2>1
    <3>2. t.size0 \in Nat /\ t.size1 \in Nat /\ t.rehash_index \in Int
      BY <1>1
    <3>3. TableType(Table(t.size0, t.size1, u.b0, u.b1, n, t.rehash_index))
      BY <3>1, <3>2, TableFields
    <3> QED BY Zenon, <2>1, <3>3
  <2>4. \A i \in 0 .. (t.size0 - 1) : \A x \in u.b0[i] : x \in t.b0[i] \/ (x = k /\ i = i0)
    BY <1>1, <2>1, <2>2
  <2>5. i0 >= t.rehash_index
    BY <1>4 DEF InFirst
  <2>6. PlacementOK(u)
    BY <1>3, <2>1, <2>4, <2>5 DEF Shape, PlacementOK
  <2>7. \A i \in 0 .. (t.size0 - 1) : \A x \in t.b0[i] : x # k => x \in u.b0[i]
    BY <1>1, <2>1, <2>2
  <2>8. ASSUME NEW x, x # k PROVE x \in KeysOf(u) <=> x \in KeysOf(t)
    <3>1. x \in KeysOf(u) <=> \/ \E i \in 0 .. (t.size0 - 1) : x \in u.b0[i]
                             \/ \E j \in 0 .. (t.size1 - 1) : x \in u.b1[j]
      BY <1>3, KeysOfMember
    <3>2. x \in KeysOf(t) <=> \/ \E i \in 0 .. (t.size0 - 1) : x \in t.b0[i]
                             \/ \E j \in 0 .. (t.size1 - 1) : x \in t.b1[j]
      BY KeysOfMember
    <3> QED BY <2>1, <2>4, <2>7, <2>8, <3>1, <3>2
  <2>9. FindBucket(u, k) = chain
    BY <1>1, <1>2, <1>3, <1>4, <2>1 DEF FindBucket, InFirst
  <2>10. Shape(u)
    BY <1>3, <2>3, <2>6 DEF Shape, PhaseOK
  <2>11. k \in KeysOf(u) <=> k \in chain
    BY <1>1, <1>3, <2>9, <2>10, FindBucketCorrect
  <2>12. KeysOf(u) = IF k \in chain THEN KeysOf(t) \cup {k} ELSE KeysOf(t) \ {k}
    BY <2>8, <2>11
  <2> QED BY <1>3, <2>10, <2>12 DEF u
<1>5. CASE ~InFirst(t, k)
  <2> DEFINE j0 == Slot(k, t.size1)
  <2>1. /\ u = Table(t.size0, t.size1, u.b0, u.b1, n, t.rehash_index)
        /\ u.b1 = [t.b1 EXCEPT ![j0] = chain] /\ u.b0 = t.b0
    <3>1. u = Table(t.size0, t.size1, t.b0, [t.b1 EXCEPT ![j0] = chain], n, t.rehash_index)
      BY <1>5 DEF SetBucket
    <3> HIDE DEF u
    <3> QED BY <3>1, TableFields
  <2> HIDE DEF u
  <2>2. FindBucket(t, k) = t.b1[j0]
    BY <1>5 DEF FindBucket
  <2>3. TableType(u)
    <3>1. u.b0 \in [0 .. (t.size0 - 1) -> SUBSET Key] /\ u.b1 \in [0 .. (t.size1 - 1) -> SUBSET Key]
      BY Zenon, <1>1, <2>1
    <3>2. t.size0 \in Nat /\ t.size1 \in Nat /\ t.rehash_index \in Int
      BY <1>1
    <3>3. TableType(Table(t.size0, t.size1, u.b0, u.b1, n, t.rehash_index))
      BY <3>1, <3>2, TableFields
    <3> QED BY Zenon, <2>1, <3>3
  <2>4. \A j \in 0 .. (t.size1 - 1) : \A x \in u.b1[j] : x \in t.b1[j] \/ (x = k /\ j = j0)
    BY <1>1, <2>1, <2>2
  <2>5. Slot(k, t.size0) < t.rehash_index
    BY <1>1, <1>2, <1>5 DEF InFirst
  <2>6. PlacementOK(u)
    BY <1>3, <2>1, <2>4, <2>5 DEF Shape, PlacementOK
  <2>7. \A j \in 0 .. (t.size1 - 1) : \A x \in t.b1[j] : x # k => x \in u.b1[j]
    BY <1>1, <2>1, <2>2
  <2>8. ASSUME NEW x, x # k PROVE x \in KeysOf(u) <=> x \in KeysOf(t)
    <3>1. x \in KeysOf(u) <=> \/ \E i \in 0 .. (t.size0 - 1) : x \in u.b0[i]
                             \/ \E j \in 0 .. (t.size1 - 1) : x \in u.b1[j]
      BY <1>3, KeysOfMember
    <3>2. x \in KeysOf(t) <=> \/ \E i \in 0 .. (t.size0 - 1) : x \in t.b0[i]
                             \/ \E j \in 0 .. (t.size1 - 1) : x \in t.b1[j]
      BY KeysOfMember
    <3> QED BY <2>1, <2>4, <2>7, <2>8, <3>1, <3>2
  <2>9. FindBucket(u, k) = chain
    <3>1. j0 \in 0 .. (t.size1 - 1)
      BY <1>1, <1>2, <2>5, SlotType DEF Shape, PhaseOK
    <3> QED BY <1>1, <1>3, <1>5, <2>1, <3>1 DEF FindBucket, InFirst
  <2>10. Shape(u)
    BY <1>3, <2>3, <2>6 DEF Shape, PhaseOK
  <2>11. k \in KeysOf(u) <=> k \in chain
    BY <1>1, <1>3, <2>9, <2>10, FindBucketCorrect
  <2>12. KeysOf(u) = IF k \in chain THEN KeysOf(t) \cup {k} ELSE KeysOf(t) \ {k}
    BY <2>8, <2>11
  <2> QED BY <1>3, <2>10, <2>12 DEF u
<1> QED BY <1>4, <1>5

\* The outcomes of Expand: nothing, the first resize, or a rehash that has taken
\* its first step (or ended with it).  It is a full table that starts one.
LEMMA ExpandShape ==
  ASSUME NEW t, Shape(t), LoadOK(t)
  PROVE  LET u == Expand(t)
         IN  /\ Shape(u)
             /\ KeysOf(u) = KeysOf(t)
             /\ u.entries = t.entries
             /\ u.size0 # 0
             /\ \/ IsRehashing(t) /\ u = t
                \/ ~IsRehashing(t) /\ t.size0 = 0 /\ ~IsRehashing(u)
                \/ ~IsRehashing(t) /\ t.entries < t.size0 /\ u = t
                \/ ~IsRehashing(t) /\ t.entries = t.size0 /\ IsRehashing(u)
                   /\ u.size0 = t.size0 /\ u.rehash_index >= 1
                \/ ~IsRehashing(t) /\ t.entries = t.size0 /\ ~IsRehashing(u)
                   /\ u.size0 = 2 * t.size0
<1>1. /\ t.size0 \in Nat /\ t.size1 \in Nat /\ t.rehash_index \in Int /\ t.entries \in Nat
      /\ t.b0 \in [0 .. (t.size0 - 1) -> SUBSET Key]
  BY DEF Shape, TableType
<1>2. CASE IsRehashing(t)
  <2>1. Expand(t) = t
    BY <1>2 DEF Expand
  <2>2. t.size0 # 0
    BY <1>1, <1>2 DEF IsRehashing, Shape, PhaseOK
  <2> QED BY <1>2, <2>1, <2>2
<1>3. CASE ~IsRehashing(t) /\ t.size0 = 0
  <2> DEFINE u == Table(InitBuckets, 0, Vector(InitBuckets), Vector(0), t.entries, -1)
  <2>1. Expand(t) = u
    BY <1>3 DEF Expand
  <2>2. Vector(0) \in [0 .. (0 - 1) -> SUBSET Key]
    BY DEF Vector
  <2>3. Vector(InitBuckets) \in [0 .. (InitBuckets - 1) -> SUBSET Key]
    BY DEF Vector
  <2>4. /\ u.size0 = InitBuckets /\ u.size1 = 0 /\ u.b0 = Vector(InitBuckets)
        /\ u.entries = t.entries /\ u.rehash_index = -1
    BY TableFields
  <2>10. TableType(u)
    BY <1>1, <2>2, <2>3, SizeAssumption, TableFields
  <2> HIDE DEF u
  <2>5. \A i \in 0 .. (u.size0 - 1) : u.b0[i] = {}
    BY <2>4 DEF Vector
  <2>6. Shape(u)
    BY <2>4, <2>5, <2>10 DEF Shape, PhaseOK, PlacementOK
  <2>7. \A k : k \notin KeysOf(u)
    BY <2>4, <2>5, KeysOfMember
  <2>8. t.size1 = 0
    BY <1>1, <1>3 DEF Shape, PhaseOK, IsRehashing
  <2>9. \A k : k \notin KeysOf(t)
    BY <1>3, <2>8, KeysOfMember
  <2> QED
    BY <1>3, <2>1, <2>4, <2>6, <2>7, <2>9, SizeAssumption DEF IsRehashing
<1>4. CASE ~IsRehashing(t) /\ t.size0 # 0 /\ t.entries < t.size0
  BY <1>4 DEF Expand
<1>5. CASE ~IsRehashing(t) /\ t.size0 # 0 /\ ~(t.entries < t.size0)
  <2> DEFINE v == Table(t.size0, 2 * t.size0, t.b0, Vector(2 * t.size0), t.entries, 0)
  <2>1. Expand(t) = RehashSome(v, 1)
    BY <1>5 DEF Expand
  <2>2. Vector(2 * t.size0) \in [0 .. (2 * t.size0 - 1) -> SUBSET Key]
    BY <1>1 DEF Vector
  <2>3. /\ v.size0 = t.size0 /\ v.size1 = 2 * t.size0 /\ v.b0 = t.b0
        /\ v.b1 = Vector(2 * t.size0) /\ v.entries = t.entries /\ v.rehash_index = 0
    BY TableFields
  <2>4. TableType(v)
    BY <1>1, <2>2, TableFields
  <2> HIDE DEF v
  <2>5. \A j \in 0 .. (v.size1 - 1) : v.b1[j] = {}
    BY <2>3 DEF Vector
  <2>6. Shape(v) /\ IsRehashing(v)
    BY <1>1, <1>5, <2>3, <2>4, <2>5 DEF Shape, PhaseOK, PlacementOK, IsRehashing
  <2>7. t.size1 = 0
    BY <1>1, <1>5 DEF Shape, PhaseOK, IsRehashing
  <2>8. ASSUME NEW k PROVE k \in KeysOf(v) <=> k \in KeysOf(t)
    <3>1. k \in KeysOf(v) <=> \E i \in 0 .. (t.size0 - 1) : k \in t.b0[i]
      BY <2>3, <2>5, KeysOfMember
    <3>2. k \in KeysOf(t) <=> \E i \in 0 .. (t.size0 - 1) : k \in t.b0[i]
      BY <2>7, KeysOfMember
    <3> QED BY <3>1, <3>2
  <2>9. KeysOf(v) = KeysOf(t)
    BY <2>8
  <2>10. t.entries = t.size0
    BY <1>1, <1>5 DEF LoadOK
  <2> DEFINE u == RehashSome(v, 1)
  <2>11. /\ Shape(u) /\ KeysOf(u) = KeysOf(t) /\ u.entries = t.entries
         /\ \/ IsRehashing(u) /\ u.size0 = t.size0 /\ u.rehash_index > 0
            \/ ~IsRehashing(u) /\ u.size0 = 2 * t.size0
    BY <2>3, <2>6, <2>9, RehashSomeShape
  <2> HIDE DEF u
  <2>12. u.rehash_index \in Int
    BY <2>11 DEF Shape, TableType
  <2> QED BY <1>1, <1>5, <2>1, <2>10, <2>11, <2>12 DEF u
<1> QED BY <1>2, <1>3, <1>4, <1>5

\* entries_ counts the keys stored.
CountOK(t) == t.entries = Cardinality(KeysOf(t))

\* What every operation of the class preserves.
TableInv(t) == Shape(t) /\ CountOK(t) /\ LoadOK(t)

\* A table holds finitely many keys.
LEMMA KeysFinite ==
  ASSUME NEW t, Shape(t)
  PROVE  KeysOf(t) \subseteq Key /\ IsFiniteSet(KeysOf(t))
<1>1. KeysOf(t) \subseteq Key
  <2> SUFFICES ASSUME NEW k \in KeysOf(t) PROVE k \in Key
    OBVIOUS
  <2> QED BY Zenon, KeysOfMember DEF Shape, TableType
<1> QED BY <1>1, KeyAssumption, FS_Subset

\* A step of rehashing keeps the invariant of a table.
LEMMA RehashStepInv ==
  ASSUME NEW t, TableInv(t)
  PROVE  TableInv(RehashStep(t))
<1> DEFINE u == RehashStep(t)
<1>1. /\ Shape(u) /\ KeysOf(u) = KeysOf(t) /\ u.entries = t.entries
      /\ \/ ~IsRehashing(t) /\ u = t
         \/ IsRehashing(t) /\ IsRehashing(u) /\ u.size0 = t.size0
            /\ u.rehash_index > t.rehash_index
         \/ IsRehashing(t) /\ ~IsRehashing(u) /\ u.size0 = 2 * t.size0
  BY RehashStepShape DEF TableInv
<1> HIDE DEF u
<1>2. /\ t.size0 \in Nat /\ t.rehash_index \in Int /\ t.entries \in Nat
      /\ u.size0 \in Nat /\ u.rehash_index \in Int
  BY <1>1 DEF TableInv, Shape, TableType
<1>3. IsRehashing(t) => t.rehash_index \in 0 .. (t.size0 - 1)
  BY <1>2 DEF TableInv, Shape, PhaseOK, IsRehashing
<1>4. LoadOK(u)
  BY <1>1, <1>2, <1>3 DEF TableInv, LoadOK
<1> QED BY <1>1, <1>4 DEF TableInv, CountOK, u

\* FindOrCreate adds the key and keeps the invariant of a table.  The load bound
\* needs both rehashing steps it takes on the way to a new entry.
LEMMA CreateInv ==
  ASSUME NEW t, TableInv(t), NEW k \in Key
  PROVE  /\ TableInv(Create(t, k))
         /\ KeysOf(Create(t, k)) = KeysOf(t) \cup {k}
         /\ Exists(t, k) <=> k \in KeysOf(t)
<1> DEFINE t0 == IF t.size0 = 0 THEN Expand(t) ELSE t
           t1 == RehashStep(t0)
           t2 == Expand(t1)
           t3 == IF NoExpand(t1) THEN t2 ELSE RehashStep(t2)
<1>1. TableInv(t0) /\ KeysOf(t0) = KeysOf(t) /\ t0.size0 # 0 /\ t0.entries = t.entries
  <2>1. CASE t.size0 # 0
    BY <2>1
  <2>2. CASE t.size0 = 0
    <3>1. t0 = Expand(t) BY <2>2
    <3> HIDE DEF t0
    <3>2. ~IsRehashing(t)
      BY <2>2 DEF TableInv, Shape, PhaseOK, IsRehashing
    <3>3. t.entries \in Nat /\ t.entries <= t.size0
      BY <3>2 DEF TableInv, Shape, TableType, LoadOK
    <3>4. /\ Shape(t0) /\ KeysOf(t0) = KeysOf(t) /\ t0.entries = t.entries /\ t0.size0 # 0
          /\ IsRehashing(t0) => t0.rehash_index >= 1
      BY <3>1, <3>2, <3>3, <2>2, ExpandShape DEF TableInv
    <3>5. t0.size0 \in Nat /\ t0.rehash_index \in Int
      BY <3>4 DEF Shape, TableType
    <3>6. LoadOK(t0)
      BY <2>2, <3>3, <3>4, <3>5 DEF LoadOK
    <3> QED BY <3>4, <3>6 DEF TableInv, CountOK
  <2> QED BY <2>1, <2>2
<1> HIDE DEF t0
<1>2. TableInv(t1)
  BY <1>1, RehashStepInv
<1>3. /\ KeysOf(t1) = KeysOf(t) /\ t1.entries = t.entries
      /\ \/ ~IsRehashing(t0) /\ t1 = t0
         \/ IsRehashing(t0) /\ IsRehashing(t1) /\ t1.size0 = t0.size0
            /\ t1.rehash_index > t0.rehash_index
         \/ IsRehashing(t0) /\ ~IsRehashing(t1) /\ t1.size0 = 2 * t0.size0
  BY <1>1, RehashStepShape DEF TableInv
<1> HIDE DEF t1
<1>4. /\ t0.size0 \in Nat /\ t0.rehash_index \in Int /\ t.entries \in Nat
      /\ t1.size0 \in Nat /\ t1.rehash_index \in Int
  BY <1>1, <1>2, <1>3 DEF TableInv, Shape, TableType
<1>5. t1.size0 # 0
  BY <1>1, <1>3, <1>4
<1>6. k \in FindBucket(t1, k) <=> k \in KeysOf(t)
  BY <1>2, <1>3, <1>5, FindBucketCorrect DEF TableInv
<1>7. Exists(t, k) <=> k \in KeysOf(t)
  <2>1. CASE t.size0 # 0
    <3>1. t1 = RehashStep(t)
      BY <2>1 DEF t1, t0
    <3> QED BY <3>1, <1>6, <2>1 DEF Exists
  <2>2. CASE t.size0 = 0
    <3>1. t.size1 = 0
      BY <2>2 DEF TableInv, Shape, TableType, PhaseOK
    <3> QED BY <2>2, <3>1, KeysOfMember DEF Exists
  <2> QED BY <2>1, <2>2
<1>8. CASE k \in FindBucket(t1, k)
  <2>1. Create(t, k) = t1
    BY <1>8 DEF Create, t1, t0
  <2> QED BY <2>1, <1>2, <1>3, <1>6, <1>7, <1>8
<1>9. CASE k \notin FindBucket(t1, k)
  <2>1. Create(t, k) = CreateEntryInBucket(t3, k)
    BY <1>9 DEF Create, t1, t0
  <2>2. /\ Shape(t2) /\ KeysOf(t2) = KeysOf(t) /\ t2.entries = t.entries /\ t2.size0 # 0
        /\ \/ IsRehashing(t1) /\ t2 = t1
           \/ ~IsRehashing(t1) /\ t1.entries < t1.size0 /\ t2 = t1
           \/ ~IsRehashing(t1) /\ t1.entries = t1.size0 /\ IsRehashing(t2)
              /\ t2.size0 = t1.size0 /\ t2.rehash_index >= 1
           \/ ~IsRehashing(t1) /\ t1.entries = t1.size0 /\ ~IsRehashing(t2)
              /\ t2.size0 = 2 * t1.size0
    BY <1>2, <1>3, <1>5, ExpandShape DEF TableInv
  <2> HIDE DEF t2
  <2>3. t2.size0 \in Nat /\ t2.rehash_index \in Int
    BY <2>2 DEF Shape, TableType
  <2>4. /\ Shape(t3) /\ KeysOf(t3) = KeysOf(t) /\ t3.entries = t.entries
        /\ \/ NoExpand(t1) /\ t3 = t2
           \/ ~NoExpand(t1) /\ ~IsRehashing(t2) /\ t3 = t2
           \/ ~NoExpand(t1) /\ IsRehashing(t2) /\ IsRehashing(t3) /\ t3.size0 = t2.size0
              /\ t3.rehash_index > t2.rehash_index
           \/ ~NoExpand(t1) /\ IsRehashing(t2) /\ ~IsRehashing(t3)
              /\ t3.size0 = 2 * t2.size0
    <3>1. CASE NoExpand(t1)
      BY <2>2, <3>1
    <3>2. CASE ~NoExpand(t1)
      <4>1. t3 = RehashStep(t2) BY <3>2
      <4> HIDE DEF t3
      <4> QED BY <2>2, <3>2, <4>1, RehashStepShape
    <3> QED BY <3>1, <3>2
  <2> HIDE DEF t3
  <2>5. t3.size0 \in Nat /\ t3.rehash_index \in Int
    BY <2>4 DEF Shape, TableType
  <2>6. t3.size0 # 0
    BY <2>2, <2>3, <2>4
  \* The entry about to be created keeps the load bounded.
  <2>7. IF IsRehashing(t3) THEN 2 * (t.entries + 1 - t3.size0) <= t3.rehash_index
                           ELSE t.entries + 1 <= t3.size0
    <3>1. IsRehashing(t0) => 2 * (t.entries - t0.size0) <= t0.rehash_index
      BY <1>1 DEF TableInv, LoadOK
    <3>2. IsRehashing(t1) => t1.rehash_index < t1.size0
      BY <1>2, <1>4 DEF TableInv, Shape, PhaseOK, IsRehashing
    <3>3. NoExpand(t1) <=> ~IsRehashing(t1) /\ t.entries < t1.size0
      BY <1>3, <1>5 DEF NoExpand
    <3>4. CASE NoExpand(t1)
      <4>1. t3 = t1 BY <3>3, <3>4, <2>2, <2>4, <1>3, <1>4
      <4> QED BY <4>1, <3>3, <3>4, <1>4
    <3>5. CASE IsRehashing(t1)
      <4>1. t2 = t1 /\ ~NoExpand(t1)
        BY <3>5, <2>2, <3>3
      <4>2. IsRehashing(t0) /\ t1.size0 = t0.size0 /\ t1.rehash_index > t0.rehash_index
        BY <3>5, <1>3
      <4> QED BY <4>1, <4>2, <3>1, <3>2, <3>5, <2>4, <2>5, <1>4
    <3>6. CASE ~IsRehashing(t1) /\ ~NoExpand(t1)
      <4>1. t.entries = t1.size0
        BY <3>6, <2>2, <3>3, <1>3, <1>4
      <4>2. \/ IsRehashing(t2) /\ t2.size0 = t1.size0 /\ t2.rehash_index >= 1
            \/ ~IsRehashing(t2) /\ t2.size0 = 2 * t1.size0
        BY <3>6, <2>2, <3>3, <1>3
      <4> QED BY <4>1, <4>2, <3>6, <2>3, <2>4, <2>5, <1>4, <1>5
    <3> QED BY <3>4, <3>5, <3>6
  <2> DEFINE chain == FindBucket(t3, k) \cup {k}
             u == SetBucket(t3, k, chain, t.entries + 1)
  <2>8. Create(t, k) = u
    BY <2>1, <2>4 DEF CreateEntryInBucket
  <2>9. FindBucket(t3, k) \subseteq Key
    BY <2>4, <2>6, FindBucketType
  <2>10. /\ Shape(u) /\ KeysOf(u) = KeysOf(t) \cup {k} /\ u.entries = t.entries + 1
         /\ u.size0 = t3.size0 /\ u.rehash_index = t3.rehash_index
    <3>1. chain \in SUBSET Key /\ chain \ {k} = FindBucket(t3, k) \ {k} /\ k \in chain
          /\ t.entries + 1 \in Nat
      BY <2>9, <1>4
    <3> HIDE DEF chain
    <3> QED BY <3>1, <2>4, <2>6, SetBucketShape
  <2> HIDE DEF u
  <2>11. LoadOK(u)
    BY <2>5, <2>7, <2>10, <1>4 DEF LoadOK, IsRehashing
  <2>12. CountOK(u)
    <3>1. k \notin KeysOf(t) /\ IsFiniteSet(KeysOf(t))
      BY <1>6, <1>9, KeysFinite DEF TableInv
    <3>2. Cardinality(KeysOf(t) \cup {k}) = Cardinality(KeysOf(t)) + 1
      BY Zenon, <3>1, FS_AddElement
    <3> QED BY Zenon, <2>10, <3>2 DEF TableInv, CountOK
  <2> QED BY <1>7, <2>8, <2>10, <2>11, <2>12 DEF TableInv
<1> QED BY <1>8, <1>9

\* FindOrCreate tells whether the key was there.
LEMMA ExistsCorrect ==
  ASSUME NEW t, TableInv(t), NEW k \in Key
  PROVE  Exists(t, k) = (k \in KeysOf(t))
<1>1. Exists(t, k) <=> k \in KeysOf(t)
  BY CreateInv
<1> QED BY <1>1, SMT DEF Exists

\* A lookup keeps the invariant and the keys.
LEMMA LookupInv ==
  ASSUME NEW t, TableInv(t)
  PROVE  /\ TableInv(Lookup(t))
         /\ KeysOf(Lookup(t)) = KeysOf(t)
         /\ Lookup(t).size0 = 0 <=> t.size0 = 0
<1>1. CASE t.size0 = 0
  BY <1>1 DEF Lookup
<1>2. CASE t.size0 # 0
  <2> DEFINE u == RehashStep(t)
  <2>1. /\ TableInv(u) /\ KeysOf(u) = KeysOf(t)
        /\ u = t \/ u.size0 = t.size0 \/ u.size0 = 2 * t.size0
    BY RehashStepInv, RehashStepShape DEF TableInv
  <2>2. Lookup(t) = u
    BY <1>2 DEF Lookup
  <2> HIDE DEF u
  <2>3. u.size0 # 0
    BY <1>2, <2>1 DEF TableInv, Shape, TableType
  <2> QED BY <1>2, <2>1, <2>2, <2>3
<1> QED BY <1>1, <1>2

\* Erase removes the key and keeps the invariant.
LEMMA RemoveInv ==
  ASSUME NEW t, TableInv(t), NEW k \in Key
  PROVE  /\ TableInv(Remove(t, k))
         /\ KeysOf(Remove(t, k)) = KeysOf(t) \ {k}
<1> DEFINE t1 == Lookup(t)
<1>1. TableInv(t1) /\ KeysOf(t1) = KeysOf(t)
  BY LookupInv
<1>2. CASE ~(t1.size0 # 0 /\ k \in FindBucket(t1, k))
  <2>1. Remove(t, k) = t1
    BY <1>2 DEF Remove
  <2> HIDE DEF t1
  <2>2. k \notin KeysOf(t1)
    <3>1. CASE t1.size0 # 0
      BY <1>1, <1>2, <3>1, FindBucketCorrect DEF TableInv
    <3>2. CASE t1.size0 = 0
      <4>1. t1.size1 = 0
        BY <1>1, <3>2 DEF TableInv, Shape, TableType, PhaseOK
      <4> QED BY <3>2, <4>1, KeysOfMember
    <3> QED BY <3>1, <3>2
  <2> QED BY <1>1, <2>1, <2>2
<1>3. CASE t1.size0 # 0 /\ k \in FindBucket(t1, k)
  <2> DEFINE chain == FindBucket(t1, k) \ {k}
             u == SetBucket(t1, k, chain, t1.entries - 1)
  <2>1. Remove(t, k) = u
    BY <1>3 DEF Remove
  <2> HIDE DEF t1
  <2>2. k \in KeysOf(t1) /\ IsFiniteSet(KeysOf(t1))
    BY <1>1, <1>3, FindBucketCorrect, KeysFinite DEF TableInv
  <2>3. Cardinality(KeysOf(t1) \ {k}) = Cardinality(KeysOf(t1)) - 1
        /\ Cardinality(KeysOf(t1) \ {k}) \in Nat
    BY <2>2, FS_RemoveElement, FS_CardinalityType
  <2>4. /\ t1.entries = Cardinality(KeysOf(t1)) /\ t1.entries \in Nat
        /\ t1.size0 \in Nat /\ t1.rehash_index \in Int
    BY <1>1 DEF TableInv, CountOK, Shape, TableType
  <2>5. /\ Shape(u) /\ KeysOf(u) = KeysOf(t1) \ {k} /\ u.entries = t1.entries - 1
        /\ u.size0 = t1.size0 /\ u.rehash_index = t1.rehash_index
    <3>1. chain \in SUBSET Key /\ chain \ {k} = FindBucket(t1, k) \ {k} /\ k \notin chain
      BY <1>1, <1>3, FindBucketType DEF TableInv
    <3>2. t1.entries - 1 \in Nat
      BY <2>3, <2>4
    <3> HIDE DEF chain
    <3> QED BY <1>1, <1>3, <3>1, <3>2, SetBucketShape DEF TableInv
  <2> HIDE DEF u
  <2>6. LoadOK(u)
    BY <1>1, <2>4, <2>5 DEF TableInv, LoadOK, IsRehashing
  <2>7. CountOK(u)
    BY <2>3, <2>4, <2>5 DEF CountOK
  <2> QED BY <1>1, <2>1, <2>5, <2>6, <2>7 DEF TableInv
<1> QED BY <1>2, <1>3

\* A round of background rehashing keeps the invariant and the keys.
LEMMA CronInv ==
  ASSUME NEW t, TableInv(t), IsRehashing(t)
  PROVE  /\ TableInv(RehashSome(t, CronBuckets))
         /\ KeysOf(RehashSome(t, CronBuckets)) = KeysOf(t)
<1> DEFINE u == RehashSome(t, CronBuckets)
<1>1. /\ Shape(u) /\ KeysOf(u) = KeysOf(t) /\ u.entries = t.entries
      /\ \/ IsRehashing(u) /\ u.size0 = t.size0 /\ u.rehash_index > t.rehash_index
         \/ ~IsRehashing(u) /\ u.size0 = 2 * t.size0
  BY RehashSomeShape, SizeAssumption DEF TableInv
<1> HIDE DEF u
<1>2. /\ t.size0 \in Nat /\ t.rehash_index \in Int /\ t.entries \in Nat
      /\ u.size0 \in Nat /\ u.rehash_index \in Int
  BY <1>1 DEF TableInv, Shape, TableType
<1>3. t.rehash_index \in 0 .. (t.size0 - 1)
  BY <1>2 DEF TableInv, Shape, PhaseOK, IsRehashing
<1>4. LoadOK(u)
  BY <1>1, <1>2, <1>3 DEF TableInv, LoadOK
<1> QED BY <1>1, <1>4 DEF TableInv, CountOK, u

-----------------------------------------------------------------------------
(* The inductive invariant *)

Ops == {"none", "Find", "Upsert", "Erase", "Count", "Random"}

IInv == TableInv(table) /\ ret.op \in Ops

\* A new table satisfies the invariant and holds no key.
LEMMA EmptyTableInv ==
  TableInv(EmptyTable) /\ KeysOf(EmptyTable) = {}
<1> DEFINE u == Table(0, 0, Vector(0), Vector(0), 0, -1)
<1>1. EmptyTable = u
  BY DEF EmptyTable
<1>2. Vector(0) \in [0 .. (0 - 1) -> SUBSET Key]
  BY DEF Vector
<1>3. /\ u.size0 = 0 /\ u.size1 = 0 /\ u.entries = 0 /\ u.rehash_index = -1
  BY TableFields
<1>4. TableType(u)
  BY <1>2, TableFields
<1> HIDE DEF u
<1>5. Shape(u)
  BY <1>3, <1>4 DEF Shape, PhaseOK, PlacementOK
<1>6. KeysOf(u) = {}
  <2> SUFFICES ASSUME NEW k PROVE k \notin KeysOf(u)
    OBVIOUS
  <2> QED BY <1>3, KeysOfMember
<1>7. LoadOK(u)
  BY <1>3 DEF LoadOK, IsRehashing
<1> QED BY <1>1, <1>3, <1>5, <1>6, <1>7, FS_EmptySet DEF TableInv, CountOK

\* The operation of an answer.
LEMMA AnswerOp ==
  ASSUME NEW op, NEW k, NEW f, NEW n
  PROVE  Answer(op, k, f, n).op = op
BY DEF Answer

\* The inductive invariant holds initially.
LEMMA InitIInv == Init => IInv
<1> SUFFICES ASSUME Init PROVE IInv
  OBVIOUS
<1>1. ret.op \in Ops
  BY DEF Init, Answer, Ops
<1>2. TableInv(table)
  BY EmptyTableInv DEF Init
<1> QED BY <1>1, <1>2 DEF IInv

\* Every operation and every background step preserves the inductive invariant.
LEMMA NextIInv == IInv /\ [Next]_vars => IInv'
<1> SUFFICES ASSUME IInv, [Next]_vars PROVE IInv'
  OBVIOUS
<1>1. ASSUME NEW k \in Key, Find(k) PROVE IInv'
  BY <1>1, LookupInv, AnswerOp DEF IInv, Find, Ops
<1>2. ASSUME NEW k \in Key, Upsert(k) PROVE IInv'
  BY <1>2, CreateInv, AnswerOp DEF IInv, Upsert, Ops
<1>3. ASSUME NEW k \in Key, Erase(k) PROVE IInv'
  BY <1>3, RemoveInv, AnswerOp DEF IInv, Erase, Ops
<1>4. CASE Count
  <2>1. ret'.op \in Ops
    BY <1>4 DEF Count, Answer, Ops
  <2>2. TableInv(table')
    BY <1>4 DEF Count, IInv
  <2> QED BY <2>1, <2>2 DEF IInv
<1>5. CASE GetRandomEntry
  <2>1. ret'.op \in Ops
    BY <1>5 DEF GetRandomEntry, Answer, Ops
  <2>2. TableInv(table')
    BY <1>5 DEF GetRandomEntry, IInv
  <2> QED BY <2>1, <2>2 DEF IInv
<1>6. CASE IncrementalRehashing
  BY <1>6, CronInv DEF IInv, IncrementalRehashing
<1>7. CASE UNCHANGED vars
  BY <1>7 DEF IInv, vars
<1> QED BY <1>1, <1>2, <1>3, <1>4, <1>5, <1>6, <1>7 DEF Next

\* The inductive invariant holds in every reachable state.
LEMMA Invariance == Spec => []IInv
BY InitIInv, NextIInv, PTL DEF Spec

\* The members of the class keep their types under any sequence of operations.
THEOREM TypeCorrect == Spec => []TypeOK
<1>1. IInv => TypeOK
  BY DEF IInv, TableInv, Shape, TableType, TypeOK, Ops
<1> QED BY <1>1, Invariance, PTL

\* Whatever the keys, their hashes and the order of operations, every entry is in
\* the one bucket FindBucket looks into, and the assertions of Expand and
\* RehashSome on the two vectors hold.
THEOREM PlacementCorrect == Spec => []Placement
<1>1. IInv => Placement
  BY DEF IInv, TableInv, Shape, Placement
<1> QED BY <1>1, Invariance, PTL

\* Count() is the number of keys stored, whatever was inserted, erased or moved.
THEOREM CountCorrect == Spec => []CountIsExact
<1>1. IInv => CountIsExact
  BY DEF IInv, TableInv, CountOK, CountIsExact
<1> QED BY <1>1, Invariance, PTL

\* A rehash always ends before its target is full: no sequence of operations
\* leaves a table at rest with more entries than buckets.
THEOREM LoadCorrect == Spec => []LoadBounded
<1>1. IInv => LoadBounded
  BY DEF IInv, TableInv, LoadBounded
<1> QED BY <1>1, Invariance, PTL

-----------------------------------------------------------------------------
(* Random draws *)

\* The remainder of a number written as a multiple plus a remainder.
LEMMA ModUnique ==
  ASSUME NEW s \in Nat \ {0}, NEW q \in Nat, NEW r \in 0 .. (s - 1)
  PROVE  (s * q + r) % s = r
OBVIOUS

\* Division with remainder.
LEMMA DivMod ==
  ASSUME NEW h \in Nat, NEW s \in Nat \ {0}
  PROVE  h = s * (h \div s) + (h % s) /\ h \div s \in Nat /\ h % s \in 0 .. (s - 1)
OBVIOUS

\* Multiplication distributes over addition.
LEMMA Distributive ==
  ASSUME NEW a \in Nat, NEW b \in Nat, NEW c \in Nat
  PROVE  a * (b + c) = a * b + a * c
OBVIOUS

\* The slot of a key in the doubled vector determines its slot in the first one.
LEMMA ModDouble ==
  ASSUME NEW h \in Nat, NEW s \in Nat \ {0}
  PROVE  (h % (2 * s)) % s = h % s
<1> DEFINE m == 2 * s
           g == h % m
           q == h \div m
           p == 2 * q + (g \div s)
<1>1. m \in Nat \ {0} /\ m = 2 * s
  OBVIOUS
<1> HIDE DEF m
<1>2. h = m * q + g /\ q \in Nat /\ g \in 0 .. (m - 1)
  BY Zenon, <1>1, DivMod
<1> HIDE DEF g, q
<1>6. g \in Nat
  BY <1>1, <1>2
<1>3. g = s * (g \div s) + (g % s) /\ g \div s \in Nat /\ g % s \in 0 .. (s - 1)
  BY Zenon, <1>6, DivMod
<1>4. h = s * p + (g % s) /\ p \in Nat
  <2>1. p \in Nat
    BY <1>2, <1>3
  <2>2. m * q = s * (2 * q)
    BY <1>1, <1>2
  <2>3. s * p = s * (2 * q) + s * (g \div s)
    <3>1. 2 * q \in Nat
      BY <1>2
    <3> QED BY <1>3, <3>1, Distributive, Zenon
  <2> HIDE DEF p
  <2> QED BY <1>1, <1>2, <1>3, <2>1, <2>2, <2>3
<1> HIDE DEF p
<1>5. (s * p + (g % s)) % s = g % s
  BY Zenon, <1>3, <1>4, ModUnique
<1> QED BY <1>4, <1>5 DEF g, m

\* A draw from a table with buckets can return every key, and no other.
LEMMA RandomEntriesCorrect ==
  ASSUME NEW t, Shape(t), t.size0 # 0
  PROVE  RandomEntries(t) = KeysOf(t)
<1>1. t.size0 \in Nat \ {0} /\ t.size1 \in Nat /\ t.rehash_index \in Int
  BY DEF Shape, TableType
<1> DEFINE drawn(r) == IF r % t.size0 >= t.rehash_index
                       THEN t.b0[r % t.size0] ELSE t.b1[r % t.size1]
<1>2. ASSUME NEW k \in RandomEntries(t) PROVE k \in KeysOf(t)
  <2>1. PICK r \in 0 .. (2 * t.size0 - 1) : k \in drawn(r)
    BY <1>2 DEF RandomEntries
  <2>2. r \in Nat /\ r % t.size0 \in 0 .. (t.size0 - 1)
    <3>1. r \in Nat BY <1>1
    <3> QED BY Zenon, <1>1, <3>1, DivMod
  <2>3. CASE r % t.size0 >= t.rehash_index
    BY <2>1, <2>2, <2>3, KeysOfMember
  <2>4. CASE ~(r % t.size0 >= t.rehash_index)
    <3>1. t.size1 \in Nat \ {0}
      BY <1>1, <2>2, <2>4 DEF Shape, PhaseOK
    <3>2. r % t.size1 \in 0 .. (t.size1 - 1)
      BY Zenon, <3>1, <2>2, DivMod
    <3> QED BY <2>1, <2>4, <3>2, KeysOfMember
  <2> QED BY <2>3, <2>4
<1>3. ASSUME NEW k \in KeysOf(t) PROVE k \in RandomEntries(t)
  <2>1. CASE \E i \in 0 .. (t.size0 - 1) : k \in t.b0[i]
    <3>1. PICK i \in 0 .. (t.size0 - 1) : k \in t.b0[i]
      BY <2>1
    <3>2. i >= t.rehash_index
      BY <3>1 DEF Shape, PlacementOK
    <3>3. i % t.size0 = i /\ i \in 0 .. (2 * t.size0 - 1)
      BY <1>1
    <3>4. k \in drawn(i)
      BY <3>1, <3>2, <3>3
    <3> QED BY <3>3, <3>4 DEF RandomEntries
  <2>2. CASE \E j \in 0 .. (t.size1 - 1) : k \in t.b1[j]
    <3>1. PICK j \in 0 .. (t.size1 - 1) : k \in t.b1[j]
      BY <2>2
    <3>2. t.size1 = 2 * t.size0
      BY <1>1, <3>1 DEF Shape, PhaseOK
    <3>3. k \in Key
      BY <1>3, KeysFinite
    <3>4. Slot(k, t.size1) = j /\ Slot(k, t.size0) < t.rehash_index
      BY <3>1 DEF Shape, PlacementOK
    <3>5. Hash[k] \in Nat
      BY <3>3, HashAssumption
    <3>6. j % t.size0 = Slot(k, t.size0)
      BY <1>1, <3>2, <3>4, <3>5, ModDouble DEF Slot
    <3>7. j % t.size1 = j
      BY <3>1, <1>1
    <3>8. Slot(k, t.size0) \in Int
      BY <1>1, <3>3, SlotType
    <3>9. k \in drawn(j)
      BY <1>1, <3>1, <3>4, <3>6, <3>7, <3>8
    <3> QED BY <3>2, <3>9 DEF RandomEntries
  <2> QED BY <1>3, <2>1, <2>2, KeysOfMember
<1> QED BY <1>2, <1>3

\* GetRandomEntry can reach every entry, also in the middle of a rehash.
THEOREM RandomCorrect == Spec => []RandomReachesAll
<1>1. IInv => RandomReachesAll
  BY RandomEntriesCorrect DEF IInv, TableInv, RandomReachesAll
<1> QED BY <1>1, Invariance, PTL

-----------------------------------------------------------------------------
(* Refinement *)

\* Callers of the hash table see a set of keys: bucket vectors, expansion and
\* incremental rehashing are invisible in what any operation returns.
THEOREM Refinement == Spec => ImplementsKeyTable
<1> USE DEF Abstract!Answer, Answer
<1>1. Init => Abstract!Init
  BY EmptyTableInv DEF Init, Abstract!Init
<1>2. IInv /\ [Next]_vars => [Abstract!Next]_(Abstract!vars)
  <2> SUFFICES ASSUME IInv, [Next]_vars PROVE [Abstract!Next]_(Abstract!vars)
    OBVIOUS
  <2> DEFINE keys == KeysOf(table)
  <2>1. ASSUME NEW k \in Key, Find(k) PROVE Abstract!Find(k)
    <3>1. Exists(table, k) = (k \in keys)
      BY ExistsCorrect DEF IInv
    <3>2. ret' = Abstract!Answer("Find", k, k \in keys, 0)
      BY <2>1, <3>1, Zenon DEF Find
    <3>3. keys' = keys
      BY <2>1, LookupInv DEF IInv, Find
    <3> QED BY <3>2, <3>3 DEF Abstract!Find
  <2>2. ASSUME NEW k \in Key, Upsert(k) PROVE Abstract!Upsert(k)
    <3>1. Exists(table, k) = (k \in keys)
      BY ExistsCorrect DEF IInv
    <3>2. ret' = Abstract!Answer("Upsert", k, k \in keys, 0)
      BY <2>2, <3>1, Zenon DEF Upsert
    <3>3. keys' = keys \cup {k}
      BY <2>2, CreateInv DEF IInv, Upsert
    <3> QED BY <3>2, <3>3 DEF Abstract!Upsert
  <2>3. ASSUME NEW k \in Key, Erase(k) PROVE Abstract!Erase(k)
    <3>1. Exists(table, k) = (k \in keys)
      BY ExistsCorrect DEF IInv
    <3>2. ret' = Abstract!Answer("Erase", k, k \in keys, 0)
      BY <2>3, <3>1, Zenon DEF Erase
    <3>3. keys' = keys \ {k}
      BY <2>3, RemoveInv DEF IInv, Erase
    <3> QED BY <3>2, <3>3 DEF Abstract!Erase
  <2>4. CASE Count
    <3>1. table.entries = Cardinality(keys)
      BY DEF IInv, TableInv, CountOK
    <3>2. ret' = Abstract!Answer("Count", NoKey, FALSE, Cardinality(keys))
      BY <2>4, <3>1, Zenon DEF Count
    <3>3. keys' = keys
      BY <2>4 DEF Count
    <3>4. Abstract!Count
      BY <3>2, <3>3, Zenon DEF Abstract!Count, Abstract!Cardinality, Cardinality
    <3> QED BY <3>4 DEF Abstract!Next
  <2>5. CASE GetRandomEntry
    <3>1. keys' = keys
      BY <2>5 DEF GetRandomEntry
    <3>2. CASE table.size0 # 0
      <4>1. PICK k \in RandomEntries(table) : ret' = Answer("Random", k, TRUE, 0)
        BY <2>5, <3>2, Zenon DEF GetRandomEntry
      <4>2. k \in keys
        BY <4>1, <3>2, RandomEntriesCorrect DEF IInv, TableInv
      <4> QED BY <3>1, <4>1, <4>2, Zenon DEF Abstract!GetRandomEntry, Abstract!Next
    <3>3. CASE table.size0 = 0
      <4>1. table.size1 = 0
        BY <3>3 DEF IInv, TableInv, Shape, TableType, PhaseOK
      <4>2. keys = {}
        <5> SUFFICES ASSUME NEW k PROVE k \notin keys
          OBVIOUS
        <5> QED BY <3>3, <4>1, KeysOfMember
      <4>3. ret' = Answer("Random", NoKey, FALSE, 0)
        BY <2>5, <3>3, Zenon DEF GetRandomEntry
      <4> QED BY <3>1, <4>2, <4>3, Zenon DEF Abstract!GetRandomEntry, Abstract!Next
    <3> QED BY <3>2, <3>3
  <2>6. CASE IncrementalRehashing
    BY <2>6, CronInv DEF IInv, IncrementalRehashing, Abstract!vars
  <2>7. CASE UNCHANGED vars
    BY <2>7 DEF vars, Abstract!vars
  <2> QED BY <2>1, <2>2, <2>3, <2>4, <2>5, <2>6, <2>7 DEF Next, Abstract!Next
<1> QED BY <1>1, <1>2, Invariance, PTL DEF Spec, ImplementsKeyTable, Abstract!Spec
=============================================================================
