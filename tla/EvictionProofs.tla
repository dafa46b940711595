---------------------------- MODULE EvictionProofs ----------------------------
(***************************************************************************)
(* PoolBelowLimit, VictimIsOldest and EnoughFreed of Eviction, for any     *)
(* sets of keys, clients and writes, any limits and any modulus of the     *)
(* counters.  For EnoughFreed the argument follows the memory of the       *)
(* tracked allocator from the call of Evict on: nothing that can happen    *)
(* before Evict returns makes it grow, so that what Evict has added up is  *)
(* at most what was freed since.                                           *)
(***************************************************************************)
EXTENDS Eviction, FiniteSetTheorems, TLAPS

Memory == Mallocator(data, expire, pool, kept)

Types ==
  /\ DOMAIN data \subseteq Key /\ expire \subseteq Key
  /\ \A k \in DOMAIN data : DOMAIN data[k] = {"lru", "obj", "val"} /\ data[k].lru \in Nat
  /\ IsFiniteSet(pool) /\ \A q \in pool : q.lru \in Nat
  /\ DOMAIN kept = Client /\ buffers \in [Client -> [size : Nat, cap : Nat]]
  /\ lru_clock \in Nat /\ query_bytes \in Nat
  /\ pc \in {"idle", "pick", "erase"}
  /\ goal \in Nat /\ freed \in Nat /\ delta \in Nat /\ start \in Nat

\* What Evict has credited itself with: at "erase" the memory is at most what the
\* counter read before, and the sum so far is covered by what is gone since start.
Credited ==
  /\ pc = "idle" => freed = 0
  /\ pc = "pick" => freed + Memory <= start
  /\ pc = "erase" => freed + delta <= start /\ Memory <= delta

IInv == Types /\ Credited /\ PoolBelowLimit /\ VictimIsOldest

-----------------------------------------------------------------------------
(* Finite sets and the counter *)

\* The keys and the clients are finitely many, and so is what they refer to.
LEMMA FiniteImage ==
  ASSUME NEW S, IsFiniteSet(S), NEW f
  PROVE  IsFiniteSet({f[x] : x \in S})
<1> DEFINE T == {f[x] : x \in S}
           g == [x \in S |-> f[x]]
<1>1. g \in Surjection(S, T)
  BY DEF Surjection
<1> QED
  BY <1>1, FS_Surjection

\* The sets whose sizes the counter adds up are finite (MemoryTracker).
LEMMA FiniteMemory ==
  ASSUME NEW d, NEW p, NEW s, IsFiniteSet(DOMAIN d), IsFiniteSet(p)
  PROVE  IsFiniteSet(KeyObjects(d, p)) /\ IsFiniteSet(Values(d, s))
<1>1. IsFiniteSet({d[k].obj : k \in DOMAIN d})
  <2> DEFINE f == [k \in DOMAIN d |-> d[k].obj]
  <2>1. IsFiniteSet({f[k] : k \in DOMAIN d})
    BY Zenon, FiniteImage
  <2>2. {f[k] : k \in DOMAIN d} = {d[k].obj : k \in DOMAIN d}
    OBVIOUS
  <2> QED
    BY <2>1, <2>2
<1>2. IsFiniteSet({d[k].val : k \in DOMAIN d})
  <2> DEFINE f == [k \in DOMAIN d |-> d[k].val]
  <2>1. IsFiniteSet({f[k] : k \in DOMAIN d})
    BY Zenon, FiniteImage
  <2>2. {f[k] : k \in DOMAIN d} = {d[k].val : k \in DOMAIN d}
    OBVIOUS
  <2> QED
    BY <2>1, <2>2
<1>3. IsFiniteSet({q.obj : q \in p})
  <2> DEFINE f == [q \in p |-> q.obj]
  <2>1. IsFiniteSet({f[q] : q \in p})
    BY Zenon, FiniteImage
  <2>2. {f[q] : q \in p} = {q.obj : q \in p}
    OBVIOUS
  <2> QED
    BY <2>1, <2>2
<1>4. IsFiniteSet({s[c] : c \in Client})
  BY FiniteImage, EvictionAssumption
<1>5. IsFiniteSet(KeyObjects(d, p))
  BY Zenon, <1>1, <1>3, FS_Union DEF KeyObjects
<1>6. IsFiniteSet({d[k].val : k \in DOMAIN d} \cup {s[c] : c \in Client})
  BY Zenon, <1>2, <1>4, FS_Union
<1>7. IsFiniteSet(Values(d, s))
  BY Zenon, <1>6, FS_RemoveElement DEF Values
<1> QED
  BY <1>5, <1>7

\* The counter is a natural number (counter_[kMallocator]).
LEMMA MemoryNat ==
  ASSUME NEW d, NEW x, NEW p, NEW s,
         IsFiniteSet(DOMAIN d), IsFiniteSet(x), IsFiniteSet(p)
  PROVE  Mallocator(d, x, p, s) \in Nat
<1>1. /\ Cardinality(DOMAIN d) \in Nat /\ Cardinality(x) \in Nat
      /\ Cardinality(KeyObjects(d, p)) \in Nat /\ Cardinality(Values(d, s)) \in Nat
  BY FiniteMemory, FS_CardinalityType
<1> QED
  BY <1>1 DEF Mallocator

\* Where less is referenced, less is allocated.
LEMMA LessMemory ==
  ASSUME NEW d, NEW x, NEW p, NEW s, IsFiniteSet(DOMAIN d), IsFiniteSet(x), IsFiniteSet(p),
         NEW d2, NEW x2, NEW p2, NEW s2,
         DOMAIN d2 \subseteq DOMAIN d, x2 \subseteq x,
         KeyObjects(d2, p2) \subseteq KeyObjects(d, p), Values(d2, s2) \subseteq Values(d, s)
  PROVE  /\ Mallocator(d, x, p, s) \in Nat /\ Mallocator(d2, x2, p2, s2) \in Nat
         /\ Mallocator(d2, x2, p2, s2) <= Mallocator(d, x, p, s)
<1>1. IsFiniteSet(KeyObjects(d, p)) /\ IsFiniteSet(Values(d, s))
  BY FiniteMemory
<1>2. /\ Cardinality(DOMAIN d) \in Nat /\ Cardinality(x) \in Nat
      /\ Cardinality(KeyObjects(d, p)) \in Nat /\ Cardinality(Values(d, s)) \in Nat
  BY <1>1, FS_CardinalityType
<1>3. /\ Cardinality(DOMAIN d2) \in Nat /\ Cardinality(DOMAIN d2) <= Cardinality(DOMAIN d)
      /\ Cardinality(x2) \in Nat /\ Cardinality(x2) <= Cardinality(x)
  BY FS_Subset, FS_CardinalityType
<1>4. /\ Cardinality(KeyObjects(d2, p2)) \in Nat
      /\ Cardinality(KeyObjects(d2, p2)) <= Cardinality(KeyObjects(d, p))
  BY <1>1, FS_Subset, FS_CardinalityType
<1>5. /\ Cardinality(Values(d2, s2)) \in Nat
      /\ Cardinality(Values(d2, s2)) <= Cardinality(Values(d, s))
  BY <1>1, FS_Subset, FS_CardinalityType
<1> QED
  BY <1>2, <1>3, <1>4, <1>5 DEF Mallocator

-----------------------------------------------------------------------------
(* The pool *)

\* The pool with some keys emplaced is finite and holds one entry for a time.
LEMMA EmplacedPool ==
  ASSUME Types, NEW S \in SUBSET DOMAIN data, NEW p \in Emplaced(S)
  PROVE  /\ IsFiniteSet(p) /\ OnePerTime(p)
         /\ \A q \in p : q.lru \in Nat
         /\ KeyObjects(data, p) \subseteq KeyObjects(data, pool)
<1>1. PICK T \in SUBSET S : p = pool \cup {Candidate(k) : k \in T}
  BY DEF Emplaced
<1>2. IsFiniteSet(T)
  BY EvictionAssumption, FS_Subset DEF Types
<1>3. IsFiniteSet({Candidate(k) : k \in T})
  <2> DEFINE f == [k \in T |-> Candidate(k)]
  <2>1. IsFiniteSet({f[k] : k \in T})
    BY Zenon, <1>2, FiniteImage
  <2>2. {f[k] : k \in T} = {Candidate(k) : k \in T}
    OBVIOUS
  <2> QED
    BY <2>1, <2>2
<1>4. IsFiniteSet(p)
  BY Zenon, <1>1, <1>3, FS_Union DEF Types
<1>5. OnePerTime(p)
  BY DEF Emplaced
<1>6. \A q \in p : q.lru \in Nat
  BY <1>1 DEF Types, Candidate
<1>7. \A k \in T : Candidate(k).obj = data[k].obj
  BY DEF Candidate
<1>8. KeyObjects(data, p) \subseteq KeyObjects(data, pool)
  BY <1>1, <1>7 DEF KeyObjects
<1> QED
  BY <1>4, <1>5, <1>6, <1>8

\* Dropping the newest entries leaves at most PoolLimit of them, since each has
\* another number of older ones (the loop on eviction_pool_.size()).
LEMMA TrimBounds ==
  ASSUME NEW p, IsFiniteSet(p), OnePerTime(p), \A q \in p : q.lru \in Nat
  PROVE  IsFiniteSet(Trim(p)) /\ Cardinality(Trim(p)) \in Nat /\ Cardinality(Trim(p)) <= PoolLimit
<1> DEFINE Older(q) == {r \in p : r.lru < q.lru}
           rank == [q \in Trim(p) |-> Cardinality(Older(q))]
           R == 0 .. (PoolLimit - 1)
<1>1. \A q \in p : IsFiniteSet(Older(q)) /\ Cardinality(Older(q)) \in Nat
  BY FS_Subset, FS_CardinalityType
<1>2. ASSUME NEW q \in p, NEW r \in p, q.lru < r.lru
      PROVE  Cardinality(Older(q)) < Cardinality(Older(r))
  <2>1. Older(q) \subseteq Older(r) /\ q \in Older(r) /\ q \notin Older(q)
    BY <1>2
  <2>2. /\ Cardinality(Older(q)) <= Cardinality(Older(r))
        /\ Cardinality(Older(q)) # Cardinality(Older(r))
    <3> HIDE DEF Older
    <3> QED
      BY <1>1, <2>1, FS_Subset
  <2> QED
    BY <1>1, <2>2
<1>3. Trim(p) \subseteq p /\ \A q \in Trim(p) : Cardinality(Older(q)) < PoolLimit
  BY DEF Trim
<1> HIDE DEF Older
<1>4. rank \in [Trim(p) -> R]
  BY <1>1, <1>3, EvictionAssumption
<1>5. ASSUME NEW q \in Trim(p), NEW r \in Trim(p), q # r PROVE rank[q] # rank[r]
  <2>1. q.lru < r.lru \/ r.lru < q.lru
    BY <1>3, <1>5 DEF OnePerTime
  <2>2. Cardinality(Older(q)) # Cardinality(Older(r))
    BY <1>1, <1>2, <1>3, <2>1
  <2> QED
    BY <2>2
<1>6. rank \in Injection(Trim(p), R)
  BY <1>4, <1>5 DEF Injection, IsInjective
<1>7. IsFiniteSet(R) /\ Cardinality(R) = PoolLimit
  BY EvictionAssumption, FS_Interval
<1> QED
  BY <1>6, <1>7, FS_Injection, FS_CardinalityType

\* A round of sampling, and the search for the oldest current entry in what it
\* leaves (GetSomeOldEntry).
LEMMA OldEntry ==
  ASSUME Types, GetSomeOldEntry
  PROVE  /\ IsFiniteSet(pool') /\ \A q \in pool' : q.lru \in Nat
         /\ Cardinality(pool') < PoolLimit
         /\ KeyObjects(data, pool') \subseteq KeyObjects(data, pool)
         /\ \/ pc' = pc /\ delta' = delta /\ victim' = victim
            \/ /\ pc' = "erase" /\ delta' = Mallocator(data, expire, pool', kept)
               /\ victim' \in DOMAIN data
               /\ \A q \in pool' : data[victim'].lru < q.lru
<1>1. PICK c \in Candidates :
        IF \E q \in c : Current(q)
        THEN \E q \in c :
               /\ Current(q) /\ \A r \in c : Current(r) => q.lru <= r.lru
               /\ victim' = q.key
               /\ pool' = {r \in c : r.lru > q.lru}
               /\ pc' = "erase"
               /\ delta' = Mallocator(data, expire, pool', kept)
        ELSE pool' = {} /\ UNCHANGED <<pc, victim, delta>>
  BY Zenon DEF GetSomeOldEntry
<1>2. PICK S \in SUBSET DOMAIN data : \E p \in Emplaced(S) : c = Trim(p)
  BY DEF Candidates
<1>3. PICK p \in Emplaced(S) : c = Trim(p)
  BY <1>2
<1>4. /\ IsFiniteSet(p) /\ OnePerTime(p) /\ \A q \in p : q.lru \in Nat
      /\ KeyObjects(data, p) \subseteq KeyObjects(data, pool)
  BY EmplacedPool
<1>5. /\ IsFiniteSet(c) /\ Cardinality(c) \in Nat
      /\ Cardinality(c) <= PoolLimit
  BY <1>3, <1>4, TrimBounds
<1>6. c \subseteq p
  BY <1>3 DEF Trim
<1>7. ASSUME NEW P \in SUBSET p PROVE KeyObjects(data, P) \subseteq KeyObjects(data, pool)
  BY <1>4 DEF KeyObjects
<1>8. CASE \E q \in c : Current(q)
  <2>1. PICK q \in c :
          /\ Current(q) /\ \A r \in c : Current(r) => q.lru <= r.lru
          /\ victim' = q.key
          /\ pool' = {r \in c : r.lru > q.lru}
          /\ pc' = "erase"
          /\ delta' = Mallocator(data, expire, pool', kept)
    BY <1>1, <1>8, Zenon
  <2>2. pool' \subseteq c /\ q \notin pool' /\ q.lru \in Nat
    BY <1>4, <1>6, <2>1
  <2>3. IsFiniteSet(pool') /\ Cardinality(pool') < PoolLimit
    <3>1. /\ IsFiniteSet(pool') /\ Cardinality(pool') <= Cardinality(c)
          /\ Cardinality(pool') # Cardinality(c)
      BY <1>5, <2>2, FS_Subset
    <3>2. Cardinality(pool') \in Nat
      BY <3>1, FS_CardinalityType
    <3> QED
      BY <1>5, <3>1, <3>2, EvictionAssumption
  <2>4. \A r \in pool' : r.lru \in Nat /\ q.lru < r.lru
    BY <1>4, <1>6, <2>1, <2>2
  <2>5. KeyObjects(data, pool') \subseteq KeyObjects(data, pool)
    BY <1>6, <1>7, <2>2
  <2>6. victim' \in DOMAIN data /\ data[victim'].lru = q.lru
    BY <2>1 DEF Current
  <2> QED
    BY <2>1, <2>3, <2>4, <2>5, <2>6
<1>9. CASE ~\E q \in c : Current(q)
  <2>1. pool' = {} /\ UNCHANGED <<pc, victim, delta>>
    BY <1>1, <1>9, Zenon
  <2>2. KeyObjects(data, {}) \subseteq KeyObjects(data, pool)
    BY <1>7
  <2> QED
    BY <2>1, <2>2, FS_EmptySet, EvictionAssumption
<1> QED
  BY <1>8, <1>9

-----------------------------------------------------------------------------
(* The invariant *)

\* The tables and the pool are finite, and the counter is a number.
LEMMA FiniteTables ==
  ASSUME Types
  PROVE  /\ IsFiniteSet(DOMAIN data) /\ IsFiniteSet(expire) /\ IsFiniteSet(pool)
         /\ Memory \in Nat /\ Allocated \in Nat /\ MaxmemoryExceeded \in Nat
<1>1. IsFiniteSet(DOMAIN data) /\ IsFiniteSet(expire) /\ IsFiniteSet(pool)
  BY EvictionAssumption, FS_Subset DEF Types
<1>2. Memory \in Nat
  BY <1>1, MemoryNat DEF Memory
<1>3. Allocated \in Nat
  BY <1>2, EvictionAssumption DEF Allocated, Memory, Types
<1>4. MaxmemoryExceeded \in Nat
  BY <1>3, EvictionAssumption DEF MaxmemoryExceeded
<1> QED
  BY <1>1, <1>2, <1>3, <1>4

\* The sum that Erase computes modulo 2^64 is at most the true one (freed, delta).
LEMMA CreditedSum ==
  ASSUME NEW f \in Nat, NEW d \in Nat, NEW m \in Nat, NEW b \in Nat \ {0}, m <= d
  PROVE  (f + d - m) % b \in Nat /\ (f + d - m) % b <= f + d - m
<1> DEFINE x == f + d - m
<1>1. x \in Nat
  OBVIOUS
<1> HIDE DEF x
<1>2. x % b \in Nat /\ x % b <= x
  BY <1>1
<1> QED
  BY <1>2 DEF x

\* Initially there is nothing.
LEMMA InitIInv == Init => IInv
<1> SUFFICES ASSUME Init PROVE IInv
  OBVIOUS
<1>1. Types
  BY FS_EmptySet DEF Init, Types
<1>2. PoolBelowLimit
  BY FS_EmptySet, EvictionAssumption DEF Init, PoolBelowLimit
<1>3. Credited /\ VictimIsOldest
  BY DEF Init, Credited, VictimIsOldest
<1> QED
  BY <1>1, <1>2, <1>3 DEF IInv

\* A client executor that allocates or frees a buffer, or lets go of a value, only
\* frees memory of the tracked allocator (Buffer, Result::Reset).
LEMMA ClientStep ==
  ASSUME IInv, UNCHANGED <<policy, tables, lru_clock, evict>>,
         buffers' \in [Client -> [size : Nat, cap : Nat]], query_bytes' \in Nat,
         \/ kept' = kept
         \/ \E c \in Client : kept' = [kept EXCEPT ![c] = None]
  PROVE  IInv'
<1> USE DEF IInv
<1>1. Types'
  BY DEF Types, tables, evict
<1>2. Values(data, kept') \subseteq Values(data, kept)
  BY DEF Values, Types
<1>3. Memory \in Nat /\ Memory' \in Nat /\ Memory' <= Memory
  BY <1>2, FiniteTables, LessMemory DEF Memory, tables
<1>4. Credited'
  BY <1>3 DEF Credited, Types, evict
<1>5. PoolBelowLimit' /\ VictimIsOldest'
  BY Zenon DEF PoolBelowLimit, VictimIsOldest, tables, evict
<1> QED
  BY <1>1, <1>4, <1>5

\* Between two evictions only the types and the pool matter.
LEMMA IdleStep ==
  ASSUME IInv, Types', pc' = "idle", freed' = 0, pool' = pool
  PROVE  IInv'
BY DEF IInv, Credited, PoolBelowLimit, VictimIsOldest

\* A write leaves tables of the types (SetData).
LEMMA PutTypes ==
  ASSUME Types, NEW w \in Writes, Put(w)
  PROVE  /\ DOMAIN data' \subseteq Key /\ expire' \subseteq Key
         /\ \A k \in DOMAIN data' :
              DOMAIN data'[k] = {"lru", "obj", "val"} /\ data'[k].lru \in Nat
<1>1. PICK obj, val :
        data' = [k \in DOMAIN data \cup {w.key} |->
                   IF k = w.key THEN [lru |-> lru_clock, obj |-> obj, val |-> val] ELSE data[k]]
  BY Zenon DEF Put
<1>2. w.key \in Key
  BY EvictionAssumption
<1>3. expire' \subseteq Key
  BY <1>2 DEF Put, Types
<1> QED
  BY <1>1, <1>2, <1>3 DEF Types

\* Every step of a client executor, of a command and of Evict keeps the invariant
\* (EvictionStrategy).
LEMMA StepIInv == IInv /\ [Next]_vars => IInv'
<1> SUFFICES ASSUME IInv, [Next]_vars PROVE IInv'
  OBVIOUS
<1>1. CASE UNCHANGED vars
  <2>1. UNCHANGED <<policy, tables, lru_clock, evict>> /\ UNCHANGED clients
    BY <1>1 DEF vars
  <2>2. buffers' \in [Client -> [size : Nat, cap : Nat]] /\ query_bytes' \in Nat /\ kept' = kept
    BY <2>1 DEF clients, IInv, Types
  <2> QED
    BY <2>1, <2>2, ClientStep
<1>2. ASSUME NEW c \in Client, Connect(c) PROVE IInv'
  <2>1. buffers' \in [Client -> [size : Nat, cap : Nat]] /\ query_bytes' \in Nat
    BY <1>2, EvictionAssumption DEF Connect, IInv, Types
  <2>2. UNCHANGED <<policy, tables, lru_clock, evict>> /\ kept' = kept
    BY <1>2 DEF Connect
  <2> QED
    BY <2>1, <2>2, ClientStep
<1>3. ASSUME NEW c \in Client, Disconnect(c) PROVE IInv'
  <2>1. buffers' \in [Client -> [size : Nat, cap : Nat]] /\ query_bytes' \in Nat
    BY <1>3, EvictionAssumption DEF Disconnect, IInv, Types
  <2>2. UNCHANGED <<policy, tables, lru_clock, evict>> /\ kept' = [kept EXCEPT ![c] = None]
    BY <1>3 DEF Disconnect
  <2> QED
    BY Zenon, <2>1, <2>2, ClientStep
<1>4. ASSUME NEW c \in Client, EnsureAvailable(c) PROVE IInv'
  <2>1. PICK n \in buffers[c].size + 1 .. MaxBufferSize :
          /\ query_bytes' = (query_bytes + n - buffers[c].size) % Modulus
          /\ buffers' = [buffers EXCEPT ![c] =
               [size |-> n, cap |-> IF n <= buffers[c].cap THEN buffers[c].cap
                                    ELSE IF n <= 2 * buffers[c].size THEN 2 * buffers[c].size
                                    ELSE n]]
    BY Zenon, <1>4 DEF EnsureAvailable
  <2>2. buffers[c].size \in Nat /\ buffers[c].cap \in Nat /\ query_bytes \in Nat /\ n \in Nat
    BY <2>1, EvictionAssumption DEF IInv, Types
  <2>3. query_bytes' \in Nat
    BY <2>1, <2>2, EvictionAssumption
  <2>4. buffers' \in [Client -> [size : Nat, cap : Nat]]
    BY <2>1, <2>2 DEF IInv, Types
  <2>5. UNCHANGED <<policy, tables, lru_clock, evict>> /\ kept' = kept
    BY <1>4 DEF EnsureAvailable
  <2> QED
    BY <2>3, <2>4, <2>5, ClientStep
<1>5. ASSUME NEW c \in Client, ResetResult(c) PROVE IInv'
  <2>1. buffers' \in [Client -> [size : Nat, cap : Nat]] /\ query_bytes' \in Nat
    BY <1>5 DEF ResetResult, IInv, Types
  <2>2. UNCHANGED <<policy, tables, lru_clock, evict>> /\ kept' = [kept EXCEPT ![c] = None]
    BY <1>5 DEF ResetResult
  <2> QED
    BY Zenon, <2>1, <2>2, ClientStep
<1>6. CASE Write
  <2>1. PICK w \in Writes : Put(w)
    BY <1>6 DEF Write
  <2>2. Types'
    BY <1>6, <2>1, PutTypes DEF Write, IInv, Types, clients, evict
  <2> QED
    BY <1>6, <2>2, IdleStep DEF Write, evict, IInv, Credited
<1>7. ASSUME NEW k \in Key, NEW c \in Client, Get(k, c) PROVE IInv'
  <2>1. data' = [data EXCEPT ![k] = [data[k] EXCEPT !.lru = lru_clock]] /\ k \in DOMAIN data
    BY <1>7 DEF Get
  <2>2. /\ DOMAIN data' = DOMAIN data
        /\ \A x \in DOMAIN data' :
             DOMAIN data'[x] = {"lru", "obj", "val"} /\ data'[x].lru \in Nat
    BY <2>1 DEF IInv, Types
  <2>3. Types'
    BY <1>7, <2>2 DEF Get, IInv, Types, evict
  <2> QED
    BY <1>7, <2>3, IdleStep DEF Get, evict, IInv, Credited
<1>8. ASSUME NEW k \in Key, EraseKey(k) PROVE IInv'
  <2>1. Types'
    BY <1>8 DEF EraseKey, IInv, Types, clients, evict
  <2> QED
    BY <1>8, <2>1, IdleStep DEF EraseKey, evict, IInv, Credited
<1>9. CASE RefreshLRUClock
  <2>1. Types'
    BY <1>9 DEF RefreshLRUClock, IInv, Types, tables, clients, evict
  <2> QED
    BY <1>9, <2>1, IdleStep DEF RefreshLRUClock, tables, evict, IInv, Credited
<1>10. CASE CallEvict
  <2>1. /\ pc = "idle" /\ pc' = "pick" /\ goal' = MaxmemoryExceeded /\ start' = Memory
        /\ UNCHANGED <<data, expire, pool, kept, freed, delta>>
    BY <1>10 DEF CallEvict, Memory, tables, clients
  <2>2. Memory \in Nat /\ MaxmemoryExceeded \in Nat
    BY FiniteTables DEF IInv
  <2>3. Types'
    BY <1>10, <2>1, <2>2 DEF CallEvict, IInv, Types, tables, clients
  <2>4. Credited'
    BY <2>1, <2>2 DEF IInv, Credited, Memory
  <2> QED
    BY <2>1, <2>3, <2>4 DEF IInv, PoolBelowLimit, VictimIsOldest
<1>11. CASE Return
  <2>1. /\ pc' = "idle" /\ freed' = 0 /\ goal' = 0 /\ delta' = 0 /\ start' = 0
        /\ UNCHANGED <<pool, lru_clock, kept, buffers, query_bytes>>
    BY <1>11 DEF Return, LeaveEvict, clients
  <2>2. /\ DOMAIN data' \subseteq Key /\ expire' \subseteq Key
        /\ \A k \in DOMAIN data' :
             DOMAIN data'[k] = {"lru", "obj", "val"} /\ data'[k].lru \in Nat
    <3>1. CASE \E w \in Writes : Put(w)
      BY <3>1, PutTypes DEF IInv
    <3>2. CASE UNCHANGED <<data, expire>>
      BY <3>2 DEF IInv, Types
    <3> QED
      BY <1>11, <3>1, <3>2 DEF Return
  <2>3. Types'
    BY <2>1, <2>2 DEF IInv, Types
  <2> QED
    BY <2>1, <2>3, IdleStep
<1>12. CASE Pick
  <2>1. /\ pc = "pick"
        /\ UNCHANGED <<policy, data, expire, lru_clock, kept, buffers, query_bytes, goal, freed, start>>
    BY <1>12 DEF Pick, clients
  <2>2. Memory \in Nat /\ IsFiniteSet(DOMAIN data) /\ IsFiniteSet(expire) /\ IsFiniteSet(pool)
    BY FiniteTables DEF IInv
  <2>3. CASE /\ policy = "allkeys-random" /\ victim' \in DOMAIN data /\ delta' = Memory
             /\ pc' = "erase" /\ UNCHANGED pool
    <3>1. Types'
      BY <2>1, <2>2, <2>3 DEF IInv, Types
    <3>2. Memory' = Memory
      BY <2>1, <2>3 DEF Memory
    <3>3. Credited'
      BY <2>1, <2>2, <2>3, <3>2 DEF IInv, Credited, Types
    <3> QED
      BY <2>1, <2>3, <3>1, <3>3 DEF IInv, PoolBelowLimit, VictimIsOldest
  <2>4. CASE policy = "allkeys-lru" /\ GetSomeOldEntry
    <3>1. /\ IsFiniteSet(pool') /\ \A q \in pool' : q.lru \in Nat
          /\ Cardinality(pool') < PoolLimit
          /\ KeyObjects(data, pool') \subseteq KeyObjects(data, pool)
          /\ \/ pc' = pc /\ delta' = delta /\ victim' = victim
             \/ /\ pc' = "erase" /\ delta' = Mallocator(data, expire, pool', kept)
                /\ victim' \in DOMAIN data
                /\ \A q \in pool' : data[victim'].lru < q.lru
      BY <2>4, OldEntry DEF IInv
    <3>2. Memory' \in Nat /\ Memory' <= Memory /\ Memory' = Mallocator(data, expire, pool', kept)
      BY <2>1, <2>2, <3>1, LessMemory DEF Memory
    <3>3. Types'
      BY <2>1, <3>1, <3>2 DEF IInv, Types
    <3>4. Credited'
      BY <2>1, <2>2, <3>1, <3>2 DEF IInv, Credited, Types
    <3>5. VictimIsOldest'
      BY <2>1, <3>1 DEF VictimIsOldest
    <3> QED
      BY <3>1, <3>3, <3>4, <3>5 DEF IInv, PoolBelowLimit
  <2> QED
    BY <1>12, <2>3, <2>4 DEF Pick, Memory
<1>13. CASE Erase
  <2>1. /\ pc = "erase" /\ pc' = "pick" /\ delta' = 0
        /\ data' = [x \in DOMAIN data \ {victim} |-> data[x]] /\ expire' = expire \ {victim}
        /\ freed' = (freed + delta - Memory') % Modulus
        /\ UNCHANGED <<pool, lru_clock, kept, buffers, query_bytes, goal, start>>
    BY <1>13 DEF Erase, Memory, clients
  <2>2. KeyObjects(data', pool') \subseteq KeyObjects(data, pool)
    BY <2>1 DEF KeyObjects
  <2>3. Values(data', kept') \subseteq Values(data, kept)
    BY <2>1 DEF Values
  <2>4. Memory \in Nat /\ Memory' \in Nat /\ Memory' <= Memory
    BY Zenon, <2>1, <2>2, <2>3, FiniteTables, LessMemory DEF Memory, IInv
  <2>5. freed' \in Nat /\ freed' <= freed + delta - Memory'
    <3>1. freed \in Nat /\ delta \in Nat /\ Memory' <= delta
      BY <2>1, <2>4 DEF IInv, Types, Credited
    <3> QED
      BY <2>1, <2>4, <3>1, CreditedSum, EvictionAssumption, Zenon
  <2>6. Types'
    BY <2>1, <2>5 DEF IInv, Types
  <2>7. Credited'
    BY <2>1, <2>4, <2>5 DEF IInv, Types, Credited
  <2> QED
    BY <2>1, <2>6, <2>7 DEF IInv, PoolBelowLimit, VictimIsOldest
<1> QED
  BY <1>1, <1>2, <1>3, <1>4, <1>5, <1>6, <1>7, <1>8, <1>9, <1>10, <1>11, <1>12, <1>13
  DEF Next, Evict

-----------------------------------------------------------------------------
(* The properties *)

\* The inductive invariant holds in every reachable state.
THEOREM Invariance == Spec => []IInv
BY InitIInv, StepIInv, PTL DEF Spec

\* The assertion of GetSomeOldEntry on the size of the pool holds with any limit
\* and any number of samples.
THEOREM PoolCorrect == Spec => []PoolBelowLimit
<1>1. IInv => PoolBelowLimit
  BY DEF IInv
<1> QED
  BY <1>1, Invariance, PTL

\* allkeys-lru evicts a key that is there and the oldest of the current candidates.
THEOREM VictimCorrect == Spec => []VictimIsOldest
<1>1. IInv => VictimIsOldest
  BY DEF IInv
<1> QED
  BY <1>1, Invariance, PTL

\* Evict succeeds only when the tracked allocator holds bytes_to_free less than at
\* the call, whatever other threads free meanwhile and although the sums are taken
\* modulo 2^64 (the loop of Evict).
THEOREM FreedCorrect == Spec => EnoughFreed
<1>1. ASSUME IInv, [Next]_vars, pc = "pick", pc' = "idle", DOMAIN data' # {}, policy # "noeviction"
      PROVE  start - Memory >= goal
  <2>1. Return
    <3>1. ~UNCHANGED vars
      BY <1>1 DEF vars, evict
    <3>2. \A c \in Client :
            ~Connect(c) /\ ~Disconnect(c) /\ ~EnsureAvailable(c) /\ ~ResetResult(c)
      BY <1>1 DEF evict, Connect, Disconnect, EnsureAvailable, ResetResult
    <3>3. \A k \in Key : ~EraseKey(k) /\ \A c \in Client : ~Get(k, c)
      BY <1>1, Zenon DEF EraseKey, Get
    <3>4. ~Write /\ ~CallEvict /\ ~RefreshLRUClock /\ ~Erase
      BY <1>1 DEF Write, CallEvict, RefreshLRUClock, Erase
    <3>5. ~Pick
      BY <1>1, OldEntry DEF Pick, IInv
    <3> QED
      BY <1>1, <3>1, <3>2, <3>3, <3>4, <3>5 DEF Next, Evict
  <2>2. freed >= goal
    BY <1>1, <2>1 DEF Return
  <2>3. freed + Memory <= start /\ Memory \in Nat /\ freed \in Nat /\ goal \in Nat /\ start \in Nat
    BY <1>1, FiniteTables DEF IInv, Types, Credited
  <2> QED
    BY <2>2, <2>3
<1>2. IInv /\ [Next]_vars =>
        [(pc = "pick" /\ pc' = "idle" /\ DOMAIN data' # {} /\ policy # "noeviction") =>
           start - Mallocator(data, expire, pool, kept) >= goal]_vars
  BY <1>1 DEF Memory
<1> QED
  BY <1>2, Invariance, PTL DEF Spec, EnoughFreed
=============================================================================
