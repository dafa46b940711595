------------------------------- MODULE Eviction -------------------------------
(***************************************************************************)
(* EvictionStrategy (src/service/eviction_strategy.cc) over the counters   *)
(* of MemoryTracker (src/base/memory.h): a write that finds more memory    *)
(* allocated than maxmemory evicts keys, one after the other, until enough *)
(* is freed.  It runs on the service executor, while client executors      *)
(* grow and free their buffers and let go of values they have sent.        *)
(*                                                                         *)
(* What the tracked allocator holds is what is referenced: entries of the  *)
(* two tables, keys (shared by an entry and the eviction pool) and values  *)
(* (shared by an entry and the replies being sent).  Each counts one unit. *)
(* The bucket vectors of the tables are left out.                          *)
(***************************************************************************)
EXTENDS Integers, FiniteSets

CONSTANTS
  Key,            \* the keys
  NoKey,          \* no key
  Client,         \* the clients
  Writes,         \* the write commands: a key, and whether it expires
  Policies,       \* the maxmemory-policy values that are tried
  Maxmemory,      \* maxmemory
  Samples,        \* maxmemory-samples
  PoolLimit,      \* kEvictionPoolLimit
  BufferSize,     \* the size of a new buffer
  MaxBufferSize,  \* bound on the size of a buffer
  MaxClock,       \* bound on the LRU clock
  Modulus         \* 2^64: the counters are of type size_t

ASSUME EvictionAssumption ==
  /\ IsFiniteSet(Key) /\ IsFiniteSet(Client) /\ NoKey \notin Key /\ \A w \in Writes : w.key \in Key
  /\ Maxmemory \in Nat \ {0} /\ Samples \in Nat \ {0} /\ PoolLimit \in Nat \ {0}
  /\ BufferSize \in Nat \ {0} /\ MaxBufferSize \in Nat /\ MaxClock \in Nat /\ Modulus \in Nat \ {0}

VARIABLES
  policy,       \* maxmemory_policy_
  data,         \* data_ht: the LRU time, the key object and the value of each key
  expire,       \* the keys in expire_ht
  pool,         \* eviction_pool_: LRU times with the key (its bytes and its object)
  lru_clock,    \* lru_clock_
  kept,         \* the value each client is sending, or None
  buffers,      \* each client's buffer: its size, and its capacity (0 if there is none)
  query_bytes,  \* counter_[kQueryBuffer]
  pc,           \* "idle", or where in Evict the service is: "pick" or "erase"
  goal,         \* bytes_to_free
  freed,        \* freed
  victim,       \* the entry to erase
  delta,        \* the first value of delta
  start         \* history: counter_[kMallocator] when Evict was called

tables == <<data, expire, pool>>
clients == <<kept, buffers, query_bytes>>
evict == <<pc, goal, freed, victim, delta, start>>
vars == <<policy, tables, lru_clock, clients, evict>>

-----------------------------------------------------------------------------
(* MemoryTracker *)

\* Objects are pairs of the key they belong to and a number.
None == <<>>

KeyObjects(d, p) == {d[k].obj : k \in DOMAIN d} \cup {q.obj : q \in p}
Values(d, s) == ({d[k].val : k \in DOMAIN d} \cup {s[c] : c \in Client}) \ {None}

\* counter_[kMallocator] when the tables are d and x, the pool p and the replies s.
Mallocator(d, x, p, s) ==
  Cardinality(DOMAIN d) + Cardinality(x)
    + Cardinality(KeyObjects(d, p)) + Cardinality(Values(d, s))

Allocated == (Mallocator(data, expire, pool, kept) + query_bytes) % Modulus

MaxmemoryExceeded == IF Allocated <= Maxmemory THEN 0 ELSE Allocated - Maxmemory

\* A new object for key k, told apart from those in use.
Fresh(k, used) == <<k, CHOOSE n \in 1 .. Cardinality(used) + 1 : <<k, n>> \notin used>>

-----------------------------------------------------------------------------
Init ==
  /\ policy \in Policies
  /\ data = [k \in {} |-> 0]
  /\ expire = {}
  /\ pool = {}
  /\ lru_clock = 0
  /\ kept = [c \in Client |-> None]
  /\ buffers = [c \in Client |-> [size |-> 0, cap |-> 0]]
  /\ query_bytes = 0
  /\ pc = "idle"
  /\ victim = NoKey
  /\ goal = 0 /\ freed = 0 /\ delta = 0 /\ start = 0

-----------------------------------------------------------------------------
(* Client executors *)

\* The constructor and the destructor of Buffer count its capacity.
Connect(c) ==
  /\ buffers[c].cap = 0
  /\ buffers' = [buffers EXCEPT ![c] = [size |-> BufferSize, cap |-> BufferSize]]
  /\ query_bytes' = (query_bytes + BufferSize) % Modulus
  /\ UNCHANGED <<policy, tables, lru_clock, kept, evict>>

Disconnect(c) ==
  /\ buffers[c].cap # 0
  /\ buffers' = [buffers EXCEPT ![c] = [size |-> 0, cap |-> 0]]
  /\ query_bytes' = (query_bytes - buffers[c].cap) % Modulus
  /\ kept' = [kept EXCEPT ![c] = None]
  /\ UNCHANGED <<policy, tables, lru_clock, evict>>

\* EnsureAvailable counts the difference of the sizes, while a vector that has to
\* be reallocated at least doubles.
EnsureAvailable(c) ==
  /\ buffers[c].cap # 0
  /\ \E n \in buffers[c].size + 1 .. MaxBufferSize :
       /\ query_bytes' = (query_bytes + n - buffers[c].size) % Modulus
       /\ buffers' = [buffers EXCEPT ![c] =
            [size |-> n, cap |-> IF n <= @.cap THEN @.cap
                                 ELSE IF n <= 2 * @.size THEN 2 * @.size ELSE n]]
  /\ UNCHANGED <<policy, tables, lru_clock, kept, evict>>

\* Result::Reset after the reply was sent.
ResetResult(c) ==
  /\ kept[c] # None
  /\ kept' = [kept EXCEPT ![c] = None]
  /\ UNCHANGED <<policy, tables, lru_clock, buffers, query_bytes, evict>>

-----------------------------------------------------------------------------
(* Commands on the service executor *)

\* SET of a key, with or without an expiry time.  An overwritten value is kept
\* by the replies that hold it.
Put(w) ==
  LET obj == IF w.key \in DOMAIN data THEN data[w.key].obj ELSE Fresh(w.key, KeyObjects(data, pool))
      entry == [lru |-> lru_clock, obj |-> obj, val |-> Fresh(w.key, Values(data, kept))]
  IN  /\ data' = [k \in DOMAIN data \cup {w.key} |-> IF k = w.key THEN entry ELSE data[k]]
      /\ expire' = IF w.ex THEN expire \cup {w.key} ELSE expire \ {w.key}

\* Invoke of a write command: without memory to free it runs at once.  Otherwise
\* Evict comes first; which write it is matters only when it runs.
Write ==
  /\ pc = "idle" /\ MaxmemoryExceeded = 0
  /\ \E w \in Writes : Put(w)
  /\ UNCHANGED <<policy, pool, lru_clock, clients, evict>>

CallEvict ==
  /\ pc = "idle" /\ MaxmemoryExceeded # 0
  /\ pc' = "pick" /\ goal' = MaxmemoryExceeded
  /\ start' = Mallocator(data, expire, pool, kept)
  /\ UNCHANGED <<policy, tables, lru_clock, clients, freed, victim, delta>>

\* GET: the reply shares the value, and the access is recorded.
Get(k, c) ==
  /\ pc = "idle" /\ k \in DOMAIN data /\ kept[c] = None /\ buffers[c].cap # 0
  /\ kept' = [kept EXCEPT ![c] = data[k].val]
  /\ data' = [data EXCEPT ![k].lru = lru_clock]
  /\ UNCHANGED <<policy, expire, pool, lru_clock, buffers, query_bytes, evict>>

\* DEL, and the expiration of a key.
EraseKey(k) ==
  /\ pc = "idle" /\ k \in DOMAIN data
  /\ data' = [x \in DOMAIN data \ {k} |-> data[x]]
  /\ expire' = expire \ {k}
  /\ UNCHANGED <<policy, pool, lru_clock, clients, evict>>

RefreshLRUClock ==
  /\ pc = "idle" /\ lru_clock < MaxClock
  /\ lru_clock' = lru_clock + 1
  /\ UNCHANGED <<policy, tables, clients, evict>>

-----------------------------------------------------------------------------
(* GetSomeOldEntry *)

Candidate(k) == [lru |-> data[k].lru, key |-> k, obj |-> data[k].obj]

\* eviction_pool_ compares LRU times alone: it holds one candidate for a time.
OnePerTime(p) == \A q, r \in p : q.lru = r.lru => q = r

\* The pool after an emplace of every key of S, in some order: a key whose time is
\* not there yet is added.
Emplaced(S) ==
  {p \in {pool \cup {Candidate(k) : k \in T} : T \in SUBSET S} :
     OnePerTime(p) /\ \A k \in S : \E q \in p : q.lru = data[k].lru}

Bug_KeepsOneMore(p) == {q \in p : Cardinality({r \in p : r.lru < q.lru}) <= PoolLimit}

\* The newest entries beyond the limit are dropped.
Trim(p) == {q \in p : Cardinality({r \in p : r.lru < q.lru}) < PoolLimit}

Bug_IgnoresAccess(q) == q.key \in DOMAIN data

\* The entry is still there and was not used since it was sampled.
Current(q) == q.key \in DOMAIN data /\ data[q.key].lru = q.lru

\* A round of sampling leaves p; the oldest current entry of it is the result,
\* and it and all that are older leave the pool.
Candidates ==
  {Trim(p) : p \in UNION {Emplaced(S) : S \in {T \in SUBSET DOMAIN data : Cardinality(T) \in 1 .. Samples}}}

GetSomeOldEntry ==
  \E p \in Candidates :
    IF \E q \in p : Current(q)
    THEN \E q \in p :
           /\ Current(q) /\ \A r \in p : Current(r) => q.lru <= r.lru
           /\ victim' = q.key
           /\ pool' = {r \in p : r.lru > q.lru}
           /\ pc' = "erase"
           /\ delta' = Mallocator(data, expire, pool', kept)
    ELSE /\ pool' = {}
         /\ UNCHANGED <<pc, victim, delta>>

-----------------------------------------------------------------------------
(* Evict *)

\* The local variables of Evict go out of scope.
LeaveEvict ==
  /\ pc' = "idle" /\ victim' = NoKey
  /\ goal' = 0 /\ freed' = 0 /\ delta' = 0 /\ start' = 0

\* The loop ends with enough freed, and the command runs, or with no key left or
\* none that may be evicted, and the command is refused.
Return ==
  /\ pc = "pick"
  /\ IF policy # "noeviction" /\ freed >= goal
     THEN \E w \in Writes : Put(w)
     ELSE /\ policy = "noeviction" \/ DOMAIN data = {}
          /\ UNCHANGED <<data, expire>>
  /\ LeaveEvict
  /\ UNCHANGED <<policy, pool, lru_clock, clients>>

\* The entry to evict, by policy, and the first read of the counter.
Pick ==
  /\ pc = "pick" /\ freed < goal /\ DOMAIN data # {}
  /\ \/ /\ policy = "allkeys-random"
        /\ victim' \in DOMAIN data
        /\ delta' = Mallocator(data, expire, pool, kept)
        /\ pc' = "erase"
        /\ UNCHANGED pool
     \/ policy = "allkeys-lru" /\ GetSomeOldEntry
  /\ UNCHANGED <<policy, data, expire, lru_clock, clients, goal, freed, start>>

Bug_CreditsAllFreed ==
  /\ pc = "erase"
  /\ data' = [x \in DOMAIN data \ {victim} |-> data[x]]
  /\ expire' = expire \ {victim}
  /\ freed' = freed + start - Mallocator(data', expire', pool, kept)
  /\ pc' = "pick"
  /\ UNCHANGED <<policy, pool, lru_clock, clients, goal, victim, delta, start>>

Bug_KeepsVictim ==
  /\ pc = "erase"
  /\ freed' = freed + delta - Mallocator(data, expire, pool, kept)
  /\ pc' = "pick"
  /\ UNCHANGED <<policy, tables, lru_clock, clients, goal, victim, delta, start>>

\* It is erased from both tables, and what the counter lost was freed.
Erase ==
  /\ pc = "erase"
  /\ data' = [x \in DOMAIN data \ {victim} |-> data[x]]
  /\ expire' = expire \ {victim}
  /\ freed' = (freed + delta - Mallocator(data', expire', pool, kept)) % Modulus
  /\ pc' = "pick" /\ victim' = NoKey /\ delta' = 0
  /\ UNCHANGED <<policy, pool, lru_clock, clients, goal, start>>

Evict == Return \/ Pick \/ Erase

Next ==
  \/ \E c \in Client : Connect(c) \/ Disconnect(c) \/ EnsureAvailable(c) \/ ResetResult(c)
  \/ \E k \in Key : EraseKey(k) \/ \E c \in Client : Get(k, c)
  \/ Write \/ CallEvict \/ RefreshLRUClock
  \/ Evict

\* The service executor does not stop within a command.
Spec == Init /\ [][Next]_vars /\ WF_vars(Evict)

-----------------------------------------------------------------------------
(* Properties *)

\* The assertion at the start of GetSomeOldEntry: the pool is below its limit,
\* so every call can add a candidate, whatever was erased or used in between.
PoolBelowLimit == Cardinality(pool) < PoolLimit

\* allkeys-lru evicts a key that is there, and none of the candidates left in
\* the pool that are still as old as when they were sampled is older: a key that
\* was used in the meantime is not taken for its old self.
VictimIsOldest ==
  (pc = "erase" /\ policy = "allkeys-lru") =>
    /\ victim \in DOMAIN data
    /\ \A q \in pool : (q.key \in DOMAIN data /\ data[q.key].lru = q.lru) =>
                         data[victim].lru < q.lru

\* A write that had to wait for Evict runs only when the tracked allocator holds
\* at least bytes_to_free less than when Evict was called: values that replies
\* still hold, keys that the pool still holds and values that another thread
\* frees meanwhile do not make Evict stop early.
EnoughFreed ==
  [][(pc = "pick" /\ pc' = "idle" /\ DOMAIN data' # {} /\ policy # "noeviction") =>
       start - Mallocator(data, expire, pool, kept) >= goal]_vars

\* Evict returns: sampling finds an entry that is current, and every eviction
\* frees something, since at least the entry of the table is not shared.
EvictEnds == (pc # "idle") ~> (pc = "idle")

\* The memory that counts against maxmemory includes the buffers of clients
\* (rdss.ini): when no client is left, none is counted.
BuffersCounted == (\A c \in Client : buffers[c].cap = 0) => query_bytes = 0
=============================================================================
