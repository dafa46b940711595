---------------------------- MODULE ActiveExpire ----------------------------
(***************************************************************************)
(* Active expiration: ExpireStrategy::ActiveExpire of                      *)
(* src/service/expire_strategy.cc scans the table of expiry times with     *)
(* HashTable::TraverseBucket, a cycle per tick of DataStructureService::   *)
(* Cron, between the commands that insert, look up and erase expiry times. *)
(*                                                                         *)
(* Commands and cycles run on one executor thread, so no command runs      *)
(* while pc # "idle".  The expiry time of a key is abstracted to whether   *)
(* it has passed.  The chain is read to its end although the callback      *)
(* erases entries of it: Destroy leaves the next pointer of the freed      *)
(* entry in place until the memory is used again, and nothing allocates    *)
(* before it is read.                                                      *)
(***************************************************************************)
EXTENDS HashTableOps, FiniteSetsExt

CONSTANTS
  Width,        \* bits of size_t (64 in the code)
  KeysPerLoop,  \* active_expire_keys_per_loop
  Threshold     \* active_expire_acceptable_stale_percent

ASSUME LoopAssumption == Width \in Nat \ {0} /\ KeysPerLoop \in Nat \ {0} /\ Threshold \in 0 .. 100

VARIABLES
  table,    \* expire_ht_
  stale,    \* the keys of it whose time has passed
  cursor,   \* bucket_index_
  pc,       \* where Cron is: "idle", "scan", "judge" or "rehash"
  loop,     \* the local variables of ActiveExpire
  why,      \* why the last cycle stopped
  pass,     \* since the cursor was last 0: the keys there all along, not seen yet
            \* (todo) or seen (done), and whether one was seen twice
  visited   \* the keys sampled in this cycle

scan == <<cursor, loop, why, visited>>
vars == <<table, stale, cursor, pc, loop, why, pass, visited>>

-----------------------------------------------------------------------------
(* The order in which buckets are visited *)

Bit(v, b) == (v \div 2^b) % 2

\* The bits of v in reverse order.
Rev(v) == MapThenSumSet(LAMBDA b : Bit(v, b) * 2^(Width - 1 - b), 0 .. (Width - 1))

Bug_VisitsEvenHalf(index, size) ==
  LET m == 2^(Max({i \in 0 .. (Width - 1) : Bit(size, i) = 1}) - 1)
  IN  Rev((Rev((index % m) + (2^Width - m)) + 1) % 2^Width)

Bug_ForgetsMask(index, size) == Rev((Rev(index) + 1) % 2^Width)

Bug_CountsUp(index, size) == (index + 1) % size

\* Adds one to the index read backwards: the bits above the mask are set, so
\* the carry runs through them and they end up cleared.
NextIndex(index, size) ==
  LET m == 2^Max({i \in 0 .. (Width - 1) : Bit(size, i) = 1})
  IN  Rev((Rev((index % m) + (2^Width - m)) + 1) % 2^Width)

-----------------------------------------------------------------------------
NoLoop == [max_samples |-> 0, sampled |-> 0, to_sample |-> 0, iter |-> 0, expired |-> 0]

NoPass == [todo |-> {}, done |-> {}, twice |-> FALSE]

Init ==
  /\ table = EmptyTable
  /\ stale = {}
  /\ cursor = 0
  /\ pc = "idle"
  /\ loop = NoLoop
  /\ why = "none"
  /\ pass = NoPass
  /\ visited = {}

-----------------------------------------------------------------------------
(* What commands do to the table, and time *)

FindKey(k) ==
  /\ pc = "idle"
  /\ table' = Lookup(table)
  /\ UNCHANGED <<stale, pc, pass, scan>>

\* A command gives k an expiry time in the future.
SetExpire(k) ==
  /\ pc = "idle"
  /\ table' = Create(table, k)
  /\ stale' = stale \ {k}
  /\ UNCHANGED <<pc, pass, scan>>

EraseKey(k) ==
  /\ pc = "idle"
  /\ table' = Remove(table, k)
  /\ stale' = stale \ {k}
  /\ pass' = [pass EXCEPT !.todo = @ \ {k}, !.done = @ \ {k}]
  /\ UNCHANGED <<pc, scan>>

TimePasses(k) ==
  /\ pc = "idle"
  /\ k \in KeysOf(table)
  /\ stale' = stale \cup {k}
  /\ UNCHANGED <<table, pc, pass, scan>>

-----------------------------------------------------------------------------
(* The cycle *)

\* The end of ActiveExpire.
Stop(reason) == pc' = "rehash" /\ why' = reason /\ loop' = NoLoop

\* The top of the outer loop.
StartIteration(max_samples, sampled) ==
  LET n == IF KeysPerLoop > table.entries THEN table.entries ELSE KeysPerLoop
  IN  IF n = 0
      THEN Stop("empty")
      ELSE /\ pc' = "scan"
           /\ loop' = [max_samples |-> max_samples, sampled |-> sampled, to_sample |-> n,
                       iter |-> 0, expired |-> 0]
           /\ UNCHANGED why

Bug_StartsOver ==
  /\ pc = "idle"
  /\ StartIteration(table.entries, 0)
  /\ cursor' = 0
  /\ UNCHANGED <<table, stale, pass, visited>>

\* Cron calls ActiveExpire.
StartCycle ==
  /\ pc = "idle"
  /\ StartIteration(table.entries, 0)
  /\ UNCHANGED <<table, stale, cursor, pass, visited>>

\* What the pass knows once the bucket of the cursor is visited.
Visit(bucket) ==
  LET p == IF cursor = 0 THEN [NoPass EXCEPT !.todo = KeysOf(table)] ELSE pass
  IN  [todo  |-> (p.todo \ bucket) \ stale,
       done  |-> (p.done \cup (p.todo \cap bucket)) \ (bucket \cap stale),
       twice |-> p.done \cap bucket # {}]

Bug_NoWrapExit ==
  /\ pc = "scan"
  /\ IF IsRehashing(table)
     THEN cursor' = 0 /\ pass' = NoPass /\ UNCHANGED <<table, stale, pc, loop, visited>>
     ELSE LET bucket == table.b0[cursor]
              dead   == bucket \cap stale
              seen   == loop.iter + Cardinality(bucket)
          IN  /\ cursor' = NextIndex(cursor, table.size0)
              /\ table' = [table EXCEPT !.b0[cursor] = @ \ dead, !.entries = @ - Cardinality(dead)]
              /\ stale' = stale \ dead
              /\ loop' = [loop EXCEPT !.iter = seen, !.expired = @ + Cardinality(dead)]
              /\ pass' = Visit(bucket)
              /\ visited' = visited \cup bucket
              /\ pc' = IF seen >= loop.to_sample THEN "judge" ELSE "scan"
  /\ UNCHANGED why

\* One call of TraverseBucket.  A table that is rehashing is not scanned and
\* the cursor starts over.
TraverseBucket ==
  /\ pc = "scan"
  /\ IF IsRehashing(table)
     THEN cursor' = 0 /\ pass' = NoPass /\ pc' = "judge" /\ UNCHANGED <<table, stale, loop, visited>>
     ELSE LET bucket == table.b0[cursor]
              dead   == bucket \cap stale
              seen   == loop.iter + Cardinality(bucket)
          IN  /\ cursor' = NextIndex(cursor, table.size0)
              /\ table' = [table EXCEPT !.b0[cursor] = @ \ dead, !.entries = @ - Cardinality(dead)]
              /\ stale' = stale \ dead
              /\ loop' = [loop EXCEPT !.iter = seen, !.expired = @ + Cardinality(dead)]
              /\ pass' = Visit(bucket)
              /\ visited' = visited \cup bucket
              /\ pc' = IF seen >= loop.to_sample \/ cursor' = 0 THEN "judge" ELSE "scan"
  /\ UNCHANGED why

Bug_CountsWhatIsLeft ==
  /\ pc = "judge"
  /\ LET sampled == loop.sampled + loop.iter
     IN  IF loop.iter = 0 THEN Stop("nothing sampled")
         ELSE IF loop.expired * 100 <= Threshold * loop.iter THEN Stop("rate")
         ELSE \/ Stop("time")
              \/ sampled = table.entries /\ Stop("max_samples")
              \/ sampled # table.entries /\ StartIteration(loop.max_samples, sampled)
  /\ UNCHANGED <<table, stale, cursor, pass, visited>>

\* The bottom of the outer loop; the time limit may have passed or not.
EndIteration ==
  /\ pc = "judge"
  /\ LET sampled == loop.sampled + loop.iter
     IN  IF loop.iter = 0 THEN Stop("nothing sampled")
         ELSE IF loop.expired * 100 <= Threshold * loop.iter THEN Stop("rate")
         ELSE \/ Stop("time")
              \/ sampled = loop.max_samples /\ Stop("max_samples")
              \/ sampled # loop.max_samples /\ StartIteration(loop.max_samples, sampled)
  /\ UNCHANGED <<table, stale, cursor, pass, visited>>

\* IncrementalRehashing ends the tick: rounds of RehashSome until the rehash
\* or its time is over.
RehashInCron ==
  /\ pc = "rehash"
  /\ IF IsRehashing(table) THEN table' = RehashSome(table, CronBuckets) ELSE UNCHANGED table
  /\ \/ pc' = "idle" /\ why' = "none" /\ visited' = {}
     \/ IsRehashing(table') /\ UNCHANGED <<pc, why, visited>>
  /\ UNCHANGED <<stale, cursor, loop, pass>>

Cycle == TraverseBucket \/ EndIteration \/ RehashInCron

Next ==
  \/ \E k \in Key : FindKey(k) \/ SetExpire(k) \/ EraseKey(k) \/ TimePasses(k)
  \/ StartCycle
  \/ Cycle

Spec == Init /\ [][Next]_vars

\* The cycle runs to its end once started, and Cron keeps starting it.
FairSpec == Spec /\ WF_vars(Cycle) /\ WF_vars(StartCycle)

-----------------------------------------------------------------------------
(* Properties *)

\* The cursor kept from tick to tick is a bucket of the table when the table is
\* next traversed, however it grew meanwhile (the assertion of TraverseBucket).
CursorInRange == pc = "scan" /\ ~IsRehashing(table) => cursor < table.size0

\* A scan that comes back to bucket 0 has visited every key that was in the
\* table all along, although the table grew and rehashed between two buckets.
ScanComplete == cursor = 0 => pass.todo = {}

\* Within such a scan no key is sampled twice, although growth moved it to
\* another bucket: the rate that decides whether a cycle goes on counts keys.
ScanNoRepeat == ~pass.twice

\* A cycle ends without the help of its time limit, although the number of keys
\* sampled may jump over the maximum it is compared with, and although a table
\* that is rehashing yields no key.
CycleEnds == pc = "scan" ~> pc = "idle"

\* A key whose time has passed is erased or given a new time, although a cycle
\* stops at the first unpromising iteration and a rehash restarts the scan.
StaleErased == \A k \in Key : k \in stale ~> k \notin stale

\* A cycle that stops because it sampled as many keys as the table had has
\* visited every key left in it.
MaxSamplesIsAll == why = "max_samples" => KeysOf(table) \subseteq visited
=============================================================================
