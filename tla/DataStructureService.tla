------------------------ MODULE DataStructureService ------------------------
(***************************************************************************)
(* The data structure service of src/service/data_structure_service.cc:    *)
(* a table of values and a table of expiry times, the string and key       *)
(* commands of src/service/commands, lazy and active expiration, eviction  *)
(* before write commands, and the time snapshot commands run at.           *)
(*                                                                         *)
(* Commands and Cron run on one executor thread, so each is one step.  A   *)
(* table is its map from keys to values (HashTable implements KeyTable).   *)
(* A command that changes both tables does so in the order of the code.    *)
(***************************************************************************)
EXTENDS StringOps, CommandTypes, FiniteSets

CONSTANTS
  Key,        \* keys
  LongKey,    \* the keys too long for the inline buffer of std::string
  Commands,   \* the commands clients send
  Second,     \* milliseconds in a second
  Maxmemory,  \* whether a memory limit is set
  Policy,     \* maxmemory_policy: "noeviction" or "allkeys"
  SetBack,    \* whether the system clock may be set back
  MaxTime,    \* bound on the clock
  MaxLen      \* bound on the length of a value

ASSUME ServiceAssumption ==
  /\ IsFiniteSet(Key) /\ LongKey \subseteq Key
  /\ Second \in Nat \ {0} /\ Maxmemory \in BOOLEAN /\ SetBack \in BOOLEAN
  /\ Policy \in {"noeviction", "allkeys"} /\ MaxTime \in Nat /\ MaxLen \in Nat

\* The commands that loop over their keys.
Several == {"MSET", "MSETNX", "MGET", "EXISTS", "DEL"}

\* The commands on one key.
Single == {"SET", "SETEX", "SETNX", "SETRANGE", "APPEND", "GET", "GETDEL", "GETEX",
           "GETSET", "GETRANGE", "STRLEN", "TTL"}

\* A command that passed the arity checks.
WellFormed(c) ==
  /\ c.op \in Several \cup Single \cup {"DBSIZE"}
  /\ c.keys \in Seq(Key)
  /\ c.op \in Single => Len(c.keys) = 1
  /\ c.mode \in {"regular", "NX", "XX", "conflict"}
  /\ c.get \in BOOLEAN /\ c.keep \in BOOLEAN /\ c.persist \in BOOLEAN
  /\ c.ttl \in Int /\ c.until \in Int /\ c.from \in Int /\ c.to \in Int

ASSUME CommandAssumption == \A c \in Commands : WellFormed(c)

VARIABLES
  db,      \* the two tables, see NoData
  now,     \* the system clock
  snap,    \* command_time_snapshot_
  reply,   \* the Result of the last command
  gone     \* the keys a reply reported missing or deleted, not written since

vars == <<db, now, snap, reply, gone>>

-----------------------------------------------------------------------------
(* The tables *)

\* data and expire map the keys that have an entry.  own: the keys whose two
\* entries hold the same key object.  lent: the keys whose value object a reply
\* may still hold.
Tables(data, expire, own, lent) ==
  [data |-> data, expire |-> expire, own |-> own, lent |-> lent]

NoData == Tables([k \in {} |-> <<>>], [k \in {} |-> 0], {}, {})

SetValue(d, k, v) == Tables(Put(d.data, k, v), d.expire, d.own, d.lent \ {k})

EraseData(d, k) == Tables(Drop(d.data, k), d.expire, d.own \ {k}, d.lent \ {k})

EraseExpire(d, k) == Tables(d.data, Drop(d.expire, k), d.own \ {k}, d.lent)

\* ExpireTable()->Upsert with a copy of the data entry's key pointer, in a build
\* without assertions: an entry that is there keeps its key object.
UpsertExpireShared(d, k, at) ==
  Tables(d.data, Put(d.expire, k, at), IF k \in DOMAIN d.expire THEN d.own ELSE d.own \cup {k}, d.lent)

\* ExpireTable()->Upsert with a string_view: a new entry has a key of its own.
UpsertExpire(d, k, at) == Tables(d.data, Put(d.expire, k, at), d.own, d.lent)

\* A reply shares the value object.
Lend(d, k) == Tables(d.data, d.expire, d.own, d.lent \cup {k})

\* The test of commands: the expiry time is at or before the snapshot.
Expired(d, k, t) == k \in DOMAIN d.expire /\ d.expire[k] <= t

Live(d, k, t) == k \in DOMAIN d.data /\ ~Expired(d, k, t)

Done(d, r) == [db |-> d, reply |-> r]

-----------------------------------------------------------------------------
(* The operations of the service *)

Bug_ForgetsToErase(d, k, t) ==
  IF k \in DOMAIN d.data /\ Expired(d, k, t) THEN EraseExpire(d, k) ELSE d

\* The tables after FindOrExpire; the key is found when it is still there.
FindOrExpire(d, k, t) ==
  IF k \in DOMAIN d.data /\ Expired(d, k, t) THEN EraseExpire(EraseData(d, k), k) ELSE d

Bug_LeavesExpire(d, k) == EraseData(d, k)

\* EraseKey.
EraseKey(d, k) == IF k \in DOMAIN d.data THEN EraseExpire(EraseData(d, k), k) ELSE d

\* SetData: the tables, the SetStatus and the old value it returns.
Status(d, status, old) == [db |-> d, status |-> status, old |-> old]

SetRegular(d, k, v, get, t) ==
  IF get
  THEN \* the outer exists stays false
       Status(SetValue(d, k, v), "inserted", IF Live(d, k, t) THEN Str(d.data[k]) ELSE Nil)
  ELSE Status(SetValue(d, k, v), IF k \in DOMAIN d.data THEN "updated" ELSE "inserted", Nil)

SetNX(d, k, v, t) ==
  IF k \notin DOMAIN d.data THEN Status(SetValue(d, k, v), "inserted", Nil)
  ELSE IF Expired(d, k, t) THEN Status(EraseExpire(SetValue(d, k, v), k), "inserted", Nil)
  ELSE Status(d, "noop", Nil)

SetXX(d, k, v, get, t) ==
  IF k \notin DOMAIN d.data THEN Status(d, "noop", Nil)
  ELSE IF Expired(d, k, t) THEN Status(EraseExpire(EraseData(d, k), k), "noop", Nil)
  ELSE Status(SetValue(d, k, v), "updated", IF get THEN Str(d.data[k]) ELSE Nil)

SetData(d, k, v, mode, get, t) ==
  CASE mode = "regular" -> SetRegular(d, k, v, get, t)
    [] mode = "NX"      -> SetNX(d, k, v, t)
    [] mode = "XX"      -> SetXX(d, k, v, get, t)

-----------------------------------------------------------------------------
(* The commands *)

Bug_KeepsTTL(d, c, t) ==
  LET k == c.keys[1]
      r == SetData(d, k, c.vals[1], c.mode, c.get, t)
      at == ExpireTime(c, t)
  IN  IF OptionError(c) # "none" THEN Done(d, Error(OptionError(c)))
      ELSE IF r.status = "noop" THEN Done(r.db, Nil)
      ELSE Done(IF at > 0 THEN UpsertExpireShared(r.db, k, at) ELSE r.db,
                IF c.get THEN r.old ELSE OK)

SetFunction(d, c, t) ==
  LET k == c.keys[1]
      r == SetData(d, k, c.vals[1], c.mode, c.get, t)
      at == ExpireTime(c, t)
  IN  IF OptionError(c) # "none" THEN Done(d, Error(OptionError(c)))
      ELSE IF r.status = "noop" THEN Done(r.db, Nil)
      ELSE Done(IF at > 0 THEN UpsertExpireShared(r.db, k, at)
                ELSE IF r.status = "updated" /\ ~c.keep THEN EraseExpire(r.db, k)
                ELSE r.db,
                IF c.get THEN r.old ELSE OK)

\* SETEX and PSETEX.
SetEXFunctionBase(d, c, t) ==
  LET k == c.keys[1]
  IN  IF c.ttl <= 0 THEN Done(d, Error("not an int"))
      ELSE Done(UpsertExpireShared(SetValue(d, k, c.vals[1]), k, t + c.ttl), OK)

SetNXFunction(d, c, t) ==
  LET r == SetData(d, c.keys[1], c.vals[1], "NX", FALSE, t)
  IN  Done(r.db, Num(IF r.status = "inserted" THEN 1 ELSE 0))

\* fresh: the value is created anew because use_count() was not 1.
SetRangeFunction(d, c, t, fresh) ==
  LET k == c.keys[1]
      d1 == IF k \in DOMAIN d.data /\ Expired(d, k, t) THEN EraseExpire(d, k) ELSE d
      s == IF ~Live(d, k, t) \/ fresh THEN SetRangeFresh(c.from, c.vals[1])
           ELSE SetRangeInPlace(d.data[k], c.from, c.vals[1])
  IN  Done(SetValue(d1, k, s), Num(Len(s)))

AppendFunction(d, c) ==
  LET k == c.keys[1]
      s == IF k \in DOMAIN d.data THEN d.data[k] \o c.vals[1] ELSE c.vals[1]
  IN  Done(SetValue(d, k, s), Num(Len(s)))

\* GetFunctionBase: the reply shares the value object.
GetFunctionBase(d, k, t) ==
  LET d1 == FindOrExpire(d, k, t)
  IN  IF k \in DOMAIN d1.data
      THEN Done(Lend(d1, k), Str(d1.data[k]))
      ELSE Done(d1, Nil)

\* dangling: the erase of the expiry entry reads the freed bytes of the key.
GetDelFunction(d, c, t, dangling) ==
  LET k == c.keys[1]
      r == GetFunctionBase(d, k, t)
  IN  IF r.reply = Nil THEN r
      ELSE Done(IF dangling THEN EraseData(r.db, k) ELSE EraseKey(r.db, k), r.reply)

GetEXFunction(d, c, t) ==
  LET k == c.keys[1]
      r == GetFunctionBase(d, k, t)
      at == ExpireTime(c, t)
  IN  IF OptionError(c) # "none" THEN Done(d, Error(OptionError(c)))
      ELSE IF r.reply = Nil THEN r
      ELSE Done(IF c.persist THEN EraseExpire(r.db, k)
                ELSE IF at > 0 THEN UpsertExpire(r.db, k, at) ELSE r.db,
                r.reply)

GetSetFunction(d, c, t) ==
  LET k == c.keys[1]
      r == SetData(d, k, c.vals[1], "regular", TRUE, t)
  IN  Done(IF r.old = Nil THEN r.db ELSE EraseExpire(r.db, k), r.old)

GetRangeFunction(d, c, t) ==
  LET k == c.keys[1]
      d1 == FindOrExpire(d, k, t)
  IN  Done(d1, Str(IF k \in DOMAIN d1.data THEN GetRange(d1.data[k], c.from, c.to) ELSE <<>>))

StrlenFunction(d, c, t) ==
  LET k == c.keys[1]
      d1 == FindOrExpire(d, k, t)
  IN  Done(d1, Num(IF k \in DOMAIN d1.data THEN Len(d1.data[k]) ELSE 0))

Bug_ReportsOnly(d, c, t) ==
  LET k == c.keys[1]
  IN  IF ~Live(d, k, t) THEN Done(d, Num(-2))
      ELSE Done(d, Num(IF k \in DOMAIN d.expire THEN (d.expire[k] - t) \div Second ELSE -1))

TtlFunction(d, c, t) ==
  LET k == c.keys[1]
  IN  IF k \notin DOMAIN d.data THEN Done(d, Num(-2))
      ELSE IF k \notin DOMAIN d.expire THEN Done(d, Num(-1))
      ELSE IF Expired(d, k, t) THEN Done(EraseExpire(EraseData(d, k), k), Num(-2))
      ELSE Done(d, Num((d.expire[k] - t) \div Second))

DbSizeFunction(d) == Done(d, Num(Cardinality(DOMAIN d.data)))

-----------------------------------------------------------------------------
(* The commands that name several keys: they treat one key after another,  *)
(* each on the tables and the reply that the keys before it left.          *)

MSetKey(c, t, acc, i) ==
  Done(EraseExpire(SetData(acc.db, c.keys[i], c.vals[i], "regular", FALSE, t).db, c.keys[i]), OK)

MSetNXKey(c, t, acc, i) ==
  LET r == SetData(acc.db, c.keys[i], c.vals[i], "NX", FALSE, t)
  IN  Done(r.db, IF r.status = "inserted" THEN Num(1) ELSE acc.reply)

MGetKey(c, t, acc, i) ==
  LET r == GetFunctionBase(acc.db, c.keys[i], t)
  IN  Done(r.db, List(Append(acc.reply.list, r.reply.strs)))

ExistsKey(c, t, acc, i) ==
  LET d1 == FindOrExpire(acc.db, c.keys[i], t)
  IN  Done(d1, Num(acc.reply.num + IF c.keys[i] \in DOMAIN d1.data THEN 1 ELSE 0))

DelKey(c, t, acc, i) ==
  LET d1 == FindOrExpire(acc.db, c.keys[i], t)
  IN  IF c.keys[i] \in DOMAIN d1.data
      THEN Done(EraseKey(d1, c.keys[i]), Num(acc.reply.num + 1))
      ELSE Done(d1, acc.reply)

\* The i-th key.
ForKey(c, t, acc, i) ==
  CASE c.op = "MSET"   -> MSetKey(c, t, acc, i)
    [] c.op = "MSETNX" -> MSetNXKey(c, t, acc, i)
    [] c.op = "MGET"   -> MGetKey(c, t, acc, i)
    [] c.op = "EXISTS" -> ExistsKey(c, t, acc, i)
    [] c.op = "DEL"    -> DelKey(c, t, acc, i)

\* The result after the first n keys, from the result start.
AfterKeys(c, t, start, n) ==
  LET after[i \in 0 .. n] == IF i = 0 THEN start ELSE ForKey(c, t, after[i - 1], i)
  IN  after[n]

ForEach(c, t, start) == AfterKeys(c, t, start, Len(c.keys))

MSetFunction(d, c, t) == ForEach(c, t, Done(d, OK))

MSetNXFunction(d, c, t) == ForEach(c, t, Done(d, Num(0)))

MGetFunction(d, c, t) == ForEach(c, t, Done(d, List(<<>>)))

ExistsFunction(d, c, t) == ForEach(c, t, Done(d, Num(0)))

DelFunction(d, c, t) == ForEach(c, t, Done(d, Num(0)))

-----------------------------------------------------------------------------
(* Invoke *)

\* The results a handler can have.  SETRANGE reads the use count of a value a
\* reply on another thread may be releasing.  GETDEL erases the expiry entry by
\* a view into the key it has just freed, unless the two entries share it: the
\* bytes of a long key may be overwritten by then.
Outcomes(d, c, t) ==
  CASE c.op = "SET"      -> {SetFunction(d, c, t)}
    [] c.op = "SETEX"    -> {SetEXFunctionBase(d, c, t)}
    [] c.op = "SETNX"    -> {SetNXFunction(d, c, t)}
    [] c.op = "MSET"     -> {MSetFunction(d, c, t)}
    [] c.op = "MSETNX"   -> {MSetNXFunction(d, c, t)}
    [] c.op = "SETRANGE" -> {SetRangeFunction(d, c, t, f) :
                               f \in {g \in BOOLEAN : g => c.keys[1] \in d.lent}}
    [] c.op = "APPEND"   -> {AppendFunction(d, c)}
    [] c.op = "GET"      -> {GetFunctionBase(d, c.keys[1], t)}
    [] c.op = "MGET"     -> {MGetFunction(d, c, t)}
    [] c.op = "GETDEL"   -> {GetDelFunction(d, c, t, f) :
                               f \in {g \in BOOLEAN : g => c.keys[1] \in LongKey \ d.own}}
    [] c.op = "GETEX"    -> {GetEXFunction(d, c, t)}
    [] c.op = "GETSET"   -> {GetSetFunction(d, c, t)}
    [] c.op = "GETRANGE" -> {GetRangeFunction(d, c, t)}
    [] c.op = "STRLEN"   -> {StrlenFunction(d, c, t)}
    [] c.op = "EXISTS"   -> {ExistsFunction(d, c, t)}
    [] c.op = "DEL"      -> {DelFunction(d, c, t)}
    [] c.op = "TTL"      -> {TtlFunction(d, c, t)}
    [] c.op = "DBSIZE"   -> {DbSizeFunction(d)}

\* Erases the keys of S from both tables.
EraseAll(d, S) ==
  Tables([k \in DOMAIN d.data \ S |-> d.data[k]], [k \in DOMAIN d.expire \ S |-> d.expire[k]],
         d.own \ S, d.lent \ S)

\* Evict frees keys until enough memory is free, or fails with none left.
Evictions(d) ==
  IF Policy = "noeviction" THEN {[db |-> d, ok |-> FALSE]}
  ELSE {[db |-> EraseAll(d, S), ok |-> TRUE] : S \in SUBSET DOMAIN d.data \ {{}}}
       \cup {[db |-> EraseAll(d, DOMAIN d.data), ok |-> FALSE]}

\* Memory may exceed the limit when a write command arrives.
Admissions(d, c) ==
  {[db |-> d, ok |-> TRUE]} \cup (IF Maxmemory /\ c.op \in WriteCommands THEN Evictions(d) ELSE {})

\* The commands that write no value.
Reads == {"GET", "MGET", "GETDEL", "GETEX", "GETRANGE", "STRLEN", "EXISTS", "TTL", "DEL"}

\* The kinds of reply of a command that does not act on its keys.
Refusals == {"OOM", "syntax", "not an int"}

\* The keys that the reply r to a read reports missing or deleted: those not
\* visible after it, but for a key whose value GETEX answers while it gives the
\* key a time that has passed.
Reported(c, d, r, t) ==
  IF c.op = "GETEX" /\ r # Nil THEN {} ELSE {k \in KeysOf(c) : ~Live(d, k, t)}

\* The assertion of Upsert with a key pointer fails: the expiry entry that is there
\* has another key object than the data entry.
KeyDiffers(d, k) == k \in DOMAIN d.expire \ d.own

\* SET and SETEX reach that Upsert with the tables that the value was set in.
UpsertFails(d, c, t) ==
  LET k == c.keys[1]
      r == SetData(d, k, c.vals[1], c.mode, c.get, t)
  IN  \/ c.op = "SETEX" /\ c.ttl > 0 /\ KeyDiffers(d, k)
      \/ /\ c.op = "SET" /\ OptionError(c) = "none" /\ ExpireTime(c, t) > 0
         /\ r.status # "noop" /\ KeyDiffers(r.db, k)

\* What a client sees of a process that aborted.
Aborted == Error("aborted")

Bounded(d) == \A k \in DOMAIN d.data : Len(d.data[k]) <= MaxLen

Invoke(c) ==
  /\ reply # Aborted
  /\ \E a \in Admissions(db, c) :
       \/ a.ok /\ \E r \in Outcomes(a.db, c, snap) : reply' = r.reply /\ Bounded(r.db) /\ db' = r.db
       \/ ~a.ok /\ reply' = Error("OOM") /\ db' = a.db
  /\ gone' = IF reply'.kind \in Refusals THEN gone
             ELSE IF c.op \in Reads
             THEN gone \cup Reported(c, db', reply', snap)
             ELSE gone \ KeysOf(c)
  /\ UNCHANGED <<now, snap>>

\* A build with assertions (CMakePresets.json: debug) ends where a release build
\* goes on.
Abort(c) ==
  /\ reply # Aborted
  /\ \E a \in Admissions(db, c) : a.ok /\ UpsertFails(a.db, c, snap)
  /\ reply' = Aborted
  /\ UNCHANGED <<db, now, snap, gone>>

-----------------------------------------------------------------------------
(* Time and Cron *)

TimePasses ==
  /\ now < MaxTime
  /\ now' = now + 1
  /\ UNCHANGED <<db, snap, reply, gone>>

ClockSetBack ==
  /\ SetBack
  /\ now > 0
  /\ now' = now - 1
  /\ UNCHANGED <<db, snap, reply, gone>>

\* A tick of Cron: UpdateCommandTime and, every so many ticks, ActiveExpire,
\* which reads the clock again and erases some of the keys whose time passed.
Cron ==
  /\ reply # Aborted
  /\ snap' = now
  /\ now' \in now .. Least(now + 1, MaxTime)
  /\ \E S \in SUBSET {k \in DOMAIN db.expire : db.expire[k] <= now'} : db' = EraseAll(db, S)
  /\ UNCHANGED <<reply, gone>>

Init ==
  /\ db = NoData
  /\ now \in 0 .. MaxTime
  /\ snap = 0
  /\ reply = Nil
  /\ gone = {}

Next ==
  \/ \E c \in Commands : Invoke(c) \/ Abort(c)
  \/ TimePasses
  \/ ClockSetBack
  \/ Cron

Spec == Init /\ [][Next]_vars

-----------------------------------------------------------------------------
(* Properties *)

\* Every expiry time belongs to a key that has a value: EraseKey and the other
\* erasures "Erases key in both data and expire table", so a key created later has
\* no time to live that nobody gave it.
ExpireHasData == DOMAIN db.expire \subseteq DOMAIN db.data

\* Nothing leaves an expiry time without a value but GETDEL of a long key whose
\* expiry entry GETEX created with a key object of its own: every other command,
\* expiration and eviction erase both entries or neither.
OnlyGetDelLeavesExpiry ==
  [][\A k \in DOMAIN db'.expire \ DOMAIN db'.data :
       \/ k \in DOMAIN db.expire \ DOMAIN db.data
       \/ /\ k \in LongKey \ db.own
          /\ \E c \in Commands : c.op = "GETDEL" /\ c.keys[1] = k /\ Invoke(c)]_vars

\* The commands that do what their documentation says.  SET GET forgets to
\* discard the expiry time and NX GET answers nil, SET KEEPTTL keeps a time that
\* has passed, GETRANGE cuts some ranges wrongly, and GETEX with a time creates the
\* expiry entry on which the assertion of Upsert fails and that GETDEL may leave.
Conforms(c) ==
  /\ c.op \in (Reads \ {"GETRANGE"}) \cup {"SET", "SETEX", "SETNX", "MSET"}
  /\ c.op = "SET" /\ c.mode = "regular" => ~c.keep /\ (c.get => c.ttl + c.until > 0)
  /\ c.op = "SET" /\ c.mode = "NX" => ~c.get
  /\ c.op = "GETEX" => c.ttl <= 0 /\ c.until <= 0

\* The service as its clients see it: the keys that have not expired.
View(d, t) ==
  [k \in {x \in DOMAIN d.data : ~Expired(d, x, t)} |->
     [val |-> d.data[k], at |-> IF k \in DOMAIN d.expire THEN d.expire[k] ELSE 0]]

\* The commands do what their documentation says on the keys that have not
\* expired, through lazy and active expiration and eviction, and no assertion
\* fails.
Promised == INSTANCE ExpiringStore WITH view <- View(db, snap), time <- snap
ImplementsExpiringStore == Promised!Spec

\* In every state any command can lead to, also those whose effect differs from
\* the documentation, a command that writes no value answers as documented and
\* leaves exactly the documented keys visible: nothing is lost before a reading
\* command, and before DEL only what eviction takes.  GETRANGE is apart, see
\* RangesAsDocumented.
ReadsAsDocumented ==
  [][\A c \in Commands : c.op \in Reads \ {"GETRANGE"} /\ Invoke(c) => Promised!Do(c)]_vars

\* GETRANGE cuts the documented range out of a string when its offsets name two
\* different bytes of it, or the first is past its end.  A range of one byte is
\* answered empty and one that ends past the string takes in a byte too many.
TwoBytes(c) ==
  LET s == db.data[c.keys[1]]
      end == TransformIndex(Len(s), c.to)
  IN  end # TransformIndex(Len(s), c.from) /\ end < Len(s)


\* A key that a client was told is missing or deleted stays so until it is
\* written again, although the system clock may be set back below its expiry
\* time.
GoneStaysGone == \A k \in gone : ~Live(db, k, snap)
=============================================================================
