---------------------------- MODULE ServiceProofs ---------------------------
(***************************************************************************)
(* Theorems about the data structure service, for any keys, values and     *)
(* commands.                                                               *)
(***************************************************************************)
EXTENDS DataStructureService, WellFoundedInduction, TLAPS

-----------------------------------------------------------------------------
(* Commands *)

\* What the result r of each command is.
LEMMA SetOutcomes ==
  ASSUME NEW d, NEW c, NEW t, NEW r \in Outcomes(d, c, t)
  PROVE  /\ c.op = "SET" => r = SetFunction(d, c, t)
         /\ c.op = "SETEX" => r = SetEXFunctionBase(d, c, t)
         /\ c.op = "SETNX" => r = SetNXFunction(d, c, t)
BY Zenon DEF Outcomes

\* What APPEND, GETSET and SETRANGE compute.
LEMMA ChangeOutcomes ==
  ASSUME NEW d, NEW c, NEW t, NEW r \in Outcomes(d, c, t)
  PROVE  /\ c.op = "APPEND" => r = AppendFunction(d, c)
         /\ c.op = "GETSET" => r = GetSetFunction(d, c, t)
         /\ c.op = "SETRANGE" => \E f : r = SetRangeFunction(d, c, t, f)
BY Zenon DEF Outcomes

\* What the commands of the GET family compute.
LEMMA GetOutcomes ==
  ASSUME NEW d, NEW c, NEW t, NEW r \in Outcomes(d, c, t)
  PROVE  /\ c.op = "GET" => r = GetFunctionBase(d, c.keys[1], t)
         /\ c.op = "GETEX" => r = GetEXFunction(d, c, t)
         /\ c.op = "GETDEL" =>
              \E f \in BOOLEAN : r = GetDelFunction(d, c, t, f) /\ (f => c.keys[1] \in LongKey \ d.own)
BY Zenon DEF Outcomes

\* What the commands that only look compute.
LEMMA LookOutcomes ==
  ASSUME NEW d, NEW c, NEW t, NEW r \in Outcomes(d, c, t)
  PROVE  /\ c.op = "GETRANGE" => r = GetRangeFunction(d, c, t)
         /\ c.op = "STRLEN" => r = StrlenFunction(d, c, t)
         /\ c.op = "TTL" => r = TtlFunction(d, c, t)
         /\ c.op = "DBSIZE" => r = DbSizeFunction(d)
BY Zenon DEF Outcomes

\* What the commands that loop over their keys compute.
LEMMA LoopOutcomes ==
  ASSUME NEW d, NEW c, NEW t, NEW r \in Outcomes(d, c, t)
  PROVE  /\ c.op = "MSET" => r = MSetFunction(d, c, t)
         /\ c.op = "MSETNX" => r = MSetNXFunction(d, c, t)
         /\ c.op = "MGET" => r = MGetFunction(d, c, t)
         /\ c.op = "EXISTS" => r = ExistsFunction(d, c, t)
         /\ c.op = "DEL" => r = DelFunction(d, c, t)
BY Zenon DEF Outcomes

\* A command on one key names exactly that key.
LEMMA OneKeyNamed ==
  ASSUME NEW c, WellFormed(c), c.op \in Single
  PROVE  KeysOf(c) = {c.keys[1]}
BY DEF WellFormed, KeysOf

-----------------------------------------------------------------------------
(* The loop over the keys starts with none and treats one at a time.  The    *)
(* function after is defined by recursion, so its existence and the        *)
(* agreement of the functions for n and n + 1 are shown by induction, as   *)
(* the absence of a least counterexample.                                  *)

IsAfter(f, c, t, start, n) ==
  f = [i \in 0 .. n |-> IF i = 0 THEN start ELSE ForKey(c, t, f[i - 1], i)]

\* Induction on the natural numbers: a set of numbers that has 0, and n + 1
\* with every n, has all of them.
LEMMA Inductive ==
  \A S : 0 \in S /\ (\A n \in Nat : n \in S => n + 1 \in S) => \A n \in Nat : n \in S
<1> SUFFICES ASSUME NEW S, 0 \in S, \A n \in Nat : n \in S => n + 1 \in S,
                    NEW m \in Nat, m \notin S
             PROVE  FALSE
  OBVIOUS
<1> DEFINE Bad == {n \in Nat : n \notin S}
<1>1. PICK n \in Bad : \A j \in Bad : ~(<<j, n>> \in OpToRel(<, Nat))
  <2>1. Bad \subseteq Nat /\ Bad # {}
    OBVIOUS
  <2> QED BY Zenon, <2>1, WFMin, NatLessThanWellFounded
<1>2. n - 1 \in Nat /\ n - 1 < n
  OBVIOUS
<1>3. <<n - 1, n>> \in OpToRel(<, Nat)
  BY <1>2, Zenon DEF OpToRel
<1>4. n - 1 \in S
  BY <1>1, <1>2, <1>3, Zenon
<1>5. n - 1 + 1 \in S /\ n - 1 + 1 = n
  BY <1>2, <1>4
<1> QED BY <1>5

\* The function of the first n results of the loop exists.
LEMMA AfterExists == \A c, t, start : \A n \in Nat : \E f : IsAfter(f, c, t, start, n)
<1> SUFFICES ASSUME NEW c, NEW t, NEW start
             PROVE  \A n \in Nat : \E f : IsAfter(f, c, t, start, n)
  OBVIOUS
<1> DEFINE S == {n \in Nat : \E f : IsAfter(f, c, t, start, n)}
<1>1. 0 \in S
  <2>1. IsAfter([i \in 0 .. 0 |-> start], c, t, start, 0)
    BY DEF IsAfter
  <2> QED BY <2>1
<1>2. ASSUME NEW n \in Nat, n \in S
      PROVE  n + 1 \in S
  <2>1. PICK f : IsAfter(f, c, t, start, n)
    BY <1>2
  <2> DEFINE g == [i \in 0 .. n + 1 |-> IF i = n + 1 THEN ForKey(c, t, f[n], n + 1) ELSE f[i]]
  <2>2. IsAfter(g, c, t, start, n + 1)
    BY <2>1 DEF IsAfter
  <2> QED BY <2>2
<1>3. \A n \in Nat : n \in S
  <2> HIDE DEF S
  <2> QED BY <1>1, <1>2, Inductive
<1> QED BY <1>3

\* The functions for m and n agree on the results they both have.
LEMMA AfterAgree ==
  ASSUME NEW c, NEW t, NEW start, NEW f, NEW g, NEW m \in Nat, NEW n \in Nat,
         IsAfter(f, c, t, start, m), IsAfter(g, c, t, start, n), m <= n
  PROVE  \A i \in 0 .. m : f[i] = g[i]
<1> DEFINE S == {i \in Nat : i <= m => f[i] = g[i]}
<1>1. 0 \in S
  BY DEF IsAfter
<1>2. ASSUME NEW i \in Nat, i \in S
      PROVE  i + 1 \in S
  <2> SUFFICES ASSUME i + 1 <= m
               PROVE  f[i + 1] = g[i + 1]
    OBVIOUS
  <2>1. f[i] = g[i]
    BY <1>2
  <2>2. f[i + 1] = ForKey(c, t, f[i], i + 1) /\ g[i + 1] = ForKey(c, t, g[i], i + 1)
    BY DEF IsAfter
  <2> QED BY <2>1, <2>2
<1>3. \A i \in Nat : i \in S
  BY Zenon, <1>1, <1>2, Inductive
<1> QED BY <1>3

\* AfterKeys is the last value of such a function.
LEMMA AfterIs ==
  \A c, t, start : \A n \in Nat :
    \E f : IsAfter(f, c, t, start, n) /\ AfterKeys(c, t, start, n) = f[n]
<1> SUFFICES ASSUME NEW c, NEW t, NEW start, NEW n \in Nat
             PROVE  \E f : IsAfter(f, c, t, start, n) /\ AfterKeys(c, t, start, n) = f[n]
  OBVIOUS
<1>1. \E f : IsAfter(f, c, t, start, n)
  BY AfterExists
<1>2. AfterKeys(c, t, start, n) = (CHOOSE f : IsAfter(f, c, t, start, n))[n]
  BY DEF AfterKeys, IsAfter
<1> QED BY Zenon, <1>1, <1>2

\* Before the first key the loop has its start value.
LEMMA NoKeys == \A c, t, start : AfterKeys(c, t, start, 0) = start
BY AfterIs DEF IsAfter

\* The loop over n + 1 keys is the loop over n keys and one more step.
LEMMA OneMoreKey ==
  \A c, t, start : \A n \in Nat :
    AfterKeys(c, t, start, n + 1) = ForKey(c, t, AfterKeys(c, t, start, n), n + 1)
<1> SUFFICES ASSUME NEW c, NEW t, NEW start, NEW n \in Nat
             PROVE  AfterKeys(c, t, start, n + 1) = ForKey(c, t, AfterKeys(c, t, start, n), n + 1)
  OBVIOUS
<1>1. PICK f : IsAfter(f, c, t, start, n) /\ AfterKeys(c, t, start, n) = f[n]
  BY AfterIs
<1>2. PICK g : IsAfter(g, c, t, start, n + 1) /\ AfterKeys(c, t, start, n + 1) = g[n + 1]
  BY AfterIs
<1>3. f[n] = g[n]
  BY <1>1, <1>2, AfterAgree
<1>4. g[n + 1] = ForKey(c, t, g[n], n + 1)
  BY <1>2 DEF IsAfter
<1> QED BY <1>1, <1>2, <1>3, <1>4

-----------------------------------------------------------------------------
(* Which keys a command may add, and which it must leave out *)

\* The expiry times without a value.
Stranded(d) == {k \in DOMAIN d.expire : k \notin DOMAIN d.data}

\* The one GETDEL may add: of a long key that its expiry entry does not share.
LeftBy(d, c) == {k \in LongKey \ d.own : c.op = "GETDEL" /\ c.keys[1] = k}

\* What a command may do to the domains of the tables.
Effect(d, c, t, r) ==
  /\ Stranded(r.db) \subseteq Stranded(d) \cup LeftBy(d, c)
  /\ DOMAIN r.db.data \subseteq DOMAIN d.data \cup KeysOf(c)
  /\ c.op \in Reads \/ r.reply.kind \in Refusals => DOMAIN r.db.data \subseteq DOMAIN d.data
  /\ c.op \in Reads /\ r.reply.kind \notin Refusals =>
       \A k \in Reported(c, r.db, r.reply, t) : k \notin DOMAIN r.db.data

\* The kinds of reply that are no refusal.
LEMMA Kinds ==
  /\ Nil.kind \notin Refusals /\ OK.kind \notin Refusals
  /\ \A n : Num(n).kind \notin Refusals
  /\ \A s : Str(s).kind \notin Refusals /\ Str(s) # Nil
  /\ \A l : List(l).kind \notin Refusals
BY DEF Refusals, Nil, OK, Num, Str, List, Reply

\* FindOrExpire leaves the other keys alone, and the key only if it is visible.
LEMMA FindOrExpireEffect ==
  ASSUME NEW d, NEW k, NEW t
  PROVE  LET e == FindOrExpire(d, k, t)
         IN  /\ Stranded(e) \subseteq Stranded(d)
             /\ DOMAIN e.data \subseteq DOMAIN d.data
             /\ k \in DOMAIN e.data => Live(e, k, t)
BY DEF FindOrExpire, EraseData, EraseExpire, Tables, Drop, Stranded, Live, Expired

\* So does GET, which answers nil exactly when the key is not visible.
LEMMA GetEffect ==
  ASSUME NEW d, NEW k, NEW t
  PROVE  LET r == GetFunctionBase(d, k, t)
         IN  /\ Stranded(r.db) \subseteq Stranded(d)
             /\ DOMAIN r.db.data \subseteq DOMAIN d.data
             /\ k \in DOMAIN r.db.data => Live(r.db, k, t)
             /\ r.reply = Nil => k \notin DOMAIN r.db.data
             /\ r.reply.kind \notin Refusals
<1> DEFINE e == FindOrExpire(d, k, t)
<1> HIDE DEF e
<1>1. /\ Stranded(e) \subseteq Stranded(d)
      /\ DOMAIN e.data \subseteq DOMAIN d.data
      /\ k \in DOMAIN e.data => Live(e, k, t)
  BY FindOrExpireEffect DEF e
<1>2. GetFunctionBase(d, k, t) = IF k \in DOMAIN e.data THEN Done(Lend(e, k), Str(e.data[k]))
                                 ELSE Done(e, Nil)
  BY DEF GetFunctionBase, e
<1>3. CASE k \in DOMAIN e.data
  BY <1>1, <1>2, <1>3, Kinds DEF Done, Lend, Tables, Stranded, Live, Expired
<1>4. CASE k \notin DOMAIN e.data
  BY <1>1, <1>2, <1>4, Kinds DEF Done
<1> QED BY <1>3, <1>4

\* The result r of SetData adds no key but k, and keeps both tables paired.
SetEffect(d, k, r) ==
  /\ Stranded(r.db) \subseteq Stranded(d)
  /\ DOMAIN r.db.data \subseteq DOMAIN d.data \cup {k}
  /\ r.status # "noop" => k \in DOMAIN r.db.data
  /\ r.old.kind \notin Refusals

\* SetData without NX and XX.
LEMMA SetRegularEffect ==
  ASSUME NEW d, NEW k, NEW v, NEW get, NEW t
  PROVE  SetEffect(d, k, SetRegular(d, k, v, get, t))
<1>1. \E status, old :
        /\ SetRegular(d, k, v, get, t) = Status(SetValue(d, k, v), status, old)
        /\ old = Nil \/ old = Str(d.data[k])
  BY Zenon DEF SetRegular
<1> QED BY <1>1, Kinds DEF SetEffect, SetValue, Status, Tables, Put, Stranded

\* SetData with NX.
LEMMA SetNXEffect ==
  ASSUME NEW d, NEW k, NEW v, NEW t
  PROVE  SetEffect(d, k, SetNX(d, k, v, t))
BY Kinds DEF SetEffect, SetNX, SetValue, EraseExpire, Status, Tables, Put, Drop, Stranded

\* SetData with XX.
LEMMA SetXXEffect ==
  ASSUME NEW d, NEW k, NEW v, NEW get, NEW t
  PROVE  SetEffect(d, k, SetXX(d, k, v, get, t))
<1>1. PICK old : /\ (IF get THEN Str(d.data[k]) ELSE Nil) = old
                 /\ old.kind \notin Refusals
  BY Kinds
<1>2. SetXX(d, k, v, get, t) =
        IF k \notin DOMAIN d.data THEN Status(d, "noop", Nil)
        ELSE IF Expired(d, k, t) THEN Status(EraseExpire(EraseData(d, k), k), "noop", Nil)
        ELSE Status(SetValue(d, k, v), "updated", old)
  BY <1>1, Zenon DEF SetXX
<1> QED BY <1>1, <1>2, Kinds
        DEF SetEffect, SetValue, EraseData, EraseExpire, Status, Tables, Put, Drop, Stranded

\* SET, SETEX and SETNX.
LEMMA SetCommandEffect ==
  ASSUME NEW d, NEW c, NEW t, WellFormed(c), c.op = "SET"
  PROVE  Effect(d, c, t, SetFunction(d, c, t))
<1> DEFINE k == c.keys[1]
           s == SetData(d, k, c.vals[1], c.mode, c.get, t)
           at == ExpireTime(c, t)
           e == IF at > 0 THEN UpsertExpireShared(s.db, k, at)
                ELSE IF s.status = "updated" /\ ~c.keep THEN EraseExpire(s.db, k)
                ELSE s.db
<1>1. KeysOf(c) = {k} /\ c.op \notin Reads
  BY OneKeyNamed DEF Single, Reads
<1>2. c.mode # "conflict" => SetEffect(d, k, s)
  <2>1. CASE c.mode = "regular"
    <3>1. s = SetRegular(d, k, c.vals[1], c.get, t)
      BY <2>1 DEF SetData
    <3> QED BY <3>1, SetRegularEffect
  <2>2. CASE c.mode = "NX"
    <3>1. s = SetNX(d, k, c.vals[1], t)
      BY <2>2 DEF SetData
    <3> QED BY <3>1, SetNXEffect
  <2>3. CASE c.mode = "XX"
    <3>1. s = SetXX(d, k, c.vals[1], c.get, t)
      BY <2>3 DEF SetData
    <3> QED BY <3>1, SetXXEffect
  <2> QED BY <2>1, <2>2, <2>3 DEF WellFormed
<1> HIDE DEF s, at
<1>6. c.mode = "conflict" => OptionError(c) # "none"
  BY DEF OptionError
<1>3. CASE OptionError(c) # "none"
  <2>1. SetFunction(d, c, t) = Done(d, Error(OptionError(c)))
    BY <1>3 DEF SetFunction
  <2> QED BY <1>1, <2>1 DEF Effect, Done
<1>4. CASE OptionError(c) = "none" /\ s.status = "noop"
  <2>1. SetFunction(d, c, t) = Done(s.db, Nil)
    BY <1>4 DEF SetFunction, s
  <2> QED BY <1>1, <1>2, <1>4, <1>6, <2>1, Kinds DEF Effect, SetEffect, Done
<1>5. CASE OptionError(c) = "none" /\ s.status # "noop"
  <2>1. SetFunction(d, c, t) = Done(e, IF c.get THEN s.old ELSE OK)
    BY <1>5 DEF SetFunction, s, at
  <2>2. e.data = s.db.data /\ Stranded(e) \subseteq Stranded(d)
    BY <1>2, <1>5, <1>6 DEF SetEffect, UpsertExpireShared, EraseExpire, Tables, Put, Drop, Stranded
  <2>3. (IF c.get THEN s.old ELSE OK).kind \notin Refusals
    BY <1>2, <1>5, <1>6, Kinds DEF SetEffect
  <2> HIDE DEF e
  <2> QED BY <1>1, <1>2, <1>5, <1>6, <2>1, <2>2, <2>3 DEF Effect, SetEffect, Done
<1> QED BY <1>3, <1>4, <1>5

\* SETEX, PSETEX.
LEMMA SetEXEffect ==
  ASSUME NEW d, NEW c, NEW t, WellFormed(c), c.op = "SETEX"
  PROVE  Effect(d, c, t, SetEXFunctionBase(d, c, t))
<1>1. KeysOf(c) = {c.keys[1]} /\ c.op \notin Reads
  BY OneKeyNamed DEF Single, Reads
<1> DEFINE e == UpsertExpireShared(SetValue(d, c.keys[1], c.vals[1]), c.keys[1], t + c.ttl)
<1>2. \/ \E x : SetEXFunctionBase(d, c, t) = Done(d, x)
      \/ SetEXFunctionBase(d, c, t) = Done(e, OK)
  BY Zenon DEF SetEXFunctionBase
<1>3. Stranded(e) \subseteq Stranded(d) /\ DOMAIN e.data = DOMAIN d.data \cup {c.keys[1]}
  BY Zenon DEF UpsertExpireShared, SetValue, Tables, Put, Stranded
<1> HIDE DEF e
<1>4. ASSUME NEW x, SetEXFunctionBase(d, c, t) = Done(d, x)
      PROVE  Effect(d, c, t, SetEXFunctionBase(d, c, t))
  BY <1>1, <1>4 DEF Done, Effect
<1>5. ASSUME SetEXFunctionBase(d, c, t) = Done(e, OK)
      PROVE  Effect(d, c, t, SetEXFunctionBase(d, c, t))
  BY <1>1, <1>3, <1>5, Kinds DEF Done, Effect
<1> QED BY <1>2, <1>4, <1>5

\* SETNX.
LEMMA SetNXCommandEffect ==
  ASSUME NEW d, NEW c, NEW t, WellFormed(c), c.op = "SETNX"
  PROVE  Effect(d, c, t, SetNXFunction(d, c, t))
<1> DEFINE s == SetNX(d, c.keys[1], c.vals[1], t)
<1>1. KeysOf(c) = {c.keys[1]} /\ c.op \notin Reads
  BY OneKeyNamed DEF Single, Reads
<1>2. SetEffect(d, c.keys[1], s)
  BY SetNXEffect
<1>3. SetData(d, c.keys[1], c.vals[1], "NX", FALSE, t) = s
  BY DEF SetData
<1> HIDE DEF s
<1>4. SetNXFunction(d, c, t) = Done(s.db, Num(IF s.status = "inserted" THEN 1 ELSE 0))
  BY Zenon, <1>3 DEF SetNXFunction
<1> QED BY <1>1, <1>2, <1>4, Kinds DEF Done, Effect, SetEffect

\* SETRANGE, APPEND and GETSET.
LEMMA ChangeEffect ==
  ASSUME NEW d, NEW c, NEW t, NEW f, WellFormed(c)
  PROVE  /\ c.op = "SETRANGE" => Effect(d, c, t, SetRangeFunction(d, c, t, f))
         /\ c.op = "APPEND" => Effect(d, c, t, AppendFunction(d, c))
         /\ c.op = "GETSET" => Effect(d, c, t, GetSetFunction(d, c, t))
<1> DEFINE k == c.keys[1]
<1>1. c.op \in {"SETRANGE", "APPEND", "GETSET"} => KeysOf(c) = {k} /\ c.op \notin Reads
  BY OneKeyNamed DEF Single, Reads
<1>2. ASSUME c.op = "SETRANGE"
      PROVE  Effect(d, c, t, SetRangeFunction(d, c, t, f))
  <2>1. \E e, x : /\ SetRangeFunction(d, c, t, f) = Done(SetValue(e, k, x), Num(Len(x)))
                  /\ e = d \/ e = EraseExpire(d, k)
    BY Zenon DEF SetRangeFunction
  <2> QED BY <1>1, <1>2, <2>1, Kinds DEF SetValue, EraseExpire, Tables, Put, Drop, Done, Effect, Stranded
<1>3. ASSUME c.op = "APPEND"
      PROVE  Effect(d, c, t, AppendFunction(d, c))
  <2>1. \E x : AppendFunction(d, c) = Done(SetValue(d, k, x), Num(Len(x)))
    BY Zenon DEF AppendFunction
  <2> QED BY <1>1, <1>3, <2>1, Kinds DEF SetValue, Tables, Put, Done, Effect, Stranded
<1>4. ASSUME c.op = "GETSET"
      PROVE  Effect(d, c, t, GetSetFunction(d, c, t))
  <2> DEFINE s == SetRegular(d, k, c.vals[1], TRUE, t)
  <2>1. SetEffect(d, k, s)
    BY Zenon, SetRegularEffect
  <2>2. SetData(d, k, c.vals[1], "regular", TRUE, t) = s
    BY DEF SetData
  <2>3. s.old # Nil => s.status # "noop"
    BY DEF SetRegular, Status
  <2> HIDE DEF s
  <2>4. GetSetFunction(d, c, t) = Done(IF s.old = Nil THEN s.db ELSE EraseExpire(s.db, k), s.old)
    BY Zenon, <2>2 DEF GetSetFunction
  <2> QED BY <1>1, <1>4, <2>1, <2>3, <2>4
          DEF SetEffect, EraseExpire, Tables, Drop, Done, Effect, Stranded
<1> QED BY <1>2, <1>3, <1>4

\* GET, GETDEL and GETEX.
LEMMA GetCommandEffect ==
  ASSUME NEW d, NEW c, NEW t, WellFormed(c), c.op = "GET"
  PROVE  Effect(d, c, t, GetFunctionBase(d, c.keys[1], t))
<1> DEFINE r == GetFunctionBase(d, c.keys[1], t)
<1>1. KeysOf(c) = {c.keys[1]}
  BY OneKeyNamed DEF Single
<1>2. /\ Stranded(r.db) \subseteq Stranded(d)
      /\ DOMAIN r.db.data \subseteq DOMAIN d.data
      /\ c.keys[1] \in DOMAIN r.db.data => Live(r.db, c.keys[1], t)
  BY GetEffect
<1> HIDE DEF r
<1>3. Effect(d, c, t, r)
  BY <1>1, <1>2 DEF Effect, Reported
<1> QED BY <1>3 DEF r

\* GETDEL, which may leave the expiry time of a long key.
LEMMA GetDelEffect ==
  ASSUME NEW d, NEW c, NEW t, NEW f \in BOOLEAN, WellFormed(c), c.op = "GETDEL",
         f => c.keys[1] \in LongKey \ d.own
  PROVE  Effect(d, c, t, GetDelFunction(d, c, t, f))
<1> DEFINE k == c.keys[1]
           g == GetFunctionBase(d, k, t)
<1>1. KeysOf(c) = {k}
  BY OneKeyNamed DEF Single
<1>2. /\ Stranded(g.db) \subseteq Stranded(d)
      /\ DOMAIN g.db.data \subseteq DOMAIN d.data
      /\ g.reply = Nil => k \notin DOMAIN g.db.data
  BY GetEffect
<1> HIDE DEF g
<1>3. CASE g.reply = Nil
  <2>1. GetDelFunction(d, c, t, f) = g
    BY Zenon, <1>3 DEF GetDelFunction, g
  <2> QED BY <1>1, <1>2, <1>3, <2>1 DEF Effect, Reported
<1>4. CASE g.reply # Nil
  <2>1. PICK e : /\ GetDelFunction(d, c, t, f) = Done(e, g.reply)
                 /\ f => e = EraseData(g.db, k)
                 /\ ~f => e = EraseKey(g.db, k)
    BY <1>4, Zenon DEF GetDelFunction, g
  <2>2. /\ DOMAIN e.data \subseteq DOMAIN d.data
        /\ k \notin DOMAIN e.data
        /\ Stranded(e) \subseteq Stranded(d) \cup LeftBy(d, c)
    BY <1>2, <2>1 DEF EraseData, EraseKey, EraseExpire, Tables, Drop, Stranded, LeftBy
  <2> QED BY <1>1, <2>1, <2>2 DEF Effect, Reported, Done
<1> QED BY <1>3, <1>4

\* GETEX with each of its options.
LEMMA GetEXEffect ==
  ASSUME NEW d, NEW c, NEW t, WellFormed(c), c.op = "GETEX"
  PROVE  Effect(d, c, t, GetEXFunction(d, c, t))
<1> DEFINE k == c.keys[1]
           g == GetFunctionBase(d, k, t)
           at == ExpireTime(c, t)
           e == IF c.persist THEN EraseExpire(g.db, k)
                ELSE IF at > 0 THEN UpsertExpire(g.db, k, at) ELSE g.db
<1>1. KeysOf(c) = {k}
  BY OneKeyNamed DEF Single
<1>2. /\ Stranded(g.db) \subseteq Stranded(d)
      /\ DOMAIN g.db.data \subseteq DOMAIN d.data
      /\ g.reply = Nil => k \notin DOMAIN g.db.data
      /\ g.reply # Nil => k \in DOMAIN g.db.data
  <2>1. g.reply # Nil => k \in DOMAIN g.db.data
    BY DEF GetFunctionBase, Lend, Tables, Done
  <2> QED BY Zenon, <2>1, GetEffect
<1> HIDE DEF g, at
<1>3. CASE OptionError(c) # "none"
  <2>1. PICK x : GetEXFunction(d, c, t) = Done(d, x) /\ x.kind \in Refusals
    <3>1. GetEXFunction(d, c, t) = Done(d, Error(OptionError(c)))
      BY <1>3 DEF GetEXFunction
    <3>2. OptionError(c) \in Refusals
      BY <1>3, Zenon DEF OptionError, Refusals
    <3> QED BY <3>1, <3>2 DEF Error, Reply
  <2> QED BY <2>1 DEF Effect, Done
<1>4. CASE OptionError(c) = "none" /\ g.reply = Nil
  <2>1. GetEXFunction(d, c, t) = g
    BY Zenon, <1>4 DEF GetEXFunction, g
  <2> QED BY <1>1, <1>2, <1>4, <2>1 DEF Effect, Reported
<1>5. CASE OptionError(c) = "none" /\ g.reply # Nil
  <2>1. GetEXFunction(d, c, t) = Done(e, g.reply)
    BY Zenon, <1>5 DEF GetEXFunction, g, at
  <2>2. e.data = g.db.data /\ Stranded(e) \subseteq Stranded(d)
    BY <1>2, <1>5 DEF UpsertExpire, EraseExpire, Tables, Put, Drop, Stranded
  <2> HIDE DEF e
  <2> QED BY <1>1, <1>2, <1>5, <2>1, <2>2 DEF Effect, Reported, Done
<1> QED BY <1>3, <1>4, <1>5

\* GETRANGE, STRLEN, TTL and DBSIZE.
LEMMA LookEffect ==
  ASSUME NEW d, NEW c, NEW t, WellFormed(c)
  PROVE  /\ c.op = "GETRANGE" => Effect(d, c, t, GetRangeFunction(d, c, t))
         /\ c.op = "STRLEN" => Effect(d, c, t, StrlenFunction(d, c, t))
         /\ c.op = "TTL" => Effect(d, c, t, TtlFunction(d, c, t))
         /\ c.op = "DBSIZE" => Effect(d, c, t, DbSizeFunction(d))
<1> DEFINE k == c.keys[1]
           e == FindOrExpire(d, k, t)
<1>1. c.op \in {"GETRANGE", "STRLEN", "TTL"} => KeysOf(c) = {k}
  BY OneKeyNamed DEF Single
<1>2. /\ Stranded(e) \subseteq Stranded(d)
      /\ DOMAIN e.data \subseteq DOMAIN d.data
      /\ k \in DOMAIN e.data => Live(e, k, t)
  BY FindOrExpireEffect
<1>3. (\E x : GetRangeFunction(d, c, t) = Done(e, x)) /\ (\E x : StrlenFunction(d, c, t) = Done(e, x))
  BY Zenon DEF GetRangeFunction, StrlenFunction
<1>4. \E x : TtlFunction(d, c, t) = Done(e, x)
  BY DEF TtlFunction, FindOrExpire, Expired
<1>5. \E x : DbSizeFunction(d) = Done(d, Num(x))
  BY Zenon DEF DbSizeFunction
<1> HIDE DEF e
<1>6. ASSUME NEW x, c.op \in {"GETRANGE", "STRLEN", "TTL"}
      PROVE  Effect(d, c, t, Done(e, x))
  BY <1>1, <1>2, <1>6 DEF Effect, Reported, Done
<1>7. ASSUME NEW x, c.op = "DBSIZE"
      PROVE  Effect(d, c, t, Done(d, Num(x)))
  BY <1>7 DEF Effect, Done, Reads
<1> QED BY <1>3, <1>4, <1>5, <1>6, <1>7

\* One key of a loop of reads: no key is added, and the key and the keys that
\* were visible are visible if they are left.
Looked(d, e, k, t) ==
  /\ Stranded(e) \subseteq Stranded(d)
  /\ DOMAIN e.data \subseteq DOMAIN d.data
  /\ \A x \in DOMAIN e.data : x = k \/ Live(d, x, t) => Live(e, x, t)

\* One key of a loop of writes.
Written(d, e, k) ==
  /\ Stranded(e) \subseteq Stranded(d)
  /\ DOMAIN e.data \subseteq DOMAIN d.data \cup {k}

\* A loop of reads over the keys of c leaves only visible keys of c.
LEMMA LookedAll ==
  ASSUME NEW c, NEW t, NEW a, c.keys \in Seq(Key),
         \A i \in 1 .. Len(c.keys) : Looked(a[i - 1], a[i], c.keys[i], t)
  PROVE  LET e == a[Len(c.keys)]
         IN  /\ Stranded(e) \subseteq Stranded(a[0])
             /\ DOMAIN e.data \subseteq DOMAIN a[0].data
             /\ \A k \in KeysOf(c) : k \in DOMAIN e.data => Live(e, k, t)
<1> DEFINE N == Len(c.keys)
           Good(n) == /\ Stranded(a[n]) \subseteq Stranded(a[0])
                      /\ DOMAIN a[n].data \subseteq DOMAIN a[0].data
                      /\ \A i \in 1 .. n : c.keys[i] \in DOMAIN a[n].data => Live(a[n], c.keys[i], t)
           S == {n \in Nat : n <= N => Good(n)}
<1>1. N \in Nat
  OBVIOUS
<1>2. 0 \in S
  OBVIOUS
<1>3. ASSUME NEW n \in Nat, n \in S
      PROVE  n + 1 \in S
  <2> SUFFICES ASSUME n + 1 <= N
               PROVE  Good(n + 1)
    OBVIOUS
  <2>1. Good(n)
    BY <1>1, <1>3
  <2>2. Looked(a[n], a[n + 1], c.keys[n + 1], t)
    <3>1. n + 1 \in 1 .. N /\ n + 1 - 1 = n
      BY <1>1
    <3> QED BY <3>1
  <2>3. ASSUME NEW i \in 1 .. n + 1, c.keys[i] \in DOMAIN a[n + 1].data
        PROVE  Live(a[n + 1], c.keys[i], t)
    <3>1. CASE i = n + 1
      BY <2>2, <2>3, <3>1 DEF Looked
    <3>2. CASE i # n + 1
      <4>1. i \in 1 .. n
        BY <3>2
      <4>2. c.keys[i] \in DOMAIN a[n].data
        BY <2>2, <2>3 DEF Looked
      <4> QED BY <2>1, <2>2, <2>3, <4>1, <4>2 DEF Looked
    <3> QED BY <3>1, <3>2
  <2> QED BY <2>1, <2>2, <2>3 DEF Looked
<1>4. \A n \in Nat : n \in S
  <2> HIDE DEF S
  <2> QED BY <1>2, <1>3, Inductive
<1>5. Good(N)
  BY <1>1, <1>4
<1> QED BY <1>5 DEF KeysOf

\* A loop of writes adds no key but those of c.
LEMMA WrittenAll ==
  ASSUME NEW c, NEW a, c.keys \in Seq(Key),
         \A i \in 1 .. Len(c.keys) : Written(a[i - 1], a[i], c.keys[i])
  PROVE  LET e == a[Len(c.keys)]
         IN  /\ Stranded(e) \subseteq Stranded(a[0])
             /\ DOMAIN e.data \subseteq DOMAIN a[0].data \cup KeysOf(c)
<1> DEFINE N == Len(c.keys)
           Good(n) == /\ Stranded(a[n]) \subseteq Stranded(a[0])
                      /\ DOMAIN a[n].data \subseteq DOMAIN a[0].data \cup KeysOf(c)
           S == {n \in Nat : n <= N => Good(n)}
<1>1. N \in Nat
  OBVIOUS
<1>2. 0 \in S
  OBVIOUS
<1>3. ASSUME NEW n \in Nat, n \in S
      PROVE  n + 1 \in S
  <2> SUFFICES ASSUME n + 1 <= N
               PROVE  Good(n + 1)
    OBVIOUS
  <2>1. Good(n)
    BY <1>1, <1>3
  <2>2. n + 1 \in 1 .. N /\ n + 1 - 1 = n
    BY <1>1
  <2>3. Written(a[n], a[n + 1], c.keys[n + 1]) /\ c.keys[n + 1] \in KeysOf(c)
    BY <2>2 DEF KeysOf
  <2> QED BY <2>1, <2>3 DEF Written
<1>4. \A n \in Nat : n \in S
  <2> HIDE DEF S
  <2> QED BY Zenon, <1>2, <1>3, Inductive
<1> QED BY <1>1, <1>4

\* One key of MGET, EXISTS and DEL.
LEMMA FindOrExpireLooks ==
  ASSUME NEW d, NEW k, NEW t
  PROVE  Looked(d, FindOrExpire(d, k, t), k, t)
BY Zenon DEF Looked, FindOrExpire, EraseData, EraseExpire, Tables, Drop, Stranded, Live, Expired

\* A round of MGET only looks its key up.
LEMMA MGetKeyLooks ==
  ASSUME NEW c, NEW t, NEW acc, NEW i
  PROVE  Looked(acc.db, MGetKey(c, t, acc, i).db, c.keys[i], t)
<1> DEFINE k == c.keys[i]
           e == FindOrExpire(acc.db, k, t)
<1>1. Looked(acc.db, e, k, t)
  BY Zenon, FindOrExpireLooks
<1>2. MGetKey(c, t, acc, i).db = e \/ MGetKey(c, t, acc, i).db = Lend(e, k)
  BY Zenon DEF MGetKey, GetFunctionBase, Done
<1> HIDE DEF e
<1> QED BY <1>1, <1>2 DEF Looked, Lend, Tables, Stranded, Live, Expired

\* A round of EXISTS only looks its key up.
LEMMA ExistsKeyLooks ==
  ASSUME NEW c, NEW t, NEW acc, NEW i
  PROVE  Looked(acc.db, ExistsKey(c, t, acc, i).db, c.keys[i], t)
BY FindOrExpireLooks DEF ExistsKey, Done

\* A round of DEL erases its key or finds it missing.
LEMMA DelKeyLooks ==
  ASSUME NEW c, NEW t, NEW acc, NEW i
  PROVE  Looked(acc.db, DelKey(c, t, acc, i).db, c.keys[i], t)
<1> DEFINE k == c.keys[i]
           e == FindOrExpire(acc.db, k, t)
<1>1. Looked(acc.db, e, k, t)
  BY FindOrExpireLooks
<1>2. DelKey(c, t, acc, i).db = e \/ DelKey(c, t, acc, i).db = EraseKey(e, k)
  BY Zenon DEF DelKey, Done
<1> HIDE DEF e
<1>3. Looked(acc.db, EraseKey(e, k), k, t)
  BY Zenon, <1>1 DEF Looked, EraseKey, EraseData, EraseExpire, Tables, Drop, Stranded, Live, Expired
<1> QED BY <1>1, <1>2, <1>3

\* One key of MSET and MSETNX.
LEMMA MSetKeyWrites ==
  ASSUME NEW c, NEW t, NEW acc, NEW i
  PROVE  Written(acc.db, MSetKey(c, t, acc, i).db, c.keys[i])
<1> DEFINE s == SetRegular(acc.db, c.keys[i], c.vals[i], FALSE, t)
<1>1. SetEffect(acc.db, c.keys[i], s) /\ c.keys[i] \in DOMAIN s.db.data
  <2>1. c.keys[i] \in DOMAIN s.db.data
    BY DEF SetRegular, Status, SetValue, Tables, Put
  <2> QED BY Zenon, <2>1, SetRegularEffect
<1>2. SetData(acc.db, c.keys[i], c.vals[i], "regular", FALSE, t) = s
  BY DEF SetData
<1> HIDE DEF s
<1>3. MSetKey(c, t, acc, i).db = EraseExpire(s.db, c.keys[i])
  BY Zenon, <1>2 DEF MSetKey, Done
<1> QED BY <1>1, <1>3 DEF Written, SetEffect, EraseExpire, Tables, Drop, Stranded

\* A round of MSETNX writes no key but its own.
LEMMA MSetNXKeyWrites ==
  ASSUME NEW c, NEW t, NEW acc, NEW i
  PROVE  Written(acc.db, MSetNXKey(c, t, acc, i).db, c.keys[i])
<1> DEFINE s == SetNX(acc.db, c.keys[i], c.vals[i], t)
<1>1. SetEffect(acc.db, c.keys[i], s)
  BY SetNXEffect
<1>2. SetData(acc.db, c.keys[i], c.vals[i], "NX", FALSE, t) = s
  BY DEF SetData
<1> HIDE DEF s
<1>3. MSetNXKey(c, t, acc, i).db = s.db
  BY Zenon, <1>2 DEF MSetNXKey, Done
<1> QED BY <1>1, <1>3 DEF Written, SetEffect

\* The commands that loop over their keys.
LEMMA MGetEffect ==
  ASSUME NEW d, NEW c, NEW t, WellFormed(c), c.op = "MGET"
  PROVE  Effect(d, c, t, MGetFunction(d, c, t))
<1> DEFINE After(n) == AfterKeys(c, t, Done(d, List(<<>>)), n)
           a == [n \in Nat |-> After(n).db]
<1>1. After(0) = Done(d, List(<<>>)) /\ \A n \in Nat : After(n + 1) = MGetKey(c, t, After(n), n + 1)
  <2>1. \A acc, i : ForKey(c, t, acc, i) = MGetKey(c, t, acc, i)
    BY Zenon DEF ForKey
  <2> QED BY <2>1, NoKeys, OneMoreKey
<1> HIDE DEF After
<1>2. ASSUME NEW i \in 1 .. Len(c.keys)
      PROVE  Looked(a[i - 1], a[i], c.keys[i], t)
  <2>1. i - 1 \in Nat /\ i - 1 + 1 = i /\ i \in Nat
    OBVIOUS
  <2>2. a[i] = MGetKey(c, t, After(i - 1), i).db /\ a[i - 1] = After(i - 1).db
    BY Zenon, <1>1, <2>1
  <2> QED BY <2>2, MGetKeyLooks
<1>3. /\ Stranded(a[Len(c.keys)]) \subseteq Stranded(a[0])
      /\ DOMAIN a[Len(c.keys)].data \subseteq DOMAIN a[0].data
      /\ \A k \in KeysOf(c) : k \in DOMAIN a[Len(c.keys)].data => Live(a[Len(c.keys)], k, t)
  <2>1. c.keys \in Seq(Key)
    BY DEF WellFormed
  <2> HIDE DEF a
  <2> QED BY Zenon, <1>2, <2>1, LookedAll
<1>4. Len(c.keys) \in Nat
  BY DEF WellFormed
<1>5. a[0] = d /\ a[Len(c.keys)] = After(Len(c.keys)).db
  BY <1>1, <1>4 DEF Done
<1>6. MGetFunction(d, c, t) = After(Len(c.keys))
  BY Zenon DEF MGetFunction, ForEach, After
<1> HIDE DEF a
<1> QED BY Zenon, <1>3, <1>5, <1>6 DEF Effect, Reported

\* EXISTS, by induction over its keys.
LEMMA ExistsEffect ==
  ASSUME NEW d, NEW c, NEW t, WellFormed(c), c.op = "EXISTS"
  PROVE  Effect(d, c, t, ExistsFunction(d, c, t))
<1> DEFINE After(n) == AfterKeys(c, t, Done(d, Num(0)), n)
           a == [n \in Nat |-> After(n).db]
<1>1. After(0) = Done(d, Num(0)) /\ \A n \in Nat : After(n + 1) = ExistsKey(c, t, After(n), n + 1)
  <2>1. \A acc, i : ForKey(c, t, acc, i) = ExistsKey(c, t, acc, i)
    BY Zenon DEF ForKey
  <2> QED BY <2>1, NoKeys, OneMoreKey
<1> HIDE DEF After
<1>2. ASSUME NEW i \in 1 .. Len(c.keys)
      PROVE  Looked(a[i - 1], a[i], c.keys[i], t)
  <2>1. i - 1 \in Nat /\ i - 1 + 1 = i /\ i \in Nat
    OBVIOUS
  <2>2. a[i] = ExistsKey(c, t, After(i - 1), i).db /\ a[i - 1] = After(i - 1).db
    BY Zenon, <1>1, <2>1
  <2> QED BY <2>2, ExistsKeyLooks
<1>3. /\ Stranded(a[Len(c.keys)]) \subseteq Stranded(a[0])
      /\ DOMAIN a[Len(c.keys)].data \subseteq DOMAIN a[0].data
      /\ \A k \in KeysOf(c) : k \in DOMAIN a[Len(c.keys)].data => Live(a[Len(c.keys)], k, t)
  <2>1. c.keys \in Seq(Key)
    BY DEF WellFormed
  <2> HIDE DEF a
  <2> QED BY Zenon, <1>2, <2>1, LookedAll
<1>4. Len(c.keys) \in Nat
  BY DEF WellFormed
<1>5. a[0] = d /\ a[Len(c.keys)] = After(Len(c.keys)).db
  BY <1>1, <1>4 DEF Done
<1>6. ExistsFunction(d, c, t) = After(Len(c.keys))
  BY Zenon DEF ExistsFunction, ForEach, After
<1> HIDE DEF a
<1> QED BY <1>3, <1>5, <1>6 DEF Effect, Reported

\* DEL, by induction over its keys.
LEMMA DelEffect ==
  ASSUME NEW d, NEW c, NEW t, WellFormed(c), c.op = "DEL"
  PROVE  Effect(d, c, t, DelFunction(d, c, t))
<1> DEFINE After(n) == AfterKeys(c, t, Done(d, Num(0)), n)
           a == [n \in Nat |-> After(n).db]
<1>1. After(0) = Done(d, Num(0)) /\ \A n \in Nat : After(n + 1) = DelKey(c, t, After(n), n + 1)
  <2>1. \A acc, i : ForKey(c, t, acc, i) = DelKey(c, t, acc, i)
    BY Zenon DEF ForKey
  <2> QED BY <2>1, NoKeys, OneMoreKey
<1> HIDE DEF After
<1>2. ASSUME NEW i \in 1 .. Len(c.keys)
      PROVE  Looked(a[i - 1], a[i], c.keys[i], t)
  <2>1. i - 1 \in Nat /\ i - 1 + 1 = i /\ i \in Nat
    OBVIOUS
  <2>2. a[i] = DelKey(c, t, After(i - 1), i).db /\ a[i - 1] = After(i - 1).db
    BY Zenon, <1>1, <2>1
  <2> QED BY <2>2, DelKeyLooks
<1>3. /\ Stranded(a[Len(c.keys)]) \subseteq Stranded(a[0])
      /\ DOMAIN a[Len(c.keys)].data \subseteq DOMAIN a[0].data
      /\ \A k \in KeysOf(c) : k \in DOMAIN a[Len(c.keys)].data => Live(a[Len(c.keys)], k, t)
  <2>1. c.keys \in Seq(Key)
    BY DEF WellFormed
  <2> HIDE DEF a
  <2> QED BY Zenon, <1>2, <2>1, LookedAll
<1>4. Len(c.keys) \in Nat
  BY DEF WellFormed
<1>5. a[0] = d /\ a[Len(c.keys)] = After(Len(c.keys)).db
  BY <1>1, <1>4 DEF Done
<1>6. DelFunction(d, c, t) = After(Len(c.keys))
  BY Zenon DEF DelFunction, ForEach, After
<1> HIDE DEF a
<1> QED BY <1>3, <1>5, <1>6 DEF Effect, Reported

\* MSET, by induction over its keys.
LEMMA MSetEffect ==
  ASSUME NEW d, NEW c, NEW t, WellFormed(c), c.op = "MSET"
  PROVE  Effect(d, c, t, MSetFunction(d, c, t))
<1> DEFINE After(n) == AfterKeys(c, t, Done(d, OK), n)
           a == [n \in Nat |-> After(n).db]
<1>1. After(0) = Done(d, OK) /\ \A n \in Nat : After(n + 1) = MSetKey(c, t, After(n), n + 1)
  <2>1. \A acc, i : ForKey(c, t, acc, i) = MSetKey(c, t, acc, i)
    BY Zenon DEF ForKey
  <2> QED BY <2>1, NoKeys, OneMoreKey
<1> HIDE DEF After
<1>2. ASSUME NEW i \in 1 .. Len(c.keys)
      PROVE  Written(a[i - 1], a[i], c.keys[i])
  <2>1. i - 1 \in Nat /\ i - 1 + 1 = i /\ i \in Nat
    OBVIOUS
  <2>2. a[i] = MSetKey(c, t, After(i - 1), i).db /\ a[i - 1] = After(i - 1).db
    BY Zenon, <1>1, <2>1
  <2> QED BY <2>2, MSetKeyWrites
<1>3. /\ Stranded(a[Len(c.keys)]) \subseteq Stranded(a[0])
      /\ DOMAIN a[Len(c.keys)].data \subseteq DOMAIN a[0].data \cup KeysOf(c)
  <2>1. c.keys \in Seq(Key)
    BY DEF WellFormed
  <2> HIDE DEF a
  <2> QED BY Zenon, <1>2, <2>1, WrittenAll
<1>4. Len(c.keys) \in Nat
  BY DEF WellFormed
<1>5. a[0] = d /\ a[Len(c.keys)] = After(Len(c.keys)).db
  BY <1>1, <1>4 DEF Done
<1>6. MSetFunction(d, c, t) = After(Len(c.keys))
  BY DEF MSetFunction, ForEach, After
<1>7. After(Len(c.keys)).reply.kind \notin Refusals
  <2> DEFINE S == {n \in Nat : After(n).reply.kind \notin Refusals}
  <2>1. 0 \in S
    BY <1>1, Kinds DEF Done
  <2>2. ASSUME NEW n \in Nat, n \in S
        PROVE  n + 1 \in S
    <3>1. After(n + 1) = MSetKey(c, t, After(n), n + 1)
      BY <1>1
    <3>2. After(n + 1).reply = OK
      BY <3>1 DEF MSetKey, Done
    <3>3. After(n + 1).reply.kind \notin Refusals
      BY <2>2, <3>2, Kinds
    <3> QED BY <3>3
  <2>3. \A n \in Nat : n \in S
    <3> HIDE DEF S
    <3> QED BY Zenon, <2>1, <2>2, Inductive
  <2> QED BY <1>4, <2>3
<1> HIDE DEF a
<1> QED BY <1>3, <1>5, <1>6, <1>7 DEF Effect, Reads

\* MSETNX, by induction over its keys.
LEMMA MSetNXEffect ==
  ASSUME NEW d, NEW c, NEW t, WellFormed(c), c.op = "MSETNX"
  PROVE  Effect(d, c, t, MSetNXFunction(d, c, t))
<1> DEFINE After(n) == AfterKeys(c, t, Done(d, Num(0)), n)
           a == [n \in Nat |-> After(n).db]
<1>1. After(0) = Done(d, Num(0)) /\ \A n \in Nat : After(n + 1) = MSetNXKey(c, t, After(n), n + 1)
  <2>1. \A acc, i : ForKey(c, t, acc, i) = MSetNXKey(c, t, acc, i)
    BY Zenon DEF ForKey
  <2> QED BY <2>1, NoKeys, OneMoreKey
<1> HIDE DEF After
<1>2. ASSUME NEW i \in 1 .. Len(c.keys)
      PROVE  Written(a[i - 1], a[i], c.keys[i])
  <2>1. i - 1 \in Nat /\ i - 1 + 1 = i /\ i \in Nat
    OBVIOUS
  <2>2. a[i] = MSetNXKey(c, t, After(i - 1), i).db /\ a[i - 1] = After(i - 1).db
    BY Zenon, <1>1, <2>1
  <2> QED BY <2>2, MSetNXKeyWrites
<1>3. /\ Stranded(a[Len(c.keys)]) \subseteq Stranded(a[0])
      /\ DOMAIN a[Len(c.keys)].data \subseteq DOMAIN a[0].data \cup KeysOf(c)
  <2>1. c.keys \in Seq(Key)
    BY DEF WellFormed
  <2> HIDE DEF a
  <2> QED BY Zenon, <1>2, <2>1, WrittenAll
<1>4. Len(c.keys) \in Nat
  BY DEF WellFormed
<1>5. a[0] = d /\ a[Len(c.keys)] = After(Len(c.keys)).db
  BY <1>1, <1>4 DEF Done
<1>6. MSetNXFunction(d, c, t) = After(Len(c.keys))
  BY DEF MSetNXFunction, ForEach, After
<1>7. After(Len(c.keys)).reply.kind \notin Refusals
  <2> DEFINE S == {n \in Nat : After(n).reply.kind \notin Refusals}
  <2>1. 0 \in S
    BY <1>1, Kinds DEF Done
  <2>2. ASSUME NEW n \in Nat, n \in S
        PROVE  n + 1 \in S
    <3>1. After(n + 1) = MSetNXKey(c, t, After(n), n + 1)
      BY <1>1
    <3>2. After(n + 1).reply = Num(1) \/ After(n + 1).reply = After(n).reply
      <4>1. \E e, x : /\ MSetNXKey(c, t, After(n), n + 1) = Done(e, x)
                      /\ x = Num(1) \/ x = After(n).reply
        BY Zenon DEF MSetNXKey
      <4> QED BY <3>1, <4>1 DEF Done
    <3>3. After(n + 1).reply.kind \notin Refusals
      BY <2>2, <3>2, Kinds
    <3> QED BY <3>3
  <2>3. \A n \in Nat : n \in S
    <3> HIDE DEF S
    <3> QED BY Zenon, <2>1, <2>2, Inductive
  <2> QED BY <1>4, <2>3
<1> HIDE DEF a
<1> QED BY <1>3, <1>5, <1>6, <1>7 DEF Effect, Reads

\* Every command has the effect described.
LEMMA CommandEffect ==
  ASSUME NEW d, NEW c, NEW t, NEW r \in Outcomes(d, c, t), WellFormed(c)
  PROVE  Effect(d, c, t, r)
<1>1. CASE c.op = "SET"
  BY <1>1, SetOutcomes, SetCommandEffect
<1>2. CASE c.op = "SETEX"
  BY <1>2, SetOutcomes, SetEXEffect
<1>3. CASE c.op = "SETNX"
  BY <1>3, SetOutcomes, SetNXCommandEffect
<1>4. CASE c.op = "SETRANGE"
  BY <1>4, ChangeOutcomes, ChangeEffect
<1>5. CASE c.op = "APPEND"
  BY <1>5, ChangeOutcomes, ChangeEffect
<1>6. CASE c.op = "GETSET"
  BY <1>6, ChangeOutcomes, ChangeEffect
<1>7. CASE c.op = "GET"
  BY <1>7, GetOutcomes, GetCommandEffect
<1>8. CASE c.op = "GETDEL"
  BY <1>8, GetOutcomes, GetDelEffect
<1>9. CASE c.op = "GETEX"
  BY <1>9, GetOutcomes, GetEXEffect
<1>10. CASE c.op \in {"GETRANGE", "STRLEN", "TTL", "DBSIZE"}
  BY <1>10, LookOutcomes, LookEffect
<1>11. CASE c.op = "MSET"
  BY <1>11, LoopOutcomes, MSetEffect
<1>12. CASE c.op = "MSETNX"
  BY <1>12, LoopOutcomes, MSetNXEffect
<1>13. CASE c.op = "MGET"
  BY <1>13, LoopOutcomes, MGetEffect
<1>14. CASE c.op = "EXISTS"
  BY <1>14, LoopOutcomes, ExistsEffect
<1>15. CASE c.op = "DEL"
  BY <1>15, LoopOutcomes, DelEffect
<1> QED BY Zenon, <1>1, <1>2, <1>3, <1>4, <1>5, <1>6, <1>7, <1>8,
           <1>9, <1>10, <1>11, <1>12, <1>13, <1>14, <1>15
        DEF WellFormed, Several, Single

\* Eviction and active expiration erase keys from both tables.
LEMMA EraseAllEffect ==
  ASSUME NEW d, NEW S
  PROVE  /\ Stranded(EraseAll(d, S)) \subseteq Stranded(d)
         /\ DOMAIN EraseAll(d, S).data \subseteq DOMAIN d.data
BY DEF EraseAll, Tables, Stranded

\* Eviction before a command keeps the tables in step and writes no key.
LEMMA AdmissionEffect ==
  ASSUME NEW d, NEW c, NEW a \in Admissions(d, c)
  PROVE  /\ Stranded(a.db) \subseteq Stranded(d)
         /\ DOMAIN a.db.data \subseteq DOMAIN d.data
         /\ c.op = "GETDEL" => a.db = d
<1>1. a.db = d \/ \E S : a.db = EraseAll(d, S)
  BY DEF Admissions, Evictions
<1>2. c.op = "GETDEL" => a.db = d
  BY DEF Admissions, WriteCommands
<1> QED BY <1>1, <1>2, EraseAllEffect

-----------------------------------------------------------------------------
(* The properties *)

\* A command leaves no other expiry time without a value than the one of its key,
\* if GETDEL may leave that.
LEMMA InvokeStranded ==
  ASSUME NEW c \in Commands, Invoke(c)
  PROVE  Stranded(db') \subseteq Stranded(db) \cup LeftBy(db, c)
<1>1. WellFormed(c)
  BY Zenon, CommandAssumption
<1>2. PICK a \in Admissions(db, c) :
        \/ \E r \in Outcomes(a.db, c, snap) : db' = r.db
        \/ db' = a.db
  BY Zenon DEF Invoke
<1>3. Stranded(a.db) \subseteq Stranded(db) /\ (c.op = "GETDEL" => a.db = db)
  BY Zenon, AdmissionEffect
<1>4. ASSUME NEW r \in Outcomes(a.db, c, snap)
      PROVE  Stranded(r.db) \subseteq Stranded(db) \cup LeftBy(db, c)
  <2>1. Stranded(r.db) \subseteq Stranded(a.db) \cup LeftBy(a.db, c)
    BY Zenon, <1>1, CommandEffect DEF Effect
  <2>2. LeftBy(a.db, c) \subseteq LeftBy(db, c)
    BY Zenon, <1>3 DEF LeftBy
  <2> QED BY Zenon, <1>3, <2>1, <2>2
<1>5. CASE \E r \in Outcomes(a.db, c, snap) : db' = r.db
  BY Zenon, <1>4, <1>5
<1>6. CASE db' = a.db
  BY Zenon, <1>3, <1>6
<1> QED BY Zenon, <1>2, <1>5, <1>6

\* Every step leaves no expiry time without a value, but GETDEL.
LEMMA StepStranded ==
  ASSUME [Next]_vars, NEW k \in Stranded(db'), k \notin Stranded(db)
  PROVE  \E c \in Commands : Invoke(c) /\ k \in LeftBy(db, c)
<1>1. ASSUME NEW c \in Commands, Invoke(c)
      PROVE  k \in LeftBy(db, c)
  BY Zenon, <1>1, InvokeStranded
<1>2. CASE Cron
  <2>1. PICK S : db' = EraseAll(db, S)
    BY Zenon, <1>2 DEF Cron
  <2> QED BY Zenon, <2>1, EraseAllEffect
<1>3. CASE UNCHANGED db
  BY Zenon, <1>3 DEF Stranded
<1> QED BY Zenon, <1>1, <1>2, <1>3 DEF Next, Abort, TimePasses, ClockSetBack, vars

\* Whatever erases, evicts or replaces a key takes its expiry time with it, but
\* GETDEL of a long key whose expiry entry has a key object of its own.
THEOREM OnlyGetDelCorrect == Spec => OnlyGetDelLeavesExpiry
<1>1. ASSUME [Next]_vars, NEW k \in DOMAIN db'.expire \ DOMAIN db'.data
      PROVE  \/ k \in DOMAIN db.expire \ DOMAIN db.data
             \/ /\ k \in LongKey \ db.own
                /\ \E c \in Commands : c.op = "GETDEL" /\ c.keys[1] = k /\ Invoke(c)
  <2>1. k \in Stranded(db') /\ (k \notin Stranded(db) => k \notin DOMAIN db.expire \ DOMAIN db.data)
    BY Zenon, <1>1 DEF Stranded
  <2>2. ASSUME k \notin Stranded(db)
        PROVE  \E c \in Commands : Invoke(c) /\ k \in LeftBy(db, c)
    BY Zenon, <1>1, <2>1, <2>2, StepStranded
  <2>3. k \in Stranded(db) => k \in DOMAIN db.expire \ DOMAIN db.data
    BY Zenon DEF Stranded
  <2> QED BY Zenon, <2>2, <2>3 DEF LeftBy
<1>2. [Next]_vars => [\A k \in DOMAIN db'.expire \ DOMAIN db'.data :
                       \/ k \in DOMAIN db.expire \ DOMAIN db.data
                       \/ /\ k \in LongKey \ db.own
                          /\ \E c \in Commands : c.op = "GETDEL" /\ c.keys[1] = k /\ Invoke(c)]_vars
  BY Zenon, <1>1
<1> QED BY <1>2, PTL DEF Spec, OnlyGetDelLeavesExpiry

\* GETDEL of a short key: the bytes its erase of the expiry entry reads are
\* still those of the key.
ShortGetDel == \A c \in Commands : c.op = "GETDEL" => c.keys[1] \notin LongKey

\* As long as the keys that GETDEL names are short, no expiry time outlives the
\* value of its key: not when commands, lazy or active expiration or eviction
\* erase the key.
THEOREM ExpireCorrect ==
  ASSUME ShortGetDel
  PROVE  Spec => []ExpireHasData
<1>1. Init => ExpireHasData
  BY DEF Init, NoData, Tables, ExpireHasData
<1>2. ExpireHasData /\ [Next]_vars => ExpireHasData'
  <2> SUFFICES ASSUME ExpireHasData, [Next]_vars, NEW k \in DOMAIN db'.expire, k \notin DOMAIN db'.data
               PROVE  FALSE
    BY Zenon DEF ExpireHasData
  <2>1. k \in Stranded(db') /\ k \notin Stranded(db)
    BY Zenon DEF Stranded, ExpireHasData
  <2>2. PICK c \in Commands : k \in LeftBy(db, c)
    BY Zenon, <2>1, StepStranded
  <2> QED BY Zenon, <2>2 DEF LeftBy, ShortGetDel
<1> QED BY <1>1, <1>2, PTL DEF Spec

\* The key reported missing is not merely expired but erased: no clock setting
\* can bring it back.
Erased == \A k \in gone : k \notin DOMAIN db.data

\* A command leaves no data for the keys that are reported gone.
LEMMA InvokeErased ==
  ASSUME NEW c \in Commands, Invoke(c), Erased
  PROVE  Erased'
<1>1. WellFormed(c)
  BY Zenon, CommandAssumption
<1>2. PICK a \in Admissions(db, c) :
        \/ a.ok /\ \E r \in Outcomes(a.db, c, snap) : db' = r.db /\ reply' = r.reply
        \/ db' = a.db /\ reply' = Error("OOM")
  BY Zenon DEF Invoke
<1>3. DOMAIN a.db.data \subseteq DOMAIN db.data
  BY Zenon, AdmissionEffect
<1>4. gone' = IF reply'.kind \in Refusals THEN gone
              ELSE IF c.op \in Reads THEN gone \cup Reported(c, db', reply', snap)
              ELSE gone \ KeysOf(c)
  BY Zenon DEF Invoke
<1>5. ASSUME NEW r \in Outcomes(a.db, c, snap), db' = r.db, reply' = r.reply
      PROVE  Erased'
  <2>1. Effect(a.db, c, snap, r)
    BY Zenon, <1>1, CommandEffect
  <2>2. CASE reply'.kind \in Refusals
    BY Zenon, <1>3, <1>4, <1>5, <2>1, <2>2 DEF Effect, Erased
  <2>3. CASE reply'.kind \notin Refusals /\ c.op \in Reads
    BY Zenon, <1>3, <1>4, <1>5, <2>1, <2>3 DEF Effect, Erased
  <2>4. CASE reply'.kind \notin Refusals /\ c.op \notin Reads
    BY Zenon, <1>3, <1>4, <1>5, <2>1, <2>4 DEF Effect, Erased
  <2> QED BY <2>2, <2>3, <2>4
<1>6. ASSUME db' = a.db, reply' = Error("OOM")
      PROVE  Erased'
  <2>1. reply'.kind \in Refusals
    BY <1>6, Zenon DEF Error, Reply, Refusals
  <2> QED BY <1>3, <1>4, <1>6, <2>1 DEF Erased
<1> QED BY <1>2, <1>5, <1>6

\* A key a client was told is missing or deleted stays so until it is written,
\* also when the clock is set back.
THEOREM GoneCorrect == Spec => []GoneStaysGone
<1>1. Init => Erased
  BY DEF Init, Erased
<1>2. Erased /\ [Next]_vars => Erased'
  <2> SUFFICES ASSUME Erased, [Next]_vars
               PROVE  Erased'
    OBVIOUS
  <2>1. ASSUME NEW c \in Commands, Invoke(c)
        PROVE  Erased'
    BY <2>1, InvokeErased
  <2>2. CASE Cron
    BY <2>2, EraseAllEffect DEF Cron, Erased
  <2>3. CASE UNCHANGED <<db, gone>>
    BY <2>3 DEF Erased
  <2> QED BY Zenon, <2>1, <2>2, <2>3 DEF Next, Abort, TimePasses, ClockSetBack, vars
<1>3. Erased => GoneStaysGone
  BY DEF Erased, GoneStaysGone, Live
<1> QED BY <1>1, <1>2, <1>3, PTL DEF Spec
=============================================================================
