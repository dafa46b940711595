-------------------------- MODULE ServiceRefinement -------------------------
(***************************************************************************)
(* The data structure service implements ExpiringStore: seen through the   *)
(* keys that have not expired, the commands that conform do what their     *)
(* documentation says, for any keys, values and expiry times.              *)
(***************************************************************************)
EXTENDS ServicePromises, FiniteSetTheorems

-----------------------------------------------------------------------------
(* The commands that count keys *)

\* EXISTS does what it promises, by induction over its keys.
LEMMA ExistsKeeps ==
  ASSUME NEW d, NEW c, NEW t \in Nat, Positive(d), WellFormed(c), c.op = "EXISTS"
  PROVE  Keeps(d, c, t, ExistsFunction(d, c, t))
<1> DEFINE After(n) == AfterKeys(c, t, Done(d, Num(0)), n)
           w == View(d, t)
           Found(n) == {i \in 1 .. n : c.keys[i] \in DOMAIN w}
           Good(n) == /\ View(After(n).db, t) = w
                      /\ Positive(After(n).db)
                      /\ After(n).reply = Num(Cardinality(Found(n)))
           S == {n \in Nat : Good(n)}
<1>1. After(0) = Done(d, Num(0)) /\ \A n \in Nat : After(n + 1) = ExistsKey(c, t, After(n), n + 1)
  <2>1. \A acc, i : ForKey(c, t, acc, i) = ExistsKey(c, t, acc, i)
    BY Zenon DEF ForKey
  <2> QED BY <2>1, NoKeys, OneMoreKey
<1> HIDE DEF After
<1>2. 0 \in S
  <2>1. Found(0) = {}
    OBVIOUS
  <2>2. Cardinality(Found(0)) = 0
    BY <2>1, FS_EmptySet
  <2> HIDE DEF Found
  <2> QED BY <1>1, <2>2 DEF Done
<1>3. ASSUME NEW n \in Nat, n \in S
      PROVE  n + 1 \in S
  <2> DEFINE a == After(n)
             k == c.keys[n + 1]
             e == FindOrExpire(a.db, k, t)
  <2>1. Good(n) /\ After(n + 1) = ExistsKey(c, t, a, n + 1)
    BY <1>1, <1>3
  <2>2. After(n + 1) = Done(e, Num(a.reply.num + IF k \in DOMAIN e.data THEN 1 ELSE 0))
    BY <2>1, Zenon DEF ExistsKey
  <2> HIDE DEF a
  <2>3. View(e, t) = w /\ Positive(e) /\ (k \in DOMAIN e.data <=> k \in DOMAIN w)
    <3>1. View(e, t) = View(a.db, t) /\ Positive(e) /\ (k \in DOMAIN e.data <=> Live(a.db, k, t))
      BY <2>1, FindOrExpireView DEF a
    <3> QED BY <2>1, <3>1, ViewIs DEF a
  <2> HIDE DEF e
  <2>4. a.reply.num = Cardinality(Found(n))
    BY <2>1 DEF Num, Reply, a
  <2>5. Cardinality(Found(n + 1)) = Cardinality(Found(n)) + IF k \in DOMAIN w THEN 1 ELSE 0
    <3>1. IsFiniteSet(Found(n)) /\ n + 1 \notin Found(n)
      <4>1. IsFiniteSet(1 .. n) /\ Found(n) \subseteq 1 .. n
        BY FS_Interval
      <4> QED BY <4>1, FS_Subset
    <3>2. Found(n + 1) = IF k \in DOMAIN w THEN Found(n) \cup {n + 1} ELSE Found(n)
      OBVIOUS
    <3>3. Cardinality(Found(n)) \in Nat
      BY <3>1, FS_CardinalityType
    <3>4. Cardinality(Found(n) \cup {n + 1}) = Cardinality(Found(n)) + 1
      <4> HIDE DEF Found
      <4> QED BY Zenon, <3>1, FS_AddElement
    <3> HIDE DEF Found, w
    <3> QED BY <3>2, <3>3, <3>4
  <2> HIDE DEF Found, w
  <2>6. After(n + 1) = Done(e, Num(Cardinality(Found(n + 1))))
    BY <2>2, <2>3, <2>4, <2>5
  <2> QED BY <2>3, <2>6 DEF Done
<1>4. \A n \in Nat : n \in S
  <2> HIDE DEF S
  <2> QED BY <1>2, <1>3, Inductive
<1>5. Len(c.keys) \in Nat
  BY DEF WellFormed
<1>6. ExistsFunction(d, c, t) = After(Len(c.keys)) /\ Good(Len(c.keys))
  BY Zenon, <1>4, <1>5 DEF ExistsFunction, ForEach, After
<1>7. Promised!Promise(w, c, t) = Promised!Done(w, Num(Cardinality(Found(Len(c.keys)))))
  <2>1. Promised!Promise(w, c, t) =
          Promised!Done(w, Promised!Num(Promised!Cardinality(Promised!Present(w, c))))
    BY Zenon DEF Promised!Promise
  <2>2. Promised!Present(w, c) = Found(Len(c.keys))
    BY DEF Promised!Present
  <2> QED BY <2>1, <2>2, SameTypes, Zenon
<1>8. Promised!Alive(w, t) = w
  BY AliveView
<1> HIDE DEF w, Found
<1> QED BY <1>6, <1>7, <1>8 DEF Keeps, Promised!Done, w

\* DEL does what it promises, by induction over its keys.
LEMMA DelKeeps ==
  ASSUME NEW d, NEW c, NEW t \in Nat, Positive(d), WellFormed(c), c.op = "DEL"
  PROVE  Keeps(d, c, t, DelFunction(d, c, t))
<1> DEFINE After(n) == AfterKeys(c, t, Done(d, Num(0)), n)
           w == View(d, t)
           First(n) == {c.keys[i] : i \in 1 .. n}
           Good(n) == /\ View(After(n).db, t) = Promised!Without(w, First(n))
                      /\ Positive(After(n).db)
                      /\ After(n).reply = Num(Cardinality(First(n) \cap DOMAIN w))
           S == {n \in Nat : n <= Len(c.keys) => Good(n)}
<1>1. After(0) = Done(d, Num(0)) /\ \A n \in Nat : After(n + 1) = DelKey(c, t, After(n), n + 1)
  <2>1. \A acc, i : ForKey(c, t, acc, i) = DelKey(c, t, acc, i)
    BY Zenon DEF ForKey
  <2> QED BY <2>1, NoKeys, OneMoreKey
<1> HIDE DEF After
<1>2. 0 \in S
  <2>1. First(0) = {} /\ w = [k \in DOMAIN w |-> w[k]]
    BY ViewIs
  <2>2. Cardinality(First(0) \cap DOMAIN w) = 0
    <3>1. First(0) \cap DOMAIN w = {}
      BY <2>1
    <3> QED BY <3>1, FS_EmptySet
  <2>3. Promised!Without(w, First(0)) = w
    <3> HIDE DEF First, w
    <3>1. DOMAIN w \ First(0) = DOMAIN w
      BY <2>1
    <3> QED BY <2>1, <3>1 DEF Promised!Without
  <2> HIDE DEF First
  <2>4. Good(0)
    BY <1>1, <2>2, <2>3 DEF Done
  <2> QED BY <2>4
<1>3. ASSUME NEW n \in Nat, n \in S
      PROVE  n + 1 \in S
  <2> SUFFICES ASSUME n + 1 <= Len(c.keys)
               PROVE  Good(n + 1)
    OBVIOUS
  <2> DEFINE a == After(n)
             k == c.keys[n + 1]
             e1 == FindOrExpire(a.db, k, t)
             e == After(n + 1).db
             u == Promised!Without(w, First(n))
  <2>1. Good(n) /\ After(n + 1) = DelKey(c, t, a, n + 1)
    <3>1. Len(c.keys) \in Nat
      BY DEF WellFormed
    <3>2. n <= Len(c.keys)
      BY <3>1
    <3>3. Good(n)
      <4> HIDE DEF Good
      <4> QED BY <1>3, <3>2
    <3> QED BY <1>1, <3>3
  <2>2. After(n + 1) = IF k \in DOMAIN e1.data THEN Done(EraseKey(e1, k), Num(a.reply.num + 1))
                       ELSE Done(e1, a.reply)
    BY <2>1, Zenon DEF DelKey
  <2>3. First(n + 1) = First(n) \cup {k}
    OBVIOUS
  <2>4. IsFiniteSet(First(n) \cap DOMAIN w)
    <3>1. \A i \in 1 .. n : c.keys[i] \in Key
      BY DEF WellFormed
    <3>2. First(n) \cap DOMAIN w \subseteq Key
      BY <3>1
    <3> QED BY <3>2, FS_Subset, ServiceAssumption
  <2> HIDE DEF a, First
  <2>5. /\ View(e1, t) = u
        /\ Positive(e1)
        /\ k \in DOMAIN e1.data <=> k \in DOMAIN u
    <3>1. View(e1, t) = View(a.db, t) /\ Positive(e1) /\ (k \in DOMAIN e1.data <=> Live(a.db, k, t))
      BY <2>1, FindOrExpireView DEF a
    <3> QED BY <2>1, <3>1, ViewIs DEF a
  <2> HIDE DEF e1, w
  <2>6. Others(e1, e, k) /\ k \notin DOMAIN e.data /\ Positive(e)
    <3>1. e = IF k \in DOMAIN e1.data THEN EraseKey(e1, k) ELSE e1
      BY <2>2 DEF Done
    <3> HIDE DEF e
    <3>2. CASE k \in DOMAIN e1.data
      <4>1. e = EraseExpire(EraseData(e1, k), k)
        BY <3>1, <3>2 DEF EraseKey
      <4> QED BY <2>5, <4>1 DEF EraseData, EraseExpire, Tables, Drop, Others, SameEntries, Positive
    <3>3. CASE k \notin DOMAIN e1.data
      BY <2>5, <3>1, <3>3 DEF Others, SameEntries
    <3> QED BY <3>2, <3>3
  <2>7. View(e, t) = Promised!Without(w, First(n + 1))
    <3>1. View(e, t) = Promised!Without(u, {k})
      BY <2>5, <2>6, ViewDrop
    <3>2. /\ DOMAIN u \ {k} = DOMAIN w \ First(n + 1)
          /\ \A x \in DOMAIN u \ {k} : u[x] = w[x]
      BY <2>3 DEF Promised!Without
    <3> HIDE DEF u
    <3> QED BY <3>1, <3>2 DEF Promised!Without
  <2>8. k \in DOMAIN u <=> k \in DOMAIN w /\ k \notin First(n)
    BY DEF Promised!Without
  <2>9. Cardinality(First(n) \cap DOMAIN w) \in Nat
    BY <2>4, FS_CardinalityType
  <2>10. a.reply = Num(Cardinality(First(n) \cap DOMAIN w))
    BY <2>1 DEF a
  <2>11. After(n + 1).reply = Num(Cardinality(First(n + 1) \cap DOMAIN w))
    <3>1. CASE k \in DOMAIN u
      <4>1. /\ First(n + 1) \cap DOMAIN w = (First(n) \cap DOMAIN w) \cup {k}
            /\ k \notin First(n) \cap DOMAIN w
        BY <2>3, <2>8, <3>1
      <4>2. Cardinality(First(n + 1) \cap DOMAIN w) = Cardinality(First(n) \cap DOMAIN w) + 1
        <5> DEFINE X == First(n) \cap DOMAIN w
        <5>1. IsFiniteSet(X) /\ k \notin X
          BY <2>4, <4>1
        <5>2. Cardinality(X \cup {k}) = Cardinality(X) + 1
          <6> HIDE DEF X
          <6> QED BY Zenon, <5>1, FS_AddElement
        <5> QED BY Zenon, <4>1, <5>2
      <4>3. After(n + 1).reply = Num(a.reply.num + 1)
        BY <2>2, <2>5, <3>1 DEF Done
      <4>4. a.reply.num = Cardinality(First(n) \cap DOMAIN w)
        BY <2>10 DEF Num, Reply
      <4> QED BY <4>2, <4>3, <4>4
    <3>2. CASE k \notin DOMAIN u
      <4>1. First(n + 1) \cap DOMAIN w = First(n) \cap DOMAIN w
        BY <2>3, <2>8, <3>2
      <4>2. After(n + 1).reply = a.reply
        BY <2>2, <2>5, <3>2 DEF Done
      <4> QED BY Zenon, <2>10, <4>1, <4>2
    <3> QED BY <3>1, <3>2
  <2> QED BY <2>6, <2>7, <2>11
<1>4. \A n \in Nat : n \in S
  <2> HIDE DEF S
  <2> QED BY <1>2, <1>3, Inductive
<1>5. Len(c.keys) \in Nat
  BY DEF WellFormed
<1>6. DelFunction(d, c, t) = After(Len(c.keys)) /\ Good(Len(c.keys))
  <2> HIDE DEF Good
  <2> QED BY <1>4, <1>5 DEF DelFunction, ForEach, After
<1> DEFINE N == Cardinality(First(Len(c.keys)) \cap DOMAIN w)
<1>7. Promised!Promise(w, c, t) = Promised!Done(Promised!Without(w, First(Len(c.keys))), Num(N))
  <2>1. Promised!Promise(w, c, t) =
          Promised!Done(Promised!Without(w, Promised!KeysOf(c)),
                        Promised!Num(Promised!Cardinality(Promised!KeysOf(c) \cap DOMAIN w)))
    BY Zenon DEF Promised!Promise
  <2>2. KeysOf(c) = First(Len(c.keys))
    BY DEF KeysOf
  <2> QED BY <2>1, <2>2, SameTypes, Zenon
<1> DEFINE e == After(Len(c.keys)).db
<1>8. Promised!Alive(View(e, t), t) = View(e, t)
  BY <1>6, AliveView
<1> HIDE DEF w, First, e
<1>9. /\ View(e, t) = Promised!Without(w, First(Len(c.keys)))
      /\ Positive(e)
      /\ After(Len(c.keys)).reply = Num(N)
  BY <1>6 DEF e
<1> QED BY <1>6, <1>7, <1>8, <1>9 DEF Keeps, Promised!Done, w, e

-----------------------------------------------------------------------------
(* Every command *)

\* A command that writes no value does what its documentation says, whatever
\* commands made the tables.
LEMMA ReadKeeps ==
  ASSUME NEW d, NEW c, NEW t \in Nat, NEW r \in Outcomes(d, c, t), Positive(d), WellFormed(c),
         c.op \in Reads \ {"GETRANGE"}
  PROVE  Keeps(d, c, t, r)
<1>1. CASE c.op = "GET"
  BY <1>1, GetOutcomes, GetKeeps
<1>2. CASE c.op = "GETDEL"
  BY <1>2, GetOutcomes, GetDelKeeps
<1>3. CASE c.op = "GETEX"
  BY <1>3, GetOutcomes, GetEXKeeps
<1>4. CASE c.op = "STRLEN"
  BY <1>4, LookOutcomes, StrlenKeeps
<1>5. CASE c.op = "TTL"
  BY <1>5, LookOutcomes, TtlKeeps
<1>6. CASE c.op = "MGET"
  BY <1>6, LoopOutcomes, MGetKeeps
<1>7. CASE c.op = "EXISTS"
  BY <1>7, LoopOutcomes, ExistsKeeps
<1>8. CASE c.op = "DEL"
  BY <1>8, LoopOutcomes, DelKeeps
<1>9. c.op \in {"GET", "GETDEL", "GETEX", "STRLEN", "TTL", "MGET", "EXISTS", "DEL"}
  BY DEF Reads
<1> QED BY Zenon, <1>1, <1>2, <1>3, <1>4, <1>5, <1>6, <1>7, <1>8, <1>9

\* So does every command that conforms, on tables where no expiry time is left
\* without a value.
LEMMA CommandKeeps ==
  ASSUME NEW d, NEW c, NEW t \in Nat, NEW r \in Outcomes(d, c, t), Positive(d), Paired(d),
         WellFormed(c), Conforms(c)
  PROVE  Keeps(d, c, t, r)
<1>1. CASE c.op = "SET"
  BY <1>1, SetOutcomes, SetKeeps
<1>2. CASE c.op = "SETEX"
  BY <1>2, SetOutcomes, SetEXKeeps
<1>3. CASE c.op = "SETNX"
  BY <1>3, SetOutcomes, SetNXKeeps
<1>4. CASE c.op = "MSET"
  BY <1>4, LoopOutcomes, MSetKeeps
<1>5. CASE c.op \in Reads \ {"GETRANGE"}
  BY <1>5, ReadKeeps
<1>6. c.op \in {"SET", "SETEX", "SETNX", "MSET"} \cup (Reads \ {"GETRANGE"})
  BY DEF Conforms
<1> QED BY <1>1, <1>2, <1>3, <1>4, <1>5, <1>6

\* Every operation on the tables keeps expiry times positive.
LEMMA TablesPositive ==
  ASSUME NEW d, NEW k, Positive(d)
  PROVE  /\ \A v : Positive(SetValue(d, k, v))
         /\ Positive(EraseData(d, k)) /\ Positive(EraseExpire(d, k))
         /\ Positive(EraseExpire(EraseData(d, k), k))
         /\ \A S : Positive(EraseAll(d, S))
         /\ \A at \in Nat \ {0} : Positive(UpsertExpireShared(d, k, at))
BY Zenon DEF Positive, SetValue, EraseData, EraseExpire, EraseAll, UpsertExpireShared, Tables, Put, Drop

\* SetData keeps the expiry times positive.
LEMMA SetDataPositive ==
  ASSUME NEW d, NEW k, NEW v, NEW mode \in {"regular", "NX", "XX"}, NEW get, NEW t, Positive(d)
  PROVE  Positive(SetData(d, k, v, mode, get, t).db)
<1>1. Positive(SetRegular(d, k, v, get, t).db)
  BY Zenon, TablesPositive DEF SetRegular, Status
<1>2. Positive(SetNX(d, k, v, t).db)
  <2>1. Positive(SetValue(d, k, v)) /\ Positive(EraseExpire(SetValue(d, k, v), k))
    BY Zenon, TablesPositive
  <2> QED BY <2>1 DEF SetNX, Status
<1>3. Positive(SetXX(d, k, v, get, t).db)
  BY TablesPositive DEF SetXX, Status
<1> QED BY <1>1, <1>2, <1>3 DEF SetData

\* The tables that SET leaves.
LEMMA SetTables ==
  ASSUME NEW d, NEW c, NEW t
  PROVE  LET k == c.keys[1]
             r == SetData(d, k, c.vals[1], c.mode, c.get, t)
             at == ExpireTime(c, t)
             e == SetFunction(d, c, t).db
         IN  \/ e = d
             \/ /\ OptionError(c) = "none"
                /\ \/ e \in {r.db, EraseExpire(r.db, k)}
                   \/ at > 0 /\ e = UpsertExpireShared(r.db, k, at)
<1> DEFINE k == c.keys[1]
           r == SetData(d, k, c.vals[1], c.mode, c.get, t)
           at == ExpireTime(c, t)
<1>1. SetFunction(d, c, t) =
        IF OptionError(c) # "none" THEN Done(d, Error(OptionError(c)))
        ELSE IF r.status = "noop" THEN Done(r.db, Nil)
        ELSE Done(IF at > 0 THEN UpsertExpireShared(r.db, k, at)
                  ELSE IF r.status = "updated" /\ ~c.keep THEN EraseExpire(r.db, k)
                  ELSE r.db,
                  IF c.get THEN r.old ELSE OK)
  BY Zenon DEF SetFunction
<1> HIDE DEF r, at
<1>2. \/ SetFunction(d, c, t).db = d
      \/ /\ OptionError(c) = "none"
         /\ \/ SetFunction(d, c, t).db \in {r.db, EraseExpire(r.db, k)}
            \/ at > 0 /\ SetFunction(d, c, t).db = UpsertExpireShared(r.db, k, at)
  BY <1>1 DEF Done
<1> QED BY Zenon, <1>2 DEF r, at

\* SET keeps the expiry times positive.
LEMMA SetPositive ==
  ASSUME NEW d, NEW c, NEW t \in Nat, Positive(d), WellFormed(c)
  PROVE  Positive(SetFunction(d, c, t).db)
<1> DEFINE k == c.keys[1]
           r == SetData(d, k, c.vals[1], c.mode, c.get, t)
           at == ExpireTime(c, t)
<1>1. OptionError(c) = "none" => Positive(r.db)
  <2>1. OptionError(c) = "none" => c.mode # "conflict"
    BY Zenon DEF OptionError
  <2>2. c.mode \in {"regular", "NX", "XX", "conflict"}
    BY DEF WellFormed
  <2> QED BY Zenon, <2>1, <2>2, SetDataPositive
<1>2. at \in Int
  BY ExpireTimeNat
<1>3. \/ SetFunction(d, c, t).db = d
      \/ /\ OptionError(c) = "none"
         /\ \/ SetFunction(d, c, t).db \in {r.db, EraseExpire(r.db, k)}
            \/ at > 0 /\ SetFunction(d, c, t).db = UpsertExpireShared(r.db, k, at)
  BY SetTables
<1> HIDE DEF r, at
<1>4. at > 0 => at \in Nat \ {0}
  BY <1>2
<1>5. Positive(r.db) => /\ Positive(EraseExpire(r.db, k))
                        /\ at > 0 => Positive(UpsertExpireShared(r.db, k, at))
  BY Zenon, <1>4, TablesPositive
<1> QED BY Zenon, <1>1, <1>3, <1>5

\* MSETNX keeps the expiry times positive.
LEMMA MSetNXPositive ==
  ASSUME NEW d, NEW c, NEW t \in Nat, Positive(d), WellFormed(c), c.op = "MSETNX"
  PROVE  Positive(MSetNXFunction(d, c, t).db)
<1> DEFINE After(n) == AfterKeys(c, t, Done(d, Num(0)), n)
           S == {n \in Nat : Positive(After(n).db)}
<1>1. After(0) = Done(d, Num(0)) /\ \A n \in Nat : After(n + 1) = MSetNXKey(c, t, After(n), n + 1)
  <2>1. \A acc, i : ForKey(c, t, acc, i) = MSetNXKey(c, t, acc, i)
    BY Zenon DEF ForKey
  <2> QED BY <2>1, NoKeys, OneMoreKey
<1> HIDE DEF After
<1>2. 0 \in S
  BY <1>1 DEF Done
<1>3. ASSUME NEW n \in Nat, n \in S
      PROVE  n + 1 \in S
  <2> DEFINE s == SetData(After(n).db, c.keys[n + 1], c.vals[n + 1], "NX", FALSE, t)
  <2>1. After(n + 1) = Done(s.db, IF s.status = "inserted" THEN Num(1) ELSE After(n).reply)
    BY <1>1, Zenon DEF MSetNXKey
  <2>2. Positive(s.db)
    BY <1>3, SetDataPositive, Zenon
  <2> HIDE DEF s
  <2> QED BY <2>1, <2>2 DEF Done
<1>4. \A n \in Nat : n \in S
  <2> HIDE DEF S
  <2> QED BY <1>2, <1>3, Inductive
<1>5. Len(c.keys) \in Nat
  BY DEF WellFormed
<1> QED BY <1>4, <1>5 DEF MSetNXFunction, ForEach, After

\* The commands that change a value in place keep the expiry times positive.
LEMMA ChangePositive ==
  ASSUME NEW d, NEW c, NEW t \in Nat, NEW r \in Outcomes(d, c, t), Positive(d), WellFormed(c),
         c.op \in {"SETNX", "SETRANGE", "APPEND", "GETSET", "GETRANGE", "DBSIZE"}
  PROVE  Positive(r.db)
<1> DEFINE k == c.keys[1]
           v == c.vals[1]
<1>1. CASE c.op = "SETNX"
  <2> DEFINE s == SetData(d, k, v, "NX", FALSE, t)
  <2>1. r = Done(s.db, Num(IF s.status = "inserted" THEN 1 ELSE 0))
    <3>1. r = SetNXFunction(d, c, t)
      BY <1>1, SetOutcomes
    <3> QED BY Zenon, <3>1 DEF SetNXFunction
  <2>2. Positive(s.db)
    BY SetDataPositive, Zenon
  <2> HIDE DEF s
  <2> QED BY <2>1, <2>2 DEF Done
<1>2. CASE c.op = "SETRANGE"
  <2>1. \E x : r.db = SetValue(d, k, x) \/ r.db = SetValue(EraseExpire(d, k), k, x)
    BY <1>2, ChangeOutcomes DEF SetRangeFunction, Done
  <2> QED BY Zenon, <2>1, TablesPositive
<1>3. CASE c.op = "APPEND"
  <2>1. r = AppendFunction(d, c)
    BY <1>3, ChangeOutcomes
  <2>2. \E x : AppendFunction(d, c) = Done(SetValue(d, k, x), Num(Len(x)))
    BY Zenon DEF AppendFunction
  <2>3. PICK x : r.db = SetValue(d, k, x)
    BY <2>1, <2>2 DEF Done
  <2> QED BY Zenon, <2>3, TablesPositive
<1>4. CASE c.op = "GETSET"
  <2> DEFINE s == SetData(d, k, v, "regular", TRUE, t)
  <2>1. r = Done(IF s.old = Nil THEN s.db ELSE EraseExpire(s.db, k), s.old)
    <3>1. r = GetSetFunction(d, c, t)
      BY <1>4, ChangeOutcomes
    <3> QED BY Zenon, <3>1 DEF GetSetFunction
  <2>2. Positive(s.db)
    BY SetDataPositive, Zenon
  <2> HIDE DEF s
  <2> QED BY ZenonT(30), <2>1, <2>2, TablesPositive DEF Done
<1>5. CASE c.op = "GETRANGE"
  <2>1. r.db = FindOrExpire(d, k, t)
    BY <1>5, LookOutcomes DEF GetRangeFunction, Done
  <2> QED BY <2>1, FindOrExpireView
<1>6. CASE c.op = "DBSIZE"
  BY <1>6, LookOutcomes DEF DbSizeFunction, Done
<1> QED BY <1>1, <1>2, <1>3, <1>4, <1>5, <1>6

\* Every command keeps the expiry times positive.
LEMMA CommandPositive ==
  ASSUME NEW d, NEW c, NEW t \in Nat, NEW r \in Outcomes(d, c, t), Positive(d), WellFormed(c)
  PROVE  Positive(r.db)
<1>1. CASE c.op = "SET"
  BY <1>1, SetOutcomes, SetPositive
<1>2. CASE c.op = "SETEX"
  BY <1>2, SetOutcomes, SetEXKeeps DEF Keeps
<1>3. CASE c.op = "MSET"
  BY <1>3, LoopOutcomes, MSetKeeps DEF Keeps
<1>4. CASE c.op = "MSETNX"
  BY <1>4, LoopOutcomes, MSetNXPositive
<1>5. CASE c.op \in Reads \ {"GETRANGE"}
  BY <1>5, ReadKeeps DEF Keeps
<1>6. CASE c.op \in {"SETNX", "SETRANGE", "APPEND", "GETSET", "GETRANGE", "DBSIZE"}
  BY <1>6, ChangePositive
<1>7. c.op \in {"SET", "SETEX", "MSET", "MSETNX"} \cup (Reads \ {"GETRANGE"})
                 \cup {"SETNX", "SETRANGE", "APPEND", "GETSET", "GETRANGE", "DBSIZE"}
  BY DEF WellFormed, Several, Single, Reads
<1> QED BY <1>1, <1>2, <1>3, <1>4, <1>5, <1>6, <1>7

-----------------------------------------------------------------------------
(* The steps of the service *)

\* Expiry times are positive, and times are times.
Times == Positive(db) /\ now \in Nat /\ snap \in Nat

\* Commands act at no later time than the clock shows.
Behind == snap <= now

\* Keys erased from both tables leave the map.
LEMMA ViewErased ==
  ASSUME NEW d, NEW t, NEW S
  PROVE  View(EraseAll(d, S), t) = Promised!Without(View(d, t), S \cap DOMAIN View(d, t))
<1> DEFINE e == EraseAll(d, S)
           w == View(d, t)
           f == Promised!Without(w, S \cap DOMAIN w)
<1>1. /\ \A x : x \in DOMAIN f <=> x \notin S /\ x \in DOMAIN w
      /\ \A x \in DOMAIN f : f[x] = w[x]
      /\ f = [x \in DOMAIN f |-> f[x]]
  BY DEF Promised!Without
<1> HIDE DEF f
<1>2. \A x : x \in S => ~Live(e, x, t)
  BY DEF EraseAll, Tables, Live
<1>3. \A x : x \notin S => SameEntries(d, e, x)
  BY DEF EraseAll, Tables, SameEntries
<1> HIDE DEF e
<1>4. \A x : x \notin S => /\ Live(e, x, t) <=> Live(d, x, t)
                           /\ TimeOf(e, x) = TimeOf(d, x)
                           /\ Live(d, x, t) => e.data[x] = d.data[x]
  BY <1>3, SameLive
<1>5. \A x : x \in DOMAIN View(e, t) <=> x \in DOMAIN f
  BY <1>1, <1>2, <1>4, ViewIs
<1>6. \A x \in DOMAIN View(e, t) : View(e, t)[x] = f[x]
  BY <1>1, <1>2, <1>4, <1>5, ViewIs
<1>7. View(e, t) = f
  BY <1>1, <1>5, <1>6, ViewIs, SameMap
<1> QED BY <1>7 DEF f, e

\* The view at a later time has the entries that are alive then.
LEMMA ViewLater ==
  ASSUME NEW d, NEW t \in Nat, NEW u \in Nat, t <= u, Positive(d)
  PROVE  View(d, u) = Promised!Alive(View(d, t), u)
<1> DEFINE w == View(d, t)
           f == Promised!Alive(w, u)
<1>1. /\ \A x : x \in DOMAIN f <=> x \in DOMAIN w /\ (w[x].at = 0 \/ w[x].at > u)
      /\ \A x \in DOMAIN f : f[x] = w[x]
      /\ f = [x \in DOMAIN f |-> f[x]]
  BY DEF Promised!Alive
<1> HIDE DEF f
<1>2. ASSUME NEW x
      PROVE  /\ Live(d, x, u) <=> Live(d, x, t) /\ (TimeOf(d, x) = 0 \/ TimeOf(d, x) > u)
             /\ x \in DOMAIN w => w[x].at = TimeOf(d, x)
  <2>1. Live(d, x, u) <=> Live(d, x, t) /\ (TimeOf(d, x) = 0 \/ TimeOf(d, x) > u)
    BY DEF Live, Expired, TimeOf, Positive
  <2>2. x \in DOMAIN w => w[x] = [val |-> d.data[x], at |-> TimeOf(d, x)]
    BY ViewIs
  <2> HIDE DEF w
  <2> QED BY <2>1, <2>2
<1>3. \A x : x \in DOMAIN View(d, u) <=> x \in DOMAIN f
  BY <1>1, <1>2, ViewIs
<1>4. \A x \in DOMAIN View(d, u) : View(d, u)[x] = f[x]
  BY <1>1, <1>3, ViewIs
<1>5. View(d, u) = f
  BY <1>1, <1>3, <1>4, ViewIs, SameMap
<1> QED BY <1>5 DEF f

\* The map of the tables e is that of d, without some keys if the command is
\* subject to a limit.
Evicted(d, c, e, t) ==
  \E S \in SUBSET DOMAIN View(d, t) : /\ Promised!Limited(c) \/ S = {}
                                     /\ View(e, t) = Promised!Without(View(d, t), S)

\* What may happen to the tables before a command acts.
LEMMA AdmissionView ==
  ASSUME NEW d, NEW c, NEW t, NEW a \in Admissions(d, c), Positive(d)
  PROVE  /\ Positive(a.db)
         /\ Evicted(d, c, a.db, t)
         /\ ~a.ok => Promised!Limited(c)
<1>1. \/ a.db = d /\ a.ok
      \/ Promised!Limited(c) /\ (a.db = d \/ \E S : a.db = EraseAll(d, S))
  <2>1. Promised!Limited(c) <=> Maxmemory /\ c.op \in WriteCommands
    BY Zenon, SameTypes DEF Promised!Limited
  <2> QED BY <2>1 DEF Admissions, Evictions
<1>2. View(d, t) = Promised!Without(View(d, t), {})
  <2> DEFINE w == View(d, t)
  <2>1. w = [x \in DOMAIN w |-> w[x]] /\ DOMAIN w \ {} = DOMAIN w
    BY ViewIs
  <2> HIDE DEF w
  <2>2. w = Promised!Without(w, {})
    BY <2>1 DEF Promised!Without
  <2> QED BY <2>2 DEF w
<1>3. CASE a.db = d
  BY <1>1, <1>2, <1>3 DEF Evicted
<1>4. CASE a.db # d
  <2>1. PICK S : Promised!Limited(c) /\ a.db = EraseAll(d, S)
    BY <1>1, <1>4
  <2> DEFINE T == S \cap DOMAIN View(d, t)
  <2>2. T \in SUBSET DOMAIN View(d, t) /\ View(a.db, t) = Promised!Without(View(d, t), T)
    BY <2>1, ViewErased
  <2>3. Positive(a.db)
    BY <2>1, TablesPositive
  <2> HIDE DEF T
  <2> QED BY <2>1, <2>2, <2>3 DEF Evicted
<1> QED BY <1>3, <1>4

\* Times holds in every reachable state.
LEMMA TimesInvariant == Spec => []Times
<1>1. Init => Times
  BY ServiceAssumption DEF Init, Times, NoData, Tables, Positive
<1>2. Times /\ [Next]_vars => Times'
  <2> SUFFICES ASSUME Times, [Next]_vars
               PROVE  Times'
    OBVIOUS
  <2>1. ASSUME NEW c \in Commands, Invoke(c)
        PROVE  Times'
    <3>1. PICK a \in Admissions(db, c) :
            \/ \E r \in Outcomes(a.db, c, snap) : db' = r.db
            \/ db' = a.db
      BY Zenon, <2>1 DEF Invoke
    <3>2. Positive(a.db)
      BY AdmissionView DEF Times
    <3>3. \A r \in Outcomes(a.db, c, snap) : Positive(r.db)
      BY <3>2, CommandPositive, CommandAssumption DEF Times
    <3>4. Positive(db')
      BY <3>1, <3>2, <3>3
    <3>5. now' = now /\ snap' = snap
      BY <2>1 DEF Invoke
    <3> QED BY <3>4, <3>5 DEF Times, Positive
  <2>2. CASE Cron
    <3>1. Positive(db')
      BY <2>2, TablesPositive DEF Cron, Times
    <3>2. now' \in Nat /\ snap' \in Nat
      BY <2>2, ServiceAssumption DEF Cron, Times, Least
    <3> QED BY <3>1, <3>2 DEF Times, Positive
  <2>3. CASE TimePasses \/ ClockSetBack
    BY <2>3 DEF TimePasses, ClockSetBack, Times, Positive
  <2>4. CASE UNCHANGED <<db, now, snap>>
    BY <2>4 DEF Times, Positive
  <2> QED BY Zenon, <2>1, <2>2, <2>3, <2>4 DEF Next, Abort, vars
<1> QED BY <1>1, <1>2, PTL DEF Spec

\* A command is a step of the store, after the keys evicted before it: a reading
\* command or DEL on any tables, a command that conforms on those where no expiry
\* time is left without a value.
LEMMA InvokeDoes ==
  ASSUME NEW c \in Commands, Invoke(c), Times,
         c.op \in Reads \ {"GETRANGE"} \/ (Conforms(c) /\ Paired(db))
  PROVE  Promised!Do(c)
<1> DEFINE w == View(db, snap)
<1>1. PICK a \in Admissions(db, c) :
        \/ a.ok /\ \E r \in Outcomes(a.db, c, snap) : db' = r.db /\ reply' = r.reply
        \/ ~a.ok /\ db' = a.db /\ reply' = Error("OOM")
  BY ZenonT(30) DEF Invoke
<1>2. now' = now /\ snap' = snap /\ snap \in Nat /\ Positive(db)
  BY Zenon DEF Invoke, Times
<1>3. Positive(a.db) /\ (Paired(db) => Paired(a.db))
  <2>1. Positive(a.db)
    BY Zenon, <1>2, AdmissionView
  <2>2. Stranded(a.db) \subseteq Stranded(db)
    BY Zenon, AdmissionEffect
  <2> QED BY Zenon, <2>1, <2>2 DEF Paired
<1>4. PICK S \in SUBSET DOMAIN w : /\ Promised!Limited(c) \/ S = {}
                                   /\ View(a.db, snap) = Promised!Without(w, S)
  <2>1. Evicted(db, c, a.db, snap)
    BY Zenon, <1>2, AdmissionView
  <2> QED BY Zenon, <2>1 DEF Evicted
<1>5. ~a.ok => Promised!Limited(c)
  BY Zenon, <1>2, AdmissionView
<1> DEFINE p == Promised!Promise(Promised!Without(w, S), c, snap)
           w2 == View(db', snap')
<1>6. \/ w2 = Promised!Alive(p.view, snap) /\ reply' = p.reply
      \/ Promised!Limited(c) /\ w2 = Promised!Without(w, S) /\ reply' = Error("OOM")
  <2>1. CASE a.ok /\ \E r \in Outcomes(a.db, c, snap) : db' = r.db /\ reply' = r.reply
    <3>1. PICK r \in Outcomes(a.db, c, snap) : db' = r.db /\ reply' = r.reply
      BY Zenon, <2>1
    <3>2. Keeps(a.db, c, snap, r)
      BY Zenon, <1>2, <1>3, ReadKeeps, CommandKeeps, CommandAssumption
    <3> QED BY Zenon, <1>2, <1>4, <3>1, <3>2 DEF Keeps
  <2>2. CASE ~a.ok /\ db' = a.db /\ reply' = Error("OOM")
    BY Zenon, <1>2, <1>4, <1>5, <2>2
  <2> QED BY ZenonT(30), <1>1, <2>1, <2>2
<1>7. Promised!Error("OOM") = Error("OOM")
  BY SameTypes, Zenon
<1> HIDE DEF w, p, w2
<1>8. S \in {T \in SUBSET DOMAIN w : Promised!Limited(c) \/ T = {}}
  BY Zenon, <1>4
<1> QED BY Zenon, <1>2, <1>6, <1>7, <1>8 DEF Promised!Do, w, p, w2

\* Whatever commands clients send, a command that writes no value answers as
\* documented, and leaves exactly the documented keys visible: nothing is lost
\* before a reading command, and before DEL only what eviction takes.
THEOREM ReadsCorrect == Spec => ReadsAsDocumented
<1> DEFINE Documented ==
             \A c \in Commands : c.op \in Reads \ {"GETRANGE"} /\ Invoke(c) => Promised!Do(c)
<1>1. Times => Documented
  BY Zenon, InvokeDoes
<1>2. Times /\ [Next]_vars => [Documented]_vars
  BY Zenon, <1>1
<1>3. Spec => [][Documented]_vars
  <2> HIDE DEF Documented
  <2> QED BY <1>2, TimesInvariant, PTL DEF Spec
<1> QED BY <1>3 DEF ReadsAsDocumented

-----------------------------------------------------------------------------
(* Key objects *)

\* Every expiry entry shares its key object with the data entry.
Owned(d) == DOMAIN d.expire \subseteq d.own

\* What the operations on the tables do to the expiry times of shared keys.
LEMMA TablesOwned ==
  ASSUME NEW d, NEW k, Owned(d)
  PROVE  /\ \A v : Owned(SetValue(d, k, v))
         /\ Owned(EraseExpire(d, k)) /\ Owned(EraseExpire(EraseData(d, k), k))
         /\ k \notin d.own => Owned(EraseData(d, k))
         /\ \A at : Owned(UpsertExpireShared(d, k, at))
         /\ Owned(Lend(d, k))
         /\ \A S : Owned(EraseAll(d, S))
<1>1. \A v : Owned(SetValue(d, k, v))
  BY DEF Owned, SetValue, Tables
<1>2. Owned(EraseExpire(d, k)) /\ Owned(EraseExpire(EraseData(d, k), k))
  BY DEF Owned, EraseExpire, EraseData, Tables, Drop
<1>3. k \notin d.own => Owned(EraseData(d, k))
  BY DEF Owned, EraseData, Tables
<1>4. \A at : Owned(UpsertExpireShared(d, k, at))
  BY DEF Owned, UpsertExpireShared, Tables, Put
<1>5. Owned(Lend(d, k))
  BY DEF Owned, Lend, Tables
<1>6. \A S : Owned(EraseAll(d, S))
  BY DEF Owned, EraseAll, Tables
<1> QED BY Zenon, <1>1, <1>2, <1>3, <1>4, <1>5, <1>6

\* So do the lookup that expires and the erasure of a key.
LEMMA EraseOwned ==
  ASSUME NEW d, NEW k, NEW t, Owned(d)
  PROVE  Owned(FindOrExpire(d, k, t)) /\ Owned(EraseKey(d, k))
BY Zenon, TablesOwned DEF FindOrExpire, EraseKey

\* SetData keeps keys shared.
LEMMA SetDataOwned ==
  ASSUME NEW d, NEW k, NEW v, NEW mode \in {"regular", "NX", "XX"}, NEW get, NEW t, Owned(d)
  PROVE  Owned(SetData(d, k, v, mode, get, t).db)
<1>1. Owned(SetRegular(d, k, v, get, t).db)
  BY Zenon, TablesOwned DEF SetRegular, Status
<1>2. Owned(SetNX(d, k, v, t).db)
  <2>1. Owned(SetValue(d, k, v)) /\ Owned(EraseExpire(SetValue(d, k, v), k))
    BY Zenon, TablesOwned
  <2> QED BY <2>1 DEF SetNX, Status
<1>3. Owned(SetXX(d, k, v, get, t).db)
  <2>1. Owned(SetValue(d, k, v)) /\ Owned(EraseExpire(EraseData(d, k), k))
    BY Zenon, TablesOwned
  <2> QED BY <2>1 DEF SetXX, Status
<1> QED BY <1>1, <1>2, <1>3 DEF SetData

\* GetFunctionBase keeps keys shared, and shares none.
LEMMA GetOwned ==
  ASSUME NEW d, NEW k, NEW t, Owned(d)
  PROVE  LET e == GetFunctionBase(d, k, t).db
         IN  Owned(e) /\ e.own \subseteq d.own
<1> DEFINE d1 == FindOrExpire(d, k, t)
           e == GetFunctionBase(d, k, t).db
<1>1. e = d1 \/ e = Lend(d1, k)
  <2>1. GetFunctionBase(d, k, t) = IF k \in DOMAIN d1.data THEN Done(Lend(d1, k), Str(d1.data[k]))
                                   ELSE Done(d1, Nil)
    BY Zenon DEF GetFunctionBase
  <2> HIDE DEF d1
  <2> QED BY <2>1 DEF Done
<1>2. Owned(d1) /\ Owned(Lend(d1, k))
  BY Zenon, EraseOwned, TablesOwned
<1>3. d1.own \subseteq d.own
  BY DEF FindOrExpire, EraseExpire, EraseData, Tables
<1> HIDE DEF d1, e
<1>4. Lend(d1, k).own = d1.own
  BY DEF Lend, Tables
<1> QED BY Zenon, <1>1, <1>2, <1>3, <1>4 DEF e

\* SET keeps keys shared.
LEMMA SetOwned ==
  ASSUME NEW d, NEW c, NEW t, Owned(d), WellFormed(c)
  PROVE  /\ Owned(SetFunction(d, c, t).db)
         /\ OptionError(c) = "none" => Owned(SetData(d, c.keys[1], c.vals[1], c.mode, c.get, t).db)
<1> DEFINE k == c.keys[1]
           r == SetData(d, k, c.vals[1], c.mode, c.get, t)
           at == ExpireTime(c, t)
<1>1. OptionError(c) = "none" => Owned(r.db)
  <2>1. OptionError(c) = "none" => c.mode # "conflict"
    BY Zenon DEF OptionError
  <2>2. c.mode \in {"regular", "NX", "XX", "conflict"}
    BY DEF WellFormed
  <2> QED BY Zenon, <2>1, <2>2, SetDataOwned
<1>2. \/ SetFunction(d, c, t).db = d
      \/ /\ OptionError(c) = "none"
         /\ \/ SetFunction(d, c, t).db \in {r.db, EraseExpire(r.db, k)}
            \/ at > 0 /\ SetFunction(d, c, t).db = UpsertExpireShared(r.db, k, at)
  BY SetTables
<1> HIDE DEF r, at
<1>3. Owned(r.db) => Owned(EraseExpire(r.db, k)) /\ Owned(UpsertExpireShared(r.db, k, at))
  BY Zenon, TablesOwned
<1> QED BY Zenon, <1>1, <1>2, <1>3 DEF r

\* The loops keep keys shared, key by key.
LEMMA ForKeyOwned ==
  ASSUME NEW c, NEW t, NEW acc, NEW i, Owned(acc.db), c.op \in {"MSET", "MGET", "EXISTS", "DEL"}
  PROVE  Owned(ForKey(c, t, acc, i).db)
<1> DEFINE k == c.keys[i]
           d1 == FindOrExpire(acc.db, k, t)
<1>1. Owned(d1) /\ Owned(EraseKey(d1, k))
  BY Zenon, EraseOwned
<1>2. CASE c.op = "MSET"
  <2> DEFINE r == SetData(acc.db, k, c.vals[i], "regular", FALSE, t)
  <2>1. ForKey(c, t, acc, i) = Done(EraseExpire(r.db, k), OK)
    BY Zenon, <1>2 DEF ForKey, MSetKey
  <2>2. Owned(r.db)
    BY Zenon, SetDataOwned
  <2> HIDE DEF r
  <2>3. Owned(EraseExpire(r.db, k))
    BY Zenon, <2>2, TablesOwned
  <2> QED BY <2>1, <2>3 DEF Done
<1>3. CASE c.op = "MGET"
  <2> DEFINE r == GetFunctionBase(acc.db, k, t)
  <2>1. ForKey(c, t, acc, i) = Done(r.db, List(Append(acc.reply.list, r.reply.strs)))
    BY Zenon, <1>3 DEF ForKey, MGetKey
  <2>2. Owned(r.db)
    BY Zenon, GetOwned
  <2> HIDE DEF r
  <2> QED BY <2>1, <2>2 DEF Done
<1>4. CASE c.op = "EXISTS"
  <2>1. \E x : ForKey(c, t, acc, i) = Done(d1, x)
    BY Zenon, <1>4 DEF ForKey, ExistsKey
  <2> HIDE DEF d1
  <2> QED BY <1>1, <2>1 DEF Done
<1>5. CASE c.op = "DEL"
  <2>1. \E x : ForKey(c, t, acc, i) \in {Done(d1, x), Done(EraseKey(d1, k), x)}
    BY Zenon, <1>5 DEF ForKey, DelKey
  <2> HIDE DEF d1
  <2> QED BY <1>1, <2>1 DEF Done
<1> QED BY Zenon, <1>2, <1>3, <1>4, <1>5

\* So they do for all keys.
LEMMA LoopOwned ==
  ASSUME NEW c, NEW t, NEW start, Owned(start.db), WellFormed(c),
         c.op \in {"MSET", "MGET", "EXISTS", "DEL"}
  PROVE  Owned(ForEach(c, t, start).db)
<1> DEFINE After(n) == AfterKeys(c, t, start, n)
           S == {n \in Nat : Owned(After(n).db)}
<1>1. 0 \in S
  BY Zenon, NoKeys
<1>2. ASSUME NEW n \in Nat, n \in S
      PROVE  n + 1 \in S
  <2>1. After(n + 1) = ForKey(c, t, After(n), n + 1)
    BY OneMoreKey
  <2> HIDE DEF After
  <2>2. Owned(After(n + 1).db)
    BY Zenon, <1>2, <2>1, ForKeyOwned
  <2> QED BY <2>2
<1>3. \A n \in Nat : n \in S
  <2> HIDE DEF S
  <2> QED BY <1>1, <1>2, Inductive
<1>4. Len(c.keys) \in Nat
  BY DEF WellFormed
<1> QED BY Zenon, <1>3, <1>4 DEF ForEach

\* Commands that conform keep keys shared: the one that creates an expiry entry
\* with a key of its own is GETEX with a time.
LEMMA CommandOwned ==
  ASSUME NEW d, NEW c, NEW t \in Nat, NEW r \in Outcomes(d, c, t), Owned(d), WellFormed(c), Conforms(c)
  PROVE  Owned(r.db)
<1> DEFINE k == c.keys[1]
           g == GetFunctionBase(d, k, t)
<1>1. CASE c.op = "SET"
  <2>1. r = SetFunction(d, c, t)
    BY Zenon, <1>1, SetOutcomes
  <2>2. Owned(SetFunction(d, c, t).db)
    BY Zenon, SetOwned
  <2> QED BY Zenon, <2>1, <2>2
<1>2. CASE c.op = "SETEX"
  <2> DEFINE e == SetValue(d, k, c.vals[1])
             u == UpsertExpireShared(e, k, t + c.ttl)
  <2>1. Owned(e)
    BY Zenon, TablesOwned
  <2>2. \E x : r \in {Done(d, x), Done(u, x)}
    <3>1. r = SetEXFunctionBase(d, c, t)
      BY Zenon, <1>2, SetOutcomes
    <3> QED BY Zenon, <3>1 DEF SetEXFunctionBase
  <2> HIDE DEF e
  <2>3. Owned(u)
    BY Zenon, <2>1, TablesOwned
  <2> HIDE DEF u
  <2> QED BY <2>2, <2>3 DEF Done
<1>3. CASE c.op = "SETNX"
  <2> DEFINE s == SetData(d, k, c.vals[1], "NX", FALSE, t)
  <2>1. \E x : r = Done(s.db, x)
    <3>1. r = SetNXFunction(d, c, t)
      BY Zenon, <1>3, SetOutcomes
    <3> QED BY Zenon, <3>1 DEF SetNXFunction
  <2>2. Owned(s.db)
    BY Zenon, SetDataOwned
  <2> HIDE DEF s
  <2> QED BY <2>1, <2>2 DEF Done
<1>4. CASE c.op \in {"MSET", "MGET", "EXISTS", "DEL"}
  <2>1. \E x : r = ForEach(c, t, Done(d, x))
    BY Zenon, <1>4, LoopOutcomes DEF MSetFunction, MGetFunction, ExistsFunction, DelFunction
  <2>2. \A x : Owned(Done(d, x).db)
    BY DEF Done
  <2> QED BY Zenon, <1>4, <2>1, <2>2, LoopOwned
<1>5. Owned(g.db) /\ g.db.own \subseteq d.own
  BY Zenon, GetOwned
<1>6. CASE c.op = "GET"
  BY Zenon, <1>5, <1>6, GetOutcomes
<1> HIDE DEF g
<1>7. CASE c.op = "GETDEL"
  <2>1. PICK f \in BOOLEAN : r = GetDelFunction(d, c, t, f) /\ (f => k \in LongKey \ d.own)
    BY Zenon, <1>7, GetOutcomes
  <2>2. \/ r = g
        \/ f /\ r = Done(EraseData(g.db, k), g.reply)
        \/ r = Done(EraseKey(g.db, k), g.reply)
    BY Zenon, <2>1 DEF GetDelFunction, g
  <2>3. Owned(EraseKey(g.db, k)) /\ (f => Owned(EraseData(g.db, k)))
    BY Zenon, <1>5, <2>1, TablesOwned, EraseOwned
  <2> HIDE DEF k
  <2> QED BY <1>5, <2>2, <2>3 DEF Done
<1>8. CASE c.op = "GETEX"
  <2>1. ~(ExpireTime(c, t) > 0)
    <3>1. c.ttl \in Int /\ c.until \in Int /\ c.ttl <= 0 /\ c.until <= 0
      BY <1>8 DEF WellFormed, Conforms
    <3> QED BY <3>1 DEF ExpireTime
  <2>2. \/ \E x : r = Done(d, x)
        \/ r = g
        \/ \E x : r \in {Done(EraseExpire(g.db, k), x), Done(g.db, x)}
    <3>1. r = GetEXFunction(d, c, t)
      BY Zenon, <1>8, GetOutcomes
    <3> QED BY Zenon, <2>1, <3>1 DEF GetEXFunction, g
  <2>3. Owned(EraseExpire(g.db, k))
    BY Zenon, <1>5, TablesOwned
  <2> HIDE DEF k
  <2> QED BY <1>5, <2>2, <2>3 DEF Done
<1>9. CASE c.op = "STRLEN"
  <2>1. \E x : r = Done(FindOrExpire(d, k, t), x)
    BY Zenon, <1>9, LookOutcomes DEF StrlenFunction
  <2>2. Owned(FindOrExpire(d, k, t))
    BY Zenon, EraseOwned
  <2> QED BY <2>1, <2>2 DEF Done
<1>10. CASE c.op = "TTL"
  <2>1. \E x : r \in {Done(d, x), Done(EraseExpire(EraseData(d, k), k), x)}
    BY Zenon, <1>10, LookOutcomes DEF TtlFunction
  <2>2. Owned(EraseExpire(EraseData(d, k), k))
    BY Zenon, TablesOwned
  <2> QED BY <2>1, <2>2 DEF Done
<1>11. c.op \in {"SET", "SETEX", "SETNX"} \cup {"MSET", "MGET", "EXISTS", "DEL"}
                  \cup {"GET", "GETDEL", "GETEX", "STRLEN", "TTL"}
  BY DEF Conforms, Reads
<1> QED BY Zenon, <1>1, <1>2, <1>3, <1>4, <1>6, <1>7, <1>8, <1>9, <1>10, <1>11

\* Eviction keeps keys shared.
LEMMA AdmissionOwned ==
  ASSUME NEW d, NEW c, NEW a \in Admissions(d, c), Owned(d)
  PROVE  Owned(a.db)
<1>1. a.db = d \/ \E S : a.db = EraseAll(d, S)
  BY DEF Admissions, Evictions
<1> QED BY Zenon, <1>1, TablesOwned

\* With commands that conform, no expiry entry has a key object of its own.
LEMMA OwnedInvariant ==
  ASSUME \A c \in Commands : Conforms(c)
  PROVE  Spec => []Owned(db)
<1>1. Init => Owned(db)
  BY DEF Init, NoData, Tables, Owned
<1>2. Times /\ Owned(db) /\ [Next]_vars => Owned(db')
  <2> SUFFICES ASSUME Times, Owned(db), [Next]_vars
               PROVE  Owned(db')
    OBVIOUS
  <2>1. ASSUME NEW c \in Commands, Invoke(c)
        PROVE  Owned(db')
    <3>1. PICK a \in Admissions(db, c) :
            \/ \E r \in Outcomes(a.db, c, snap) : db' = r.db
            \/ db' = a.db
      BY Zenon, <2>1 DEF Invoke
    <3>2. Owned(a.db) /\ snap \in Nat /\ WellFormed(c)
      BY Zenon, AdmissionOwned, CommandAssumption DEF Times
    <3>3. \A r \in Outcomes(a.db, c, snap) : Owned(r.db)
      BY Zenon, <3>2, CommandOwned
    <3> QED BY Zenon, <3>1, <3>2, <3>3
  <2>2. CASE Cron
    BY Zenon, <2>2, TablesOwned DEF Cron
  <2>3. CASE UNCHANGED db
    BY Zenon, <2>3
  <2> QED BY Zenon, <2>1, <2>2, <2>3 DEF Next, Abort, TimePasses, ClockSetBack, vars
<1>3. (Owned(db))' <=> Owned(db')
  BY DEF Owned
<1> QED BY <1>1, <1>2, <1>3, TimesInvariant, PTL DEF Spec

\* GETDEL creates no expiry time.
LEMMA GetDelErases ==
  ASSUME NEW c \in Commands, Invoke(c), c.op = "GETDEL"
  PROVE  DOMAIN db'.expire \subseteq DOMAIN db.expire
<1> DEFINE k == c.keys[1]
           d1 == FindOrExpire(db, k, snap)
           g == GetFunctionBase(db, k, snap)
<1>1. PICK a \in Admissions(db, c) :
        \/ \E r \in Outcomes(a.db, c, snap) : db' = r.db
        \/ db' = a.db
  BY Zenon DEF Invoke
<1>2. a.db = db
  BY Zenon, AdmissionEffect
<1>3. g.db = d1 \/ g.db = Lend(d1, k)
  <2>1. g = IF k \in DOMAIN d1.data THEN Done(Lend(d1, k), Str(d1.data[k])) ELSE Done(d1, Nil)
    BY Zenon DEF GetFunctionBase
  <2> HIDE DEF d1, g
  <2> QED BY <2>1 DEF Done
<1>4. DOMAIN d1.expire \subseteq DOMAIN db.expire
  BY DEF FindOrExpire, EraseExpire, EraseData, Tables, Drop
<1> HIDE DEF d1, g
<1>5. DOMAIN g.db.expire \subseteq DOMAIN db.expire
  <2>1. Lend(d1, k).expire = d1.expire
    BY DEF Lend, Tables
  <2> QED BY Zenon, <1>3, <1>4, <2>1
<1>6. /\ DOMAIN EraseData(g.db, k).expire \subseteq DOMAIN g.db.expire
      /\ DOMAIN EraseKey(g.db, k).expire \subseteq DOMAIN g.db.expire
  BY DEF EraseKey, EraseExpire, EraseData, Tables, Drop
<1>7. ASSUME NEW r \in Outcomes(db, c, snap)
      PROVE  r.db \in {g.db, EraseData(g.db, k), EraseKey(g.db, k)}
  <2>1. PICK f \in BOOLEAN : r = GetDelFunction(db, c, snap, f)
    BY Zenon, GetOutcomes
  <2>2. r \in {g, Done(EraseData(g.db, k), g.reply), Done(EraseKey(g.db, k), g.reply)}
    BY Zenon, <2>1 DEF GetDelFunction, g
  <2> QED BY <2>2 DEF Done
<1> QED BY Zenon, <1>1, <1>2, <1>5, <1>6, <1>7

\* With commands that conform, no assertion fails.
LEMMA NoAbort ==
  ASSUME NEW c \in Commands, Owned(db)
  PROVE  ~Abort(c)
<1> SUFFICES ASSUME Abort(c)
             PROVE  FALSE
  OBVIOUS
<1>1. PICK a \in Admissions(db, c) : UpsertFails(a.db, c, snap)
  BY Zenon DEF Abort
<1>2. Owned(a.db) /\ WellFormed(c)
  BY Zenon, AdmissionOwned, CommandAssumption
<1> DEFINE k == c.keys[1]
           r == SetData(a.db, k, c.vals[1], c.mode, c.get, snap)
<1>3. KeyDiffers(a.db, k) \/ (OptionError(c) = "none" /\ KeyDiffers(r.db, k))
  BY Zenon, <1>1 DEF UpsertFails
<1>4. OptionError(c) = "none" => Owned(r.db)
  BY Zenon, <1>2, SetOwned
<1> HIDE DEF r
<1> QED BY Zenon, <1>2, <1>3, <1>4 DEF KeyDiffers, Owned

-----------------------------------------------------------------------------
(* The service implements ExpiringStore *)

\* A tick of Cron moves the time commands act at, and may erase keys whose time
\* has passed.
LEMMA CronMoves ==
  ASSUME Cron, Times, Behind
  PROVE  Promised!TimeMoves
<1>1. PICK S \in SUBSET {k \in DOMAIN db.expire : db.expire[k] <= now'} : db' = EraseAll(db, S)
  BY DEF Cron
<1>2. /\ snap' = now /\ now' >= now /\ reply' = reply
      /\ snap \in Nat /\ now \in Nat /\ snap <= now /\ Positive(db)
  BY DEF Cron, Times, Behind
<1> DEFINE w == View(db, snap)
           T == S \cap DOMAIN View(db, now)
<1>3. View(db, now) = Promised!Alive(w, now)
  BY <1>2, ViewLater
<1>4. View(db', snap') = Promised!Without(Promised!Alive(w, snap'), T)
  BY Zenon, <1>1, <1>2, <1>3, ViewErased
<1>5. T \in SUBSET {k \in DOMAIN w : w[k].at # 0 /\ w[k].at <= now'}
  <2> SUFFICES ASSUME NEW k \in T
               PROVE  k \in DOMAIN w /\ w[k].at # 0 /\ w[k].at <= now'
    OBVIOUS
  <2>1. k \in DOMAIN db.expire /\ db.expire[k] <= now' /\ Live(db, k, now)
    BY <1>1, ViewIs
  <2>2. Live(db, k, snap) /\ TimeOf(db, k) = db.expire[k] /\ db.expire[k] # 0
    BY <1>2, <2>1 DEF Live, Expired, TimeOf, Positive
  <2>3. k \in DOMAIN w /\ w[k] = [val |-> db.data[k], at |-> TimeOf(db, k)]
    BY <2>2, ViewIs
  <2>4. w[k].at = TimeOf(db, k)
    <3> HIDE DEF w
    <3> QED BY <2>3
  <2> QED BY Zenon, <2>1, <2>2, <2>3, <2>4
<1> HIDE DEF w, T
<1> QED BY <1>2, <1>4, <1>5 DEF Promised!TimeMoves, w

\* With commands that conform, and a clock that is not set back, the service
\* implements ExpiringStore: through lazy and active expiration and eviction,
\* every command does to the keys that have not expired what its documentation
\* says, and answers so.
THEOREM Refinement ==
  ASSUME \A c \in Commands : Conforms(c), SetBack = FALSE
  PROVE  Spec => ImplementsExpiringStore
<1>1. Init => Promised!Init
  <2> SUFFICES ASSUME Init
               PROVE  Promised!Init
    OBVIOUS
  <2>1. View(db, snap) = [k \in {} |-> 0]
    <3>1. \A k : k \notin DOMAIN View(db, snap)
      BY ViewIs DEF Init, NoData, Tables, Live
    <3>2. DOMAIN View(db, snap) = {}
      BY ZenonT(30), <3>1
    <3> QED BY <3>2 DEF View
  <2>2. now \in Nat /\ snap = 0 /\ reply = Promised!Nil
    BY ServiceAssumption, SameTypes DEF Init
  <2> QED BY <2>1, <2>2 DEF Promised!Init
<1>2. Init => Behind
  BY ServiceAssumption DEF Init, Behind
<1>3. Times /\ Behind /\ [Next]_vars => Behind'
  <2> SUFFICES ASSUME Times, Behind, [Next]_vars
               PROVE  Behind'
    OBVIOUS
  <2>1. CASE Cron
    BY <2>1, ServiceAssumption DEF Times, Behind, Cron
  <2>2. CASE TimePasses
    BY <2>2 DEF Times, Behind, TimePasses
  <2>3. CASE UNCHANGED <<now, snap>>
    BY Zenon, <2>3 DEF Behind
  <2> QED BY Zenon, <2>1, <2>2, <2>3 DEF Next, Invoke, Abort, ClockSetBack, vars
<1>4. Init => Paired(db)
  BY DEF Init, NoData, Tables, Paired, Stranded
<1>5. Owned(db) /\ Paired(db) /\ [Next]_vars => (Paired(db))'
  <2> SUFFICES ASSUME Owned(db), Paired(db), [Next]_vars, NEW k \in Stranded(db')
               PROVE  FALSE
    BY DEF Paired, Stranded
  <2>1. k \notin Stranded(db) /\ k \in DOMAIN db'.expire
    BY Zenon DEF Paired, Stranded
  <2>2. PICK c \in Commands : Invoke(c) /\ k \in LeftBy(db, c)
    BY Zenon, <2>1, StepStranded
  <2>3. c.op = "GETDEL" /\ c.keys[1] = k /\ k \notin db.own
    BY Zenon, <2>2 DEF LeftBy
  <2>4. k \notin DOMAIN db.expire
    BY Zenon, <2>3 DEF Owned
  <2>5. DOMAIN db'.expire \subseteq DOMAIN db.expire
    BY Zenon, <2>2, <2>3, GetDelErases
  <2> QED BY Zenon, <2>1, <2>4, <2>5
<1>6. Times /\ Behind /\ Owned(db) /\ Paired(db) /\ [Next]_vars => [Promised!Next]_(Promised!vars)
  <2> SUFFICES ASSUME Times, Behind, Owned(db), Paired(db), [Next]_vars
               PROVE  Promised!Next \/ UNCHANGED Promised!vars
    OBVIOUS
  <2>1. ASSUME NEW c \in Commands, Invoke(c)
        PROVE  Promised!Next
    <3>1. Promised!Do(c)
      BY Zenon, <2>1, InvokeDoes
    <3> QED BY Zenon, <3>1 DEF Promised!Next
  <2>2. CASE Cron
    BY <2>2, CronMoves DEF Promised!Next
  <2>3. CASE TimePasses
    <3>1. now' \in Nat /\ db' = db /\ snap' = snap /\ reply' = reply
      BY <2>3 DEF TimePasses, Times
    <3>2. Promised!ClockMoves
      BY <3>1 DEF Promised!ClockMoves
    <3> QED BY <3>2 DEF Promised!Next
  <2>4. CASE UNCHANGED vars
    BY <2>4 DEF vars, Promised!vars
  <2>5. \A c \in Commands : ~Abort(c)
    BY Zenon, NoAbort
  <2> QED BY Zenon, <2>1, <2>2, <2>3, <2>4, <2>5 DEF Next, ClockSetBack
<1>7. Spec => []Owned(db)
  BY Zenon, OwnedInvariant
<1>8. Spec => Promised!Init /\ [][Promised!Next]_(Promised!vars)
  BY <1>1, <1>2, <1>3, <1>4, <1>5, <1>6, <1>7, TimesInvariant, PTL DEF Spec
<1> QED BY <1>8 DEF ImplementsExpiringStore, Promised!Spec
=============================================================================
