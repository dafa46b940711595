--------------------------- MODULE ServicePromises --------------------------
(***************************************************************************)
(* What the commands promise: the tables are seen through the keys that    *)
(* have not expired, and each command does what its documentation says.    *)
(***************************************************************************)
EXTENDS ServiceProofs

-----------------------------------------------------------------------------
(* The tables *)

\* Expiry times are positive: 0 stands for none.
Positive(d) == \A k \in DOMAIN d.expire : d.expire[k] \in Nat \ {0}

TimeOf(d, k) == IF k \in DOMAIN d.expire THEN d.expire[k] ELSE 0

\* The tables d and e have the same entries for key x.
SameEntries(d, e, x) ==
  /\ x \in DOMAIN e.data <=> x \in DOMAIN d.data
  /\ x \in DOMAIN d.data => e.data[x] = d.data[x]
  /\ x \in DOMAIN e.expire <=> x \in DOMAIN d.expire
  /\ x \in DOMAIN d.expire => e.expire[x] = d.expire[x]

\* The tables d and e differ at key k only.
Others(d, e, k) == \A x : x # k => SameEntries(d, e, x)

\* Replies, options and maps are the same for the service and for its promise.
LEMMA SameTypes ==
  /\ Promised!Nil = Nil /\ Promised!OK = OK
  /\ \A x : Promised!Error(x) = Error(x) /\ Promised!Num(x) = Num(x)
  /\ \A x : Promised!Str(x) = Str(x) /\ Promised!List(x) = List(x)
  /\ \A f, k, v : Promised!Put(f, k, v) = Put(f, k, v)
  /\ \A c : Promised!KeysOf(c) = KeysOf(c) /\ Promised!OptionError(c) = OptionError(c)
  /\ \A c, t : Promised!ExpireTime(c, t) = ExpireTime(c, t)
  /\ \A S : Promised!Cardinality(S) = Cardinality(S)
  /\ Promised!WriteCommands = WriteCommands
<1>1. \A c : Promised!KeysOf(c) = KeysOf(c)
  BY DEF Promised!KeysOf, KeysOf
<1>2. \A c : Promised!OptionError(c) = OptionError(c)
  BY Zenon DEF Promised!OptionError, OptionError
<1>3. \A f, k, v : Promised!Put(f, k, v) = Put(f, k, v)
  BY Zenon DEF Promised!Put, Put
<1>4. \A c, t : Promised!ExpireTime(c, t) = ExpireTime(c, t)
  BY Zenon DEF Promised!ExpireTime, ExpireTime
<1>5. \A k, n, x, l : Promised!Reply(k, n, x, l) = Reply(k, n, x, l)
  BY Zenon DEF Promised!Reply, Reply
<1>6. /\ Promised!Nil = Nil /\ Promised!OK = OK
      /\ \A x : Promised!Error(x) = Error(x) /\ Promised!Num(x) = Num(x)
      /\ \A x : Promised!Str(x) = Str(x) /\ Promised!List(x) = List(x)
  BY <1>5, Zenon DEF Promised!Nil, Nil, Promised!OK, OK, Promised!Error, Error, Promised!Num, Num,
                     Promised!Str, Str, Promised!List, List
<1>7. \A S : Promised!Cardinality(S) = Cardinality(S)
  BY Zenon DEF Promised!Cardinality, Cardinality
<1>8. Promised!WriteCommands = WriteCommands
  BY Zenon DEF Promised!WriteCommands, WriteCommands
<1> QED BY <1>1, <1>2, <1>3, <1>4, <1>6, <1>7, <1>8

-----------------------------------------------------------------------------
(* The view of the tables *)

\* The keys of the view, and their entries.
LEMMA ViewIs ==
  ASSUME NEW d, NEW t
  PROVE  /\ \A k : k \in DOMAIN View(d, t) <=> Live(d, k, t)
         /\ \A k \in DOMAIN View(d, t) : View(d, t)[k] = [val |-> d.data[k], at |-> TimeOf(d, k)]
         /\ View(d, t) = [k \in DOMAIN View(d, t) |-> View(d, t)[k]]
BY DEF View, Live, TimeOf

\* Two maps are equal when they have the same keys and entries.
LEMMA SameMap ==
  ASSUME NEW f, NEW g, f = [k \in DOMAIN f |-> f[k]], g = [k \in DOMAIN g |-> g[k]],
         \A k : k \in DOMAIN f <=> k \in DOMAIN g, \A k \in DOMAIN f : f[k] = g[k]
  PROVE  f = g
<1>1. DOMAIN f = DOMAIN g
  BY Zenon
<1>2. [k \in DOMAIN f |-> f[k]] = [k \in DOMAIN g |-> g[k]]
  BY <1>1
<1> QED BY <1>2

\* A key is visible in e as in d when its entries are the same.
LEMMA SameLive ==
  ASSUME NEW d, NEW e, NEW x, NEW t, SameEntries(d, e, x)
  PROVE  /\ Live(e, x, t) <=> Live(d, x, t)
         /\ TimeOf(e, x) = TimeOf(d, x)
         /\ Live(d, x, t) => e.data[x] = d.data[x]
BY DEF SameEntries, Live, Expired, TimeOf

\* Nothing in a view has expired.
LEMMA AliveView ==
  ASSUME NEW d, NEW t \in Nat, Positive(d)
  PROVE  Promised!Alive(View(d, t), t) = View(d, t)
<1> DEFINE w == View(d, t)
<1>1. \A k \in DOMAIN w : w[k].at = 0 \/ w[k].at > t
  BY ViewIs DEF Live, Expired, TimeOf, Positive
<1>2. w = [k \in DOMAIN w |-> w[k]]
  BY ViewIs
<1> HIDE DEF w
<1>3. {k \in DOMAIN w : w[k].at = 0 \/ w[k].at > t} = DOMAIN w
  BY <1>1
<1> QED BY <1>2, <1>3 DEF Promised!Alive, w

\* The view of tables that differ at k only.
LEMMA ViewSame ==
  ASSUME NEW d, NEW e, NEW k, NEW t, Others(d, e, k), ~Live(d, k, t), ~Live(e, k, t)
  PROVE  View(e, t) = View(d, t)
<1>1. \A x : Live(e, x, t) <=> Live(d, x, t)
  BY SameLive DEF Others
<1>2. \A x : Live(d, x, t) => e.data[x] = d.data[x] /\ TimeOf(e, x) = TimeOf(d, x)
  BY SameLive DEF Others
<1>3. \A x \in DOMAIN View(e, t) : View(e, t)[x] = View(d, t)[x]
  BY <1>1, <1>2, ViewIs
<1> QED BY <1>1, <1>3, ViewIs, SameMap

\* An entry written for k is what the map gets for k, unless its time has passed.
LEMMA ViewPut ==
  ASSUME NEW d, NEW e, NEW k, NEW t \in Nat, NEW v, NEW at \in Nat, Positive(d), Positive(e),
         Others(d, e, k), k \in DOMAIN e.data, e.data[k] = v, TimeOf(e, k) = at
  PROVE  View(e, t) = Promised!Alive(Put(View(d, t), k, Promised!Entry(v, at)), t)
<1> DEFINE w == Put(View(d, t), k, Promised!Entry(v, at))
           f == Promised!Alive(w, t)
<1>1. /\ \A x : x \in DOMAIN w <=> x = k \/ Live(d, x, t)
      /\ w[k] = [val |-> v, at |-> at]
      /\ \A x : x # k /\ Live(d, x, t) => w[x] = [val |-> d.data[x], at |-> TimeOf(d, x)]
  BY ViewIs DEF Put, Promised!Entry
<1> HIDE DEF w
<1>2. /\ \A x : x \in DOMAIN f <=> x \in DOMAIN w /\ (w[x].at = 0 \/ w[x].at > t)
      /\ \A x \in DOMAIN f : f[x] = w[x]
      /\ f = [x \in DOMAIN f |-> f[x]]
  BY DEF Promised!Alive
<1> HIDE DEF f
<1>3. ASSUME NEW x, x # k
      PROVE  /\ Live(e, x, t) <=> x \in DOMAIN f
             /\ x \in DOMAIN f => f[x] = [val |-> e.data[x], at |-> TimeOf(e, x)]
  <2>1. SameEntries(d, e, x)
    BY <1>3 DEF Others
  <2>2. /\ Live(e, x, t) <=> Live(d, x, t)
        /\ TimeOf(e, x) = TimeOf(d, x)
        /\ Live(d, x, t) => e.data[x] = d.data[x]
    BY <2>1, SameLive
  <2>3. Live(d, x, t) => TimeOf(d, x) = 0 \/ TimeOf(d, x) > t
    BY DEF Live, Expired, TimeOf, Positive
  <2>4. Live(d, x, t) => w[x].at = TimeOf(d, x)
    <3>1. Live(d, x, t) => w[x] = [val |-> d.data[x], at |-> TimeOf(d, x)]
      BY <1>1, <1>3
    <3> HIDE DEF TimeOf, Live
    <3> QED BY <3>1
  <2> QED BY <1>1, <1>2, <1>3, <2>2, <2>3, <2>4
<1>4. /\ Live(e, k, t) <=> k \in DOMAIN f
      /\ k \in DOMAIN f => f[k] = [val |-> e.data[k], at |-> TimeOf(e, k)]
  <2>1. Live(e, k, t) <=> at = 0 \/ at > t
    BY DEF Live, Expired, TimeOf, Positive
  <2>2. w[k].at = at
    BY <1>1
  <2> QED BY <1>1, <1>2, <2>1, <2>2
<1>5. \A x : x \in DOMAIN View(e, t) <=> x \in DOMAIN f
  BY Zenon, <1>3, <1>4, ViewIs
<1>6. \A x \in DOMAIN View(e, t) : View(e, t)[x] = f[x]
  BY <1>3, <1>4, <1>5, ViewIs
<1>7. View(e, t) = f
  BY <1>2, <1>5, <1>6, ViewIs, SameMap
<1> QED BY <1>7 DEF f, w

\* A key erased from the tables leaves the map.
LEMMA ViewDrop ==
  ASSUME NEW d, NEW e, NEW k, NEW t, Others(d, e, k), k \notin DOMAIN e.data
  PROVE  View(e, t) = Promised!Without(View(d, t), {k})
<1> DEFINE w == View(d, t)
           f == Promised!Without(w, {k})
<1>1. /\ \A x : x \in DOMAIN f <=> x # k /\ x \in DOMAIN w
      /\ \A x \in DOMAIN f : f[x] = w[x]
      /\ f = [x \in DOMAIN f |-> f[x]]
  BY DEF Promised!Without
<1> HIDE DEF f
<1>2. \A x : x # k => /\ Live(e, x, t) <=> Live(d, x, t)
                      /\ TimeOf(e, x) = TimeOf(d, x)
                      /\ Live(d, x, t) => e.data[x] = d.data[x]
  BY SameLive DEF Others
<1>3. ~Live(e, k, t)
  BY DEF Live
<1>4. \A x : x \in DOMAIN View(e, t) <=> x \in DOMAIN f
  BY <1>1, <1>2, <1>3, ViewIs
<1>5. \A x \in DOMAIN View(e, t) : View(e, t)[x] = f[x]
  BY <1>1, <1>2, <1>3, <1>4, ViewIs
<1>6. View(e, t) = f
  BY <1>1, <1>4, <1>5, ViewIs, SameMap
<1> QED BY <1>6 DEF f

-----------------------------------------------------------------------------
(* Reading *)

\* FindOrExpire changes nothing that is visible, and finds the visible keys.
LEMMA FindOrExpireView ==
  ASSUME NEW d, NEW k, NEW t, NEW e, e = FindOrExpire(d, k, t)
  PROVE  /\ View(e, t) = View(d, t)
         /\ Positive(d) => Positive(e)
         /\ Live(d, k, t) => e = d
         /\ ~Live(d, k, t) => k \notin DOMAIN e.data
         /\ k \in DOMAIN e.data <=> Live(d, k, t)
<1>1. /\ Others(d, e, k)
      /\ Positive(d) => Positive(e)
  BY DEF FindOrExpire, EraseData, EraseExpire, Tables, Drop, Others, SameEntries, Positive
<1>2. /\ Live(d, k, t) => e = d
      /\ ~Live(d, k, t) => k \notin DOMAIN e.data
  BY DEF FindOrExpire, EraseData, EraseExpire, Tables, Drop, Live
<1>3. View(e, t) = View(d, t)
  <2>1. CASE Live(d, k, t)
    BY <1>2, <2>1
  <2>2. CASE ~Live(d, k, t)
    <3>1. ~Live(e, k, t)
      BY <1>2, <2>2 DEF Live
    <3> QED BY <1>1, <2>2, <3>1, ViewSame
  <2> QED BY <2>1, <2>2
<1>4. k \in DOMAIN e.data <=> Live(d, k, t)
  BY <1>2 DEF Live
<1> QED BY <1>1, <1>2, <1>3, <1>4

\* GET answers what the map has, and changes nothing that is visible.
LEMMA GetView ==
  ASSUME NEW d, NEW k, NEW t, NEW r, r = GetFunctionBase(d, k, t)
  PROVE  /\ View(r.db, t) = View(d, t)
         /\ Positive(d) => Positive(r.db)
         /\ r.reply = Promised!Old(View(d, t), k)
         /\ r.reply # Nil <=> Live(d, k, t)
         /\ Live(d, k, t) => r.db.data = d.data /\ r.db.expire = d.expire
         /\ ~Live(d, k, t) => k \notin DOMAIN r.db.data
<1> DEFINE e == FindOrExpire(d, k, t)
<1>1. /\ View(e, t) = View(d, t)
      /\ Positive(d) => Positive(e)
      /\ Live(d, k, t) => e = d
      /\ ~Live(d, k, t) => k \notin DOMAIN e.data
      /\ k \in DOMAIN e.data <=> Live(d, k, t)
  BY FindOrExpireView
<1>2. r = IF k \in DOMAIN e.data THEN Done(Lend(e, k), Str(e.data[k])) ELSE Done(e, Nil)
  BY DEF GetFunctionBase
<1> HIDE DEF e
<1>3. CASE Live(d, k, t)
  <2>1. r.db = Lend(d, k) /\ r.reply = Str(d.data[k])
    BY <1>1, <1>2, <1>3 DEF Done
  <2>2. Lend(d, k).data = d.data /\ Lend(d, k).expire = d.expire
    BY DEF Lend, Tables
  <2>3. View(Lend(d, k), t) = View(d, t)
    BY <2>2 DEF View, Expired
  <2>4. Positive(d) => Positive(Lend(d, k))
    BY <2>2 DEF Positive
  <2>5. Promised!Old(View(d, t), k) = Str(d.data[k])
    <3>1. k \in DOMAIN View(d, t) /\ View(d, t)[k] = [val |-> d.data[k], at |-> TimeOf(d, k)]
      BY <1>3, ViewIs
    <3> QED BY <3>1, SameTypes DEF Promised!Old
  <2> QED BY <1>3, <2>1, <2>2, <2>3, <2>4, <2>5, Kinds
<1>4. CASE ~Live(d, k, t)
  <2>1. r.db = e /\ r.reply = Nil
    BY <1>1, <1>2, <1>4 DEF Done
  <2>2. Promised!Old(View(d, t), k) = Nil
    BY <1>4, ViewIs, SameTypes DEF Promised!Old
  <2> QED BY <1>1, <1>4, <2>1, <2>2
<1> QED BY <1>3, <1>4

\* What a command promises, on the view of the tables d, is what it does.
Keeps(d, c, t, r) ==
  LET p == Promised!Promise(View(d, t), c, t)
  IN  /\ r.reply = p.reply
      /\ View(r.db, t) = Promised!Alive(p.view, t)
      /\ Positive(r.db)

\* A command that answers x and leaves e, when the promise is x and the view v.
LEMMA KeepsIs ==
  ASSUME NEW d, NEW c, NEW t, NEW e, NEW v, NEW x,
         Promised!Promise(View(d, t), c, t) = Promised!Done(v, x),
         View(e, t) = Promised!Alive(v, t), Positive(e)
  PROVE  Keeps(d, c, t, Done(e, x))
BY DEF Keeps, Done, Promised!Done

\* GET reads a live value, and removes an expired one, which no view has.
LEMMA GetKeeps ==
  ASSUME NEW d, NEW c, NEW t \in Nat, Positive(d), c.op = "GET"
  PROVE  Keeps(d, c, t, GetFunctionBase(d, c.keys[1], t))
<1> DEFINE w == View(d, t)
<1>1. Promised!Promise(w, c, t) = Promised!Done(w, Promised!Old(w, c.keys[1]))
  BY Zenon DEF Promised!Promise
<1> QED BY <1>1, GetView, AliveView DEF Keeps, Promised!Done

\* STRLEN does what it promises.
LEMMA StrlenKeeps ==
  ASSUME NEW d, NEW c, NEW t \in Nat, Positive(d), c.op = "STRLEN"
  PROVE  Keeps(d, c, t, StrlenFunction(d, c, t))
<1> DEFINE w == View(d, t)
           k == c.keys[1]
           e == FindOrExpire(d, k, t)
<1>1. Promised!Promise(w, c, t) = Promised!Done(w, Num(Len(Promised!Bytes(w, k))))
  <2>1. Promised!Promise(w, c, t) = Promised!Done(w, Promised!Num(Len(Promised!Bytes(w, k))))
    BY Zenon DEF Promised!Promise
  <2> QED BY <2>1, SameTypes, Zenon
<1>2. /\ View(e, t) = w
      /\ Positive(e)
      /\ Live(d, k, t) => e = d
      /\ k \in DOMAIN e.data <=> Live(d, k, t)
  BY FindOrExpireView
<1>3. StrlenFunction(d, c, t) = Done(e, Num(IF k \in DOMAIN e.data THEN Len(e.data[k]) ELSE 0))
  BY Zenon DEF StrlenFunction
<1>4. Len(Promised!Bytes(w, k)) = IF Live(d, k, t) THEN Len(d.data[k]) ELSE 0
  <2>1. CASE Live(d, k, t)
    <3>1. k \in DOMAIN w /\ w[k] = [val |-> d.data[k], at |-> TimeOf(d, k)]
      BY <2>1, ViewIs
    <3> QED BY <2>1, <3>1 DEF Promised!Bytes
  <2>2. CASE ~Live(d, k, t)
    <3>1. Promised!Bytes(w, k) = <<>>
      BY <2>2, ViewIs DEF Promised!Bytes
    <3> QED BY <2>2, <3>1
  <2> QED BY <2>1, <2>2
<1>5. Promised!Alive(w, t) = w
  BY AliveView
<1> HIDE DEF w, e
<1>6. (IF k \in DOMAIN e.data THEN Len(e.data[k]) ELSE 0) = Len(Promised!Bytes(w, k))
  BY <1>2, <1>4
<1> QED BY <1>1, <1>2, <1>3, <1>5, <1>6 DEF Keeps, Done, Promised!Done, w

\* TTL does what it promises.
LEMMA TtlKeeps ==
  ASSUME NEW d, NEW c, NEW t \in Nat, Positive(d), c.op = "TTL"
  PROVE  Keeps(d, c, t, TtlFunction(d, c, t))
<1> DEFINE w == View(d, t)
           k == c.keys[1]
           e == FindOrExpire(d, k, t)
           n == IF k \notin DOMAIN w THEN -2
                ELSE IF w[k].at = 0 THEN -1 ELSE (w[k].at - t) \div Second
           m == IF ~Live(d, k, t) THEN -2
                ELSE IF k \notin DOMAIN d.expire THEN -1 ELSE (d.expire[k] - t) \div Second
<1>1. Promised!Promise(w, c, t) = Promised!Done(w, Num(n))
  <2>1. Promised!Promise(w, c, t) = Promised!Done(w, Promised!Num(n))
    BY Zenon DEF Promised!Promise
  <2> QED BY <2>1, SameTypes, Zenon
<1>2. View(e, t) = w /\ Positive(e)
  BY FindOrExpireView
<1>3. TtlFunction(d, c, t) = Done(e, Num(m))
  BY Zenon DEF TtlFunction, FindOrExpire, Live, Expired
<1>4. n = m
  <2>1. CASE Live(d, k, t)
    <3>1. k \in DOMAIN w /\ w[k].at = TimeOf(d, k)
      <4>1. k \in DOMAIN w /\ w[k] = [val |-> d.data[k], at |-> TimeOf(d, k)]
        BY <2>1, ViewIs
      <4> HIDE DEF TimeOf, w
      <4> QED BY <4>1
    <3> QED BY <2>1, <3>1 DEF TimeOf, Positive
  <2>2. CASE ~Live(d, k, t)
    BY <2>2, ViewIs
  <2> QED BY <2>1, <2>2
<1>5. Promised!Alive(w, t) = w
  BY AliveView
<1> HIDE DEF w, e, n, m
<1> QED BY <1>1, <1>2, <1>3, <1>4, <1>5 DEF Keeps, Done, Promised!Done, w

\* GETDEL does what it promises.
LEMMA GetDelKeeps ==
  ASSUME NEW d, NEW c, NEW t \in Nat, NEW f, Positive(d), c.op = "GETDEL"
  PROVE  Keeps(d, c, t, GetDelFunction(d, c, t, f))
<1> DEFINE w == View(d, t)
           k == c.keys[1]
           g == GetFunctionBase(d, k, t)
<1>1. Promised!Promise(w, c, t) = Promised!Done(Promised!Without(w, {k}), Promised!Old(w, k))
  BY Zenon DEF Promised!Promise
<1>2. /\ View(g.db, t) = w
      /\ Positive(g.db)
      /\ g.reply = Promised!Old(w, k)
      /\ g.reply # Nil <=> Live(d, k, t)
      /\ Live(d, k, t) => g.db.data = d.data /\ g.db.expire = d.expire
      /\ ~Live(d, k, t) => k \notin DOMAIN g.db.data
  BY GetView
<1> HIDE DEF g
<1>3. CASE ~Live(d, k, t)
  <2>1. GetDelFunction(d, c, t, f) = g
    BY <1>2, <1>3 DEF GetDelFunction, g
  <2>2. Promised!Without(w, {k}) = w
    <3>1. k \notin DOMAIN w /\ w = [x \in DOMAIN w |-> w[x]]
      BY <1>3, ViewIs
    <3>2. DOMAIN w \ {k} = DOMAIN w
      BY <3>1
    <3> HIDE DEF w
    <3> QED BY <3>1, <3>2 DEF Promised!Without
  <2>3. Promised!Alive(w, t) = w
    BY AliveView
  <2> HIDE DEF w
  <2> QED BY <1>1, <1>2, <2>1, <2>2, <2>3 DEF Keeps, Promised!Done, w
<1>4. CASE Live(d, k, t)
  <2>1. PICK e : /\ GetDelFunction(d, c, t, f) = Done(e, g.reply)
                 /\ e = EraseData(g.db, k) \/ e = EraseKey(g.db, k)
    <3>1. g.reply # Nil
      BY Zenon, <1>2, <1>4
    <3> QED BY <3>1, Zenon DEF GetDelFunction, g
  <2>2. Others(g.db, e, k) /\ k \notin DOMAIN e.data /\ Positive(e)
    BY <1>2, <2>1 DEF EraseData, EraseKey, EraseExpire, Tables, Drop, Others, SameEntries, Positive
  <2>3. View(e, t) = Promised!Without(w, {k})
    <3>1. View(e, t) = Promised!Without(View(g.db, t), {k})
      BY <2>2, ViewDrop
    <3> QED BY <1>2, <3>1
  <2>4. Promised!Alive(View(e, t), t) = View(e, t)
    BY <2>2, AliveView
  <2> HIDE DEF w
  <2> QED BY <1>1, <1>2, <2>1, <2>2, <2>3, <2>4 DEF Keeps, Done, Promised!Done, w
<1> QED BY <1>3, <1>4

\* The expiry time the options of a command give is a time, when there is one.
LEMMA ExpireTimeNat ==
  ASSUME NEW c, NEW t \in Nat, WellFormed(c)
  PROVE  ExpireTime(c, t) \in Int
BY DEF WellFormed, ExpireTime

\* GETEX does what it promises, with each of its options.
LEMMA GetEXKeeps ==
  ASSUME NEW d, NEW c, NEW t \in Nat, Positive(d), WellFormed(c), c.op = "GETEX"
  PROVE  Keeps(d, c, t, GetEXFunction(d, c, t))
<1> DEFINE w == View(d, t)
           k == c.keys[1]
           g == GetFunctionBase(d, k, t)
           at == ExpireTime(c, t)
           e == IF c.persist THEN EraseExpire(g.db, k)
                ELSE IF at > 0 THEN UpsertExpire(g.db, k, at) ELSE g.db
           new == IF c.persist THEN 0 ELSE IF at > 0 THEN at ELSE w[k].at
<1>1. Promised!Promise(w, c, t) =
        IF OptionError(c) # "none" THEN Promised!Done(w, Error(OptionError(c)))
        ELSE IF k \notin DOMAIN w THEN Promised!Done(w, Nil)
        ELSE Promised!Done(Put(w, k, Promised!Entry(w[k].val, new)), Promised!Old(w, k))
  <2>1. Promised!Promise(w, c, t) =
          LET pat == Promised!ExpireTime(c, t)
          IN  IF Promised!OptionError(c) # "none"
              THEN Promised!Done(w, Promised!Error(Promised!OptionError(c)))
              ELSE IF k \notin DOMAIN w THEN Promised!Done(w, Promised!Nil)
              ELSE Promised!Done(Promised!Put(w, k, Promised!Entry(w[k].val,
                                   IF c.persist THEN 0 ELSE IF pat > 0 THEN pat ELSE w[k].at)),
                                 Promised!Old(w, k))
    BY Zenon DEF Promised!Promise
  <2> QED BY <2>1, SameTypes
<1>2. /\ View(g.db, t) = w
      /\ Positive(g.db)
      /\ g.reply = Promised!Old(w, k)
      /\ g.reply # Nil <=> Live(d, k, t)
      /\ Live(d, k, t) => g.db.data = d.data /\ g.db.expire = d.expire
  BY GetView
<1>3. Promised!Alive(w, t) = w /\ (k \in DOMAIN w <=> Live(d, k, t))
  BY AliveView, ViewIs
<1>4. at \in Int
  BY ExpireTimeNat
<1> HIDE DEF g, at, w, k, new, e
<1>5. GetEXFunction(d, c, t) = IF OptionError(c) # "none" THEN Done(d, Error(OptionError(c)))
                               ELSE IF g.reply = Nil THEN g ELSE Done(e, g.reply)
  BY Zenon DEF GetEXFunction, g, at, e, k
<1>6. CASE OptionError(c) # "none"
  BY <1>1, <1>3, <1>5, <1>6 DEF Keeps, Done, Promised!Done, w
<1>7. CASE OptionError(c) = "none" /\ ~Live(d, k, t)
  <2>1. Promised!Old(w, k) = Nil
    BY <1>2, <1>7
  <2> QED BY <1>1, <1>2, <1>3, <1>5, <1>7, <2>1 DEF Keeps, Promised!Done, w
<1>8. CASE OptionError(c) = "none" /\ Live(d, k, t)
  <2>1. k \in DOMAIN d.data /\ w[k].val = d.data[k] /\ w[k].at = TimeOf(d, k)
    <3>1. w[k] = [val |-> d.data[k], at |-> TimeOf(d, k)]
      BY <1>3, <1>8, ViewIs DEF w
    <3> QED BY <1>8, <3>1 DEF Live
  <2>2. /\ Others(d, e, k) /\ e.data = d.data /\ TimeOf(e, k) = new
        /\ Positive(e) /\ new \in Nat
    <3>0. g.db.data = d.data /\ g.db.expire = d.expire /\ Positive(g.db)
      BY <1>2, <1>8
    <3>1. CASE c.persist
      BY <3>0, <3>1
         DEF e, new, EraseExpire, Tables, Drop, Others, SameEntries, Positive, TimeOf
    <3>2. CASE ~c.persist /\ at > 0
      BY <1>4, <3>0, <3>2
         DEF e, new, UpsertExpire, Tables, Put, Others, SameEntries, Positive, TimeOf
    <3>3. CASE ~c.persist /\ ~(at > 0)
      BY <2>1, <3>0, <3>3 DEF e, new, Others, SameEntries, Positive, TimeOf
    <3> QED BY <3>1, <3>2, <3>3
  <2>3. View(e, t) = Promised!Alive(Put(w, k, Promised!Entry(w[k].val, new)), t)
    <3>1. View(e, t) = Promised!Alive(Put(View(d, t), k, Promised!Entry(d.data[k], new)), t)
      BY <2>1, <2>2, ViewPut
    <3> QED BY <2>1, <3>1 DEF w
  <2>4. GetEXFunction(d, c, t) = Done(e, g.reply)
    BY <1>2, <1>5, <1>8
  <2>5. Promised!Promise(w, c, t) =
          Promised!Done(Put(w, k, Promised!Entry(w[k].val, new)), Promised!Old(w, k))
    BY <1>1, <1>3, <1>8
  <2> QED BY <1>2, <2>2, <2>3, <2>4, <2>5 DEF Keeps, Done, Promised!Done, w
<1> QED BY Zenon, <1>6, <1>7, <1>8

-----------------------------------------------------------------------------
(* The loops of reads *)

\* The first n + 1 results, as a sequence, are the first n and one more.
LEMMA OneMoreResult ==
  ASSUME NEW f, NEW n \in Nat
  PROVE  Append([i \in 1 .. n |-> f[i]], f[n + 1]) = [i \in 1 .. n + 1 |-> f[i]]
<1> DEFINE S == {f[i] : i \in 1 .. n + 1}
           s == [i \in 1 .. n |-> f[i]]
<1>1. s \in Seq(S) /\ Len(s) = n /\ f[n + 1] \in S
  OBVIOUS
<1> QED BY <1>1

\* MGET does what it promises, by induction over its keys.
LEMMA MGetKeeps ==
  ASSUME NEW d, NEW c, NEW t \in Nat, Positive(d), WellFormed(c), c.op = "MGET"
  PROVE  Keeps(d, c, t, MGetFunction(d, c, t))
<1> DEFINE After(n) == AfterKeys(c, t, Done(d, List(<<>>)), n)
           w == View(d, t)
           f == [i \in Nat |-> Promised!Old(w, c.keys[i]).strs]
           Good(n) == /\ View(After(n).db, t) = w
                      /\ Positive(After(n).db)
                      /\ After(n).reply = List([i \in 1 .. n |-> f[i]])
           S == {n \in Nat : Good(n)}
<1>1. After(0) = Done(d, List(<<>>)) /\ \A n \in Nat : After(n + 1) = MGetKey(c, t, After(n), n + 1)
  <2>1. \A acc, i : ForKey(c, t, acc, i) = MGetKey(c, t, acc, i)
    BY Zenon DEF ForKey
  <2> QED BY <2>1, NoKeys, OneMoreKey
<1> HIDE DEF After, f
<1>2. 0 \in S
  <2>1. [i \in 1 .. 0 |-> f[i]] = <<>>
    OBVIOUS
  <2> QED BY <1>1, <2>1 DEF Done
<1>3. ASSUME NEW n \in Nat, n \in S
      PROVE  n + 1 \in S
  <2> DEFINE a == After(n)
             k == c.keys[n + 1]
             r == GetFunctionBase(a.db, k, t)
  <2>1. Good(n) /\ After(n + 1) = MGetKey(c, t, a, n + 1)
    BY <1>1, <1>3
  <2>2. After(n + 1) = Done(r.db, List(Append(a.reply.list, r.reply.strs)))
    BY <2>1 DEF MGetKey
  <2> HIDE DEF a
  <2>3. View(r.db, t) = w /\ Positive(r.db) /\ r.reply = Promised!Old(w, k)
    BY <2>1, GetView DEF a
  <2> HIDE DEF r
  <2>4. r.reply.strs = f[n + 1]
    BY <2>3 DEF f
  <2>5. a.reply.list = [i \in 1 .. n |-> f[i]]
    BY <2>1 DEF List, Reply, a
  <2>6. Append(a.reply.list, r.reply.strs) = [i \in 1 .. n + 1 |-> f[i]]
    BY <2>4, <2>5, OneMoreResult
  <2> QED BY <2>2, <2>3, <2>6 DEF Done
<1>4. \A n \in Nat : n \in S
  <2> HIDE DEF S
  <2> QED BY <1>2, <1>3, Inductive
<1>5. Len(c.keys) \in Nat
  BY DEF WellFormed
<1>6. MGetFunction(d, c, t) = After(Len(c.keys)) /\ Good(Len(c.keys))
  BY <1>4, <1>5 DEF MGetFunction, ForEach, After
<1>7. Promised!Promise(w, c, t) = Promised!Done(w, List([i \in 1 .. Len(c.keys) |-> f[i]]))
  <2>1. Promised!Promise(w, c, t) =
          Promised!Done(w, Promised!List([i \in 1 .. Len(c.keys) |-> Promised!Old(w, c.keys[i]).strs]))
    BY Zenon DEF Promised!Promise
  <2>2. [i \in 1 .. Len(c.keys) |-> Promised!Old(w, c.keys[i]).strs] = [i \in 1 .. Len(c.keys) |-> f[i]]
    BY <1>5 DEF f
  <2> QED BY <2>1, <2>2, SameTypes
<1>8. Promised!Alive(w, t) = w
  BY AliveView
<1> HIDE DEF w
<1> QED BY <1>6, <1>7, <1>8 DEF Keeps, Promised!Done, w

-----------------------------------------------------------------------------
(* Writing *)

\* The tables e are the tables d with value v and expiry time at for key k.
Stores(d, e, k, v, at) ==
  /\ Others(d, e, k)
  /\ k \in DOMAIN e.data /\ e.data[k] = v
  /\ TimeOf(e, k) = at /\ at \in Nat
  /\ Positive(e)

\* A value alone keeps the expiry time, and a time alone the value.
LEMMA SetValueStores ==
  ASSUME NEW d, NEW k, NEW v, Positive(d)
  PROVE  Stores(d, SetValue(d, k, v), k, v, TimeOf(d, k))
BY Zenon DEF Stores, SetValue, Tables, Put, Others, SameEntries, Positive, TimeOf

\* Giving a stored key an expiry time.
LEMMA UpsertStores ==
  ASSUME NEW d, NEW e, NEW k, NEW v, NEW old, NEW at \in Nat \ {0}, Stores(d, e, k, v, old)
  PROVE  Stores(d, UpsertExpireShared(e, k, at), k, v, at)
BY Zenon DEF Stores, UpsertExpireShared, Tables, Put, Others, SameEntries, Positive, TimeOf

\* Taking the expiry time of a stored key away.
LEMMA EraseStores ==
  ASSUME NEW d, NEW e, NEW k, NEW v, NEW old, Stores(d, e, k, v, old)
  PROVE  Stores(d, EraseExpire(e, k), k, v, 0)
BY DEF Stores, EraseExpire, Tables, Drop, Others, SameEntries, Positive, TimeOf

\* What the tables store is what the map gets.
LEMMA StoresView ==
  ASSUME NEW d, NEW e, NEW k, NEW v, NEW at, NEW t \in Nat, Positive(d), Stores(d, e, k, v, at)
  PROVE  View(e, t) = Promised!Alive(Put(View(d, t), k, Promised!Entry(v, at)), t)
BY ViewPut DEF Stores

\* SETEX does what it promises.
LEMMA SetEXKeeps ==
  ASSUME NEW d, NEW c, NEW t \in Nat, Positive(d), WellFormed(c), c.op = "SETEX"
  PROVE  Keeps(d, c, t, SetEXFunctionBase(d, c, t))
<1> DEFINE w == View(d, t)
           k == c.keys[1]
           v == c.vals[1]
           e == UpsertExpireShared(SetValue(d, k, v), k, t + c.ttl)
<1>1. PICK x : /\ SetEXFunctionBase(d, c, t) =
                    IF c.ttl <= 0 THEN Done(d, Error(x)) ELSE Done(e, OK)
               /\ Promised!Promise(w, c, t) =
                    IF c.ttl <= 0 THEN Promised!Done(w, Promised!Error(x))
                    ELSE Promised!Done(Promised!Put(w, k, Promised!Entry(v, t + c.ttl)), Promised!OK)
  BY Zenon DEF SetEXFunctionBase, Promised!Promise
<1>2. Promised!Alive(w, t) = w
  BY AliveView
<1> HIDE DEF w, k, v, e
<1>3. c.ttl \in Int
  BY DEF WellFormed
<1>4. CASE c.ttl <= 0
  <2>1. /\ SetEXFunctionBase(d, c, t) = Done(d, Error(x))
        /\ Promised!Promise(w, c, t) = Promised!Done(w, Error(x))
    BY Zenon, <1>1, <1>4, SameTypes
  <2> QED BY <1>2, <2>1 DEF Keeps, Done, Promised!Done, w
<1>5. CASE ~(c.ttl <= 0)
  <2>1. /\ SetEXFunctionBase(d, c, t) = Done(e, OK)
        /\ Promised!Promise(w, c, t) = Promised!Done(Put(w, k, Promised!Entry(v, t + c.ttl)), OK)
    BY <1>1, <1>5, SameTypes
  <2>2. Stores(d, e, k, v, t + c.ttl)
    <3>1. Stores(d, SetValue(d, k, v), k, v, TimeOf(d, k))
      BY SetValueStores
    <3>2. t + c.ttl \in Nat \ {0}
      BY <1>3, <1>5
    <3> QED BY <3>1, <3>2, UpsertStores DEF e
  <2>3. View(e, t) = Promised!Alive(Put(w, k, Promised!Entry(v, t + c.ttl)), t) /\ Positive(e)
    BY <2>2, StoresView DEF Stores, w
  <2>4. Keeps(d, c, t, Done(e, OK))
    BY <2>1, <2>3, KeepsIs DEF w
  <2> QED BY <2>1, <2>4
<1> QED BY <1>4, <1>5

\* Every expiry time belongs to a key with data.
Paired(d) == Stranded(d) = {}

\* A key without data has no expiry time in paired tables.
LEMMA PairedTime ==
  ASSUME NEW d, NEW k, Paired(d), k \notin DOMAIN d.data
  PROVE  TimeOf(d, k) = 0
BY DEF Paired, Stranded, TimeOf

\* The tables and the status of SetData in mode NX.
LEMMA SetNXStores ==
  ASSUME NEW d, NEW k, NEW v, NEW t, Positive(d), Paired(d)
  PROVE  LET r == SetNX(d, k, v, t)
         IN  /\ Live(d, k, t) => r = Status(d, "noop", Nil)
             /\ ~Live(d, k, t) => r.status = "inserted" /\ Stores(d, r.db, k, v, 0)
<1> DEFINE r == SetNX(d, k, v, t)
<1>1. CASE Live(d, k, t)
  BY <1>1 DEF SetNX, Live
<1>2. CASE k \notin DOMAIN d.data
  <2>1. r = Status(SetValue(d, k, v), "inserted", Nil) /\ TimeOf(d, k) = 0
    BY <1>2, PairedTime DEF SetNX
  <2>2. Stores(d, SetValue(d, k, v), k, v, 0)
    BY Zenon, <2>1, SetValueStores
  <2> QED BY <1>2, <2>1, <2>2 DEF Status, Live
<1>3. CASE k \in DOMAIN d.data /\ ~Live(d, k, t)
  <2>1. r = Status(EraseExpire(SetValue(d, k, v), k), "inserted", Nil)
    BY <1>3 DEF SetNX, Live
  <2>2. Stores(d, EraseExpire(SetValue(d, k, v), k), k, v, 0)
    BY SetValueStores, EraseStores
  <2> QED BY <1>3, <2>1, <2>2 DEF Status
<1> QED BY <1>1, <1>2, <1>3 DEF Live

\* SETNX does what it promises.
LEMMA SetNXKeeps ==
  ASSUME NEW d, NEW c, NEW t \in Nat, Positive(d), Paired(d), WellFormed(c), c.op = "SETNX"
  PROVE  Keeps(d, c, t, SetNXFunction(d, c, t))
<1> DEFINE w == View(d, t)
           k == c.keys[1]
           v == c.vals[1]
           r == SetNX(d, k, v, t)
<1>1. SetNXFunction(d, c, t) = Done(r.db, Num(IF r.status = "inserted" THEN 1 ELSE 0))
  <2>1. SetData(d, k, v, "NX", FALSE, t) = r
    BY Zenon DEF SetData
  <2> QED BY <2>1, Zenon DEF SetNXFunction
<1>2. /\ k \in DOMAIN w => Promised!Promise(w, c, t) = Promised!Done(w, Num(0))
      /\ k \notin DOMAIN w => Promised!Promise(w, c, t) = Promised!Done(Promised!PutAll(w, c), Num(1))
  <2>1. Promised!Promise(w, c, t) =
          IF k \in DOMAIN w THEN Promised!Done(w, Promised!Num(0))
          ELSE Promised!Done(Promised!PutAll(w, c), Promised!Num(1))
    BY Zenon DEF Promised!Promise
  <2> QED BY <2>1, SameTypes
<1>3. /\ Live(d, k, t) => r = Status(d, "noop", Nil)
      /\ ~Live(d, k, t) => r.status = "inserted" /\ Stores(d, r.db, k, v, 0)
  BY SetNXStores
<1>4. (k \in DOMAIN w <=> Live(d, k, t)) /\ Promised!Alive(w, t) = w
  BY Zenon, ViewIs, AliveView
<1> HIDE DEF w, k, v, r
<1>5. CASE Live(d, k, t)
  <2>1. SetNXFunction(d, c, t) = Done(d, Num(0))
    BY <1>1, <1>3, <1>5 DEF Status
  <2> QED BY <1>2, <1>4, <1>5, <2>1 DEF Keeps, Done, Promised!Done, w
<1>6. CASE ~Live(d, k, t)
  <2>1. SetNXFunction(d, c, t) = Done(r.db, Num(1)) /\ Stores(d, r.db, k, v, 0)
    BY <1>1, <1>3, <1>6
  <2>2. Promised!PutAll(w, c) = Put(w, k, Promised!Entry(v, 0))
    <3>1. Len(c.keys) = 1
      BY DEF WellFormed, Single
    <3>2. Promised!KeysOf(c) = {k}
      BY <3>1, SameTypes DEF KeysOf, k
    <3>3. Promised!LastFor(c, k) = v
      BY <3>1 DEF Promised!LastFor, k, v
    <3> QED BY <3>2, <3>3 DEF Promised!PutAll, Put
  <2>3. View(r.db, t) = Promised!Alive(Put(w, k, Promised!Entry(v, 0)), t) /\ Positive(r.db)
    BY <2>1, StoresView DEF Stores, w
  <2> QED BY <1>2, <1>4, <1>6, <2>1, <2>2, <2>3 DEF Keeps, Done, Promised!Done, w
<1> QED BY <1>5, <1>6

\* The options without an error give a time, or none.
LEMMA NoOptionError ==
  ASSUME NEW c, NEW t \in Nat, WellFormed(c), OptionError(c) = "none"
  PROVE  ExpireTime(c, t) \in Nat /\ (c.ttl + c.until > 0 => ExpireTime(c, t) > 0)
<1>1. ~(c.ttl < 0) /\ ~(c.until < 0)
  BY Zenon DEF OptionError
<1> QED BY <1>1 DEF WellFormed, ExpireTime

\* What SET promises, in the types and the arithmetic of the service.
LEMMA PromisedSet ==
  ASSUME NEW w, NEW c, NEW t
  PROVE  LET k == c.keys[1]
             at == ExpireTime(c, t)
             new == IF at > 0 THEN at ELSE IF c.keep THEN Promised!At(w, k) ELSE 0
             old == Promised!Old(w, k)
         IN  Promised!Set(w, c, t) =
               IF OptionError(c) # "none" THEN Promised!Done(w, Error(OptionError(c)))
               ELSE IF (c.mode = "NX" /\ k \in DOMAIN w) \/ (c.mode = "XX" /\ k \notin DOMAIN w)
               THEN Promised!Done(w, IF c.get THEN old ELSE Nil)
               ELSE Promised!Done(Put(w, k, Promised!Entry(c.vals[1], new)), IF c.get THEN old ELSE OK)
BY Zenon, SameTypes DEF Promised!Set

\* SET, once its status is known: the tables r that SetData leaves have the new
\* value, and the expiry time is the one given, the old one or none.
LEMMA SetKeeps ==
  ASSUME NEW d, NEW c, NEW t \in Nat, Positive(d), Paired(d), WellFormed(c), Conforms(c), c.op = "SET"
  PROVE  Keeps(d, c, t, SetFunction(d, c, t))
<1> DEFINE w == View(d, t)
           k == c.keys[1]
           v == c.vals[1]
           r == SetData(d, k, v, c.mode, c.get, t)
           at == ExpireTime(c, t)
           e == IF at > 0 THEN UpsertExpireShared(r.db, k, at)
                ELSE IF r.status = "updated" /\ ~c.keep THEN EraseExpire(r.db, k)
                ELSE r.db
           new == IF at > 0 THEN at ELSE IF c.keep THEN Promised!At(w, k) ELSE 0
           noop == (c.mode = "NX" /\ k \in DOMAIN w) \/ (c.mode = "XX" /\ k \notin DOMAIN w)
           old == Promised!Old(w, k)
<1>1. SetFunction(d, c, t) = IF OptionError(c) # "none" THEN Done(d, Error(OptionError(c)))
                             ELSE IF r.status = "noop" THEN Done(r.db, Nil)
                             ELSE Done(e, IF c.get THEN r.old ELSE OK)
  BY Zenon DEF SetFunction
<1>2. Promised!Promise(w, c, t) =
        IF OptionError(c) # "none" THEN Promised!Done(w, Error(OptionError(c)))
        ELSE IF noop THEN Promised!Done(w, IF c.get THEN old ELSE Nil)
        ELSE Promised!Done(Put(w, k, Promised!Entry(v, new)), IF c.get THEN old ELSE OK)
  <2>1. Promised!Promise(w, c, t) = Promised!Set(w, c, t)
    BY Zenon DEF Promised!Promise
  <2> HIDE DEF w
  <2> QED BY Zenon, <2>1, PromisedSet
<1>3. Promised!Alive(w, t) = w /\ (k \in DOMAIN w <=> Live(d, k, t))
  BY Zenon, AliveView, ViewIs
<1> HIDE DEF w, r, at, e, new, noop, old
<1>4. CASE OptionError(c) # "none"
  <2>1. /\ SetFunction(d, c, t) = Done(d, Error(OptionError(c)))
        /\ Promised!Promise(w, c, t) = Promised!Done(w, Error(OptionError(c)))
    BY Zenon, <1>1, <1>2, <1>4
  <2> QED BY Zenon, <1>3, <2>1, KeepsIs DEF w
<1>5. CASE OptionError(c) = "none"
  <2>1. at \in Nat /\ (c.ttl + c.until > 0 => at > 0)
    BY Zenon, <1>5, NoOptionError DEF at
  <2>2. /\ Live(d, k, t) => old = Str(d.data[k])
        /\ ~Live(d, k, t) => old = Nil
    <3>1. Live(d, k, t) => w[k] = [val |-> d.data[k], at |-> TimeOf(d, k)]
      BY ViewIs DEF w
    <3> QED BY <1>3, <3>1, SameTypes DEF old, Promised!Old
  <2>3. /\ Live(d, k, t) => Promised!At(w, k) = TimeOf(d, k)
        /\ ~Live(d, k, t) => Promised!At(w, k) = 0
    <3>1. Live(d, k, t) => w[k] = [val |-> d.data[k], at |-> TimeOf(d, k)]
      BY ViewIs DEF w
    <3> QED BY <1>3, <3>1 DEF Promised!At
  <2>4. Stores(d, SetValue(d, k, v), k, v, TimeOf(d, k))
    BY SetValueStores
  <2> SUFFICES \/ /\ noop /\ r.status = "noop" /\ (c.get => old = Nil)
                  /\ View(r.db, t) = w /\ Positive(r.db)
               \/ ~noop /\ r.status # "noop" /\ Stores(d, e, k, v, new) /\ (c.get => r.old = old)
    <3>1. CASE /\ noop /\ r.status = "noop" /\ (c.get => old = Nil)
               /\ View(r.db, t) = w /\ Positive(r.db)
      <4>1. /\ SetFunction(d, c, t) = Done(r.db, Nil)
            /\ Promised!Promise(w, c, t) = Promised!Done(w, Nil)
        BY Zenon, <1>1, <1>2, <1>5, <3>1
      <4>2. Keeps(d, c, t, Done(r.db, Nil))
        BY Zenon, <1>3, <3>1, <4>1, KeepsIs DEF w
      <4> QED BY Zenon, <4>1, <4>2
    <3>2. CASE ~noop /\ r.status # "noop" /\ Stores(d, e, k, v, new) /\ (c.get => r.old = old)
      <4> DEFINE answer == IF c.get THEN old ELSE OK
      <4>1. /\ SetFunction(d, c, t) = Done(e, answer)
            /\ Promised!Promise(w, c, t) = Promised!Done(Put(w, k, Promised!Entry(v, new)), answer)
        <5>1. SetFunction(d, c, t) = Done(e, answer)
          BY Zenon, <1>1, <1>5, <3>2
        <5>2. Promised!Promise(w, c, t) = Promised!Done(Put(w, k, Promised!Entry(v, new)), answer)
          BY Zenon, <1>2, <1>5, <3>2
        <5> QED BY Zenon, <5>1, <5>2
      <4> HIDE DEF answer
      <4>2. View(e, t) = Promised!Alive(Put(w, k, Promised!Entry(v, new)), t) /\ Positive(e)
        <5>1. Stores(d, e, k, v, new)
          BY <3>2
        <5> HIDE DEF k, v
        <5>2. Positive(e)
          BY <5>1 DEF Stores
        <5>3. View(e, t) = Promised!Alive(Put(View(d, t), k, Promised!Entry(v, new)), t)
          BY <5>1, StoresView
        <5> QED BY Zenon, <5>2, <5>3 DEF w
      <4>3. Keeps(d, c, t, Done(e, answer))
        BY Zenon, <4>1, <4>2, KeepsIs DEF w
      <4> QED BY Zenon, <4>1, <4>3
    <3> QED BY Zenon, <3>1, <3>2
  <2> HIDE DEF k, v
  <2>5. CASE c.mode = "regular"
    <3>1. ~c.keep /\ (c.get => c.ttl + c.until > 0)
      BY <2>5 DEF Conforms
    <3>2. r = SetRegular(d, k, v, c.get, t)
      BY Zenon, <2>5 DEF r, SetData
    <3>3. /\ r.db = SetValue(d, k, v)
          /\ r.status # "noop"
          /\ ~c.get /\ r.status # "updated" => k \notin DOMAIN d.data
          /\ c.get => r.old = old
      BY <2>2, <3>2 DEF SetRegular, Status
    <3>4. new = at
      BY <2>1, <3>1 DEF new
    <3>5. Stores(d, e, k, v, at)
      <4>1. CASE at > 0
        BY <2>1, <2>4, <3>3, <4>1, UpsertStores DEF e
      <4>2. CASE ~(at > 0) /\ r.status = "updated"
        <5>1. e = EraseExpire(SetValue(d, k, v), k) /\ at = 0
          BY <2>1, <3>1, <3>3, <4>2 DEF e
        <5> QED BY Zenon, <2>4, <5>1, EraseStores
      <4>3. CASE ~(at > 0) /\ r.status # "updated"
        <5>1. e = SetValue(d, k, v) /\ at = 0 /\ TimeOf(d, k) = 0
          BY <2>1, <3>1, <3>3, <4>3, PairedTime DEF e
        <5> QED BY <2>4, <5>1
      <4> QED BY <4>1, <4>2, <4>3
    <3> QED BY Zenon, <2>5, <3>3, <3>4, <3>5 DEF noop
  <2>6. CASE c.mode = "NX"
    <3>1. r = SetNX(d, k, v, t) /\ ~c.get
      BY <2>6 DEF r, SetData, Conforms
    <3>2. /\ Live(d, k, t) => r = Status(d, "noop", Nil)
          /\ ~Live(d, k, t) => r.status = "inserted" /\ Stores(d, r.db, k, v, 0)
      BY Zenon, <3>1, SetNXStores
    <3>3. CASE Live(d, k, t)
      BY <1>3, <2>6, <3>1, <3>2, <3>3 DEF Status, noop, w
    <3>4. CASE ~Live(d, k, t)
      <4>1. new = at
        BY <2>1, <2>3, <3>4 DEF new
      <4>2. Stores(d, e, k, v, at)
        <5>1. CASE at > 0
          BY <2>1, <3>2, <3>4, <5>1, UpsertStores DEF e
        <5>2. CASE ~(at > 0)
          BY <2>1, <3>2, <3>4, <5>2 DEF e
        <5> QED BY <5>1, <5>2
      <4>3. ~noop
        BY <1>3, <2>6, <3>4 DEF noop
      <4> QED BY <3>1, <3>2, <3>4, <4>1, <4>2, <4>3
    <3> QED BY <3>3, <3>4
  <2>7. CASE c.mode = "XX"
    <3>1. r = SetXX(d, k, v, c.get, t)
      BY <2>7 DEF r, SetData
    <3>2. CASE Live(d, k, t)
      <4>1. /\ r.db = SetValue(d, k, v)
            /\ r.status = "updated"
            /\ c.get => r.old = old
        <5>1. r = Status(SetValue(d, k, v), "updated", IF c.get THEN Str(d.data[k]) ELSE Nil)
          BY <3>1, <3>2, Zenon DEF SetXX, Live
        <5> QED BY <2>2, <3>2, <5>1 DEF Status
      <4>2. Stores(d, e, k, v, new)
        <5>1. CASE at > 0
          BY <2>1, <2>4, <4>1, <5>1, UpsertStores DEF e, new
        <5>2. CASE ~(at > 0) /\ ~c.keep
          <6>1. e = EraseExpire(SetValue(d, k, v), k) /\ new = 0
            BY <4>1, <5>2 DEF e, new
          <6> QED BY <2>4, <6>1, EraseStores
        <5>3. CASE ~(at > 0) /\ c.keep
          <6>1. e = SetValue(d, k, v) /\ new = TimeOf(d, k)
            BY <2>3, <3>2, <4>1, <5>3 DEF e, new
          <6> QED BY Zenon, <2>4, <6>1
        <5> QED BY <5>1, <5>2, <5>3 DEF WellFormed
      <4>3. ~noop
        BY Zenon, <1>3, <2>7, <3>2 DEF noop
      <4> QED BY <4>1, <4>2, <4>3
    <3>3. CASE ~Live(d, k, t)
      <4>1. r.status = "noop" /\ r.db = FindOrExpire(d, k, t)
        <5> DEFINE erased == EraseExpire(EraseData(d, k), k)
        <5>1. CASE k \notin DOMAIN d.data
          BY <3>1, <5>1 DEF SetXX, Status, FindOrExpire
        <5>2. CASE k \in DOMAIN d.data
          <6>1. Expired(d, k, t)
            BY <3>3, <5>2 DEF Live
          <6>2. r = Status(erased, "noop", Nil) /\ FindOrExpire(d, k, t) = erased
            BY <3>1, <5>2, <6>1, Zenon DEF SetXX, FindOrExpire
          <6> HIDE DEF erased
          <6> QED BY <6>2 DEF Status
        <5> QED BY Zenon, <5>1, <5>2
      <4>2. View(r.db, t) = w /\ Positive(r.db)
        BY <4>1, FindOrExpireView DEF w
      <4> QED BY <1>3, <2>2, <2>7, <3>3, <4>1, <4>2 DEF noop, w
    <3> QED BY <3>2, <3>3
  <2>8. c.mode # "conflict"
    BY Zenon, <1>5 DEF OptionError
  <2>9. c.mode \in {"regular", "NX", "XX", "conflict"}
    BY DEF WellFormed
  <2> QED BY Zenon, <2>5, <2>6, <2>7, <2>8, <2>9
<1> QED BY <1>4, <1>5

\* MSET, key by key: a key named so far has the last value given for it.
LEMMA MSetKeeps ==
  ASSUME NEW d, NEW c, NEW t \in Nat, Positive(d), WellFormed(c), c.op = "MSET"
  PROVE  Keeps(d, c, t, MSetFunction(d, c, t))
<1> DEFINE After(n) == AfterKeys(c, t, Done(d, OK), n)
           w == View(d, t)
           E(n) == View(After(n).db, t)
           Last(x, i, n) == i \in 1 .. n /\ c.keys[i] = x /\ \A j \in 1 .. n : c.keys[j] = x => j <= i
           Named(x, n) == \E i \in 1 .. n : c.keys[i] = x
           Good(n) == /\ \A x : ~Named(x, n) => (x \in DOMAIN E(n) <=> x \in DOMAIN w)
                      /\ \A x \in DOMAIN w : ~Named(x, n) => E(n)[x] = w[x]
                      /\ \A x : Named(x, n) =>
                           /\ x \in DOMAIN E(n)
                           /\ \E i \in 1 .. n : Last(x, i, n) /\ E(n)[x] = Promised!Entry(c.vals[i], 0)
                      /\ Positive(After(n).db)
                      /\ After(n).reply = OK
           S == {n \in Nat : Good(n)}
<1>1. After(0) = Done(d, OK) /\ \A n \in Nat : After(n + 1) = MSetKey(c, t, After(n), n + 1)
  <2>1. \A acc, i : ForKey(c, t, acc, i) = MSetKey(c, t, acc, i)
    BY Zenon DEF ForKey
  <2> QED BY <2>1, NoKeys, OneMoreKey
<1> HIDE DEF After
<1>2. 0 \in S
  <2>1. After(0).db = d /\ After(0).reply = OK
    BY <1>1 DEF Done
  <2>2. \A x : ~Named(x, 0)
    OBVIOUS
  <2> HIDE DEF Named
  <2>3. Good(0)
    BY Zenon, <2>1, <2>2
  <2> QED BY <2>3
<1>3. ASSUME NEW n \in Nat, n \in S
      PROVE  n + 1 \in S
  <2> DEFINE a == After(n).db
             e == After(n + 1).db
             k == c.keys[n + 1]
             v == c.vals[n + 1]
  <2>1. Good(n)
    BY <1>3
  <2>2. e = EraseExpire(SetValue(a, k, v), k) /\ After(n + 1).reply = OK
    <3> DEFINE s == SetData(a, k, v, "regular", FALSE, t)
    <3>1. s.db = SetValue(a, k, v)
      BY DEF SetData, SetRegular, Status
    <3>2. After(n + 1) = Done(EraseExpire(s.db, k), OK)
      BY <1>1, Zenon DEF MSetKey
    <3> HIDE DEF a, k, v, s
    <3> QED BY <3>1, <3>2 DEF Done
  <2> HIDE DEF a, e
  <2>3. Stores(a, e, k, v, 0)
    <3>1. Positive(a)
      BY <2>1 DEF a
    <3> QED BY Zenon, <2>2, <3>1, SetValueStores, EraseStores
  <2>4. k \in DOMAIN View(e, t) /\ View(e, t)[k] = Promised!Entry(v, 0)
    <3>1. Live(e, k, t)
      BY <2>3 DEF Stores, Live, Expired, TimeOf, Positive
    <3>2. View(e, t)[k] = [val |-> e.data[k], at |-> TimeOf(e, k)]
      BY <3>1, ViewIs
    <3> QED BY Zenon, <2>3, <3>1, <3>2, ViewIs DEF Stores, Promised!Entry
  <2>5. ASSUME NEW x, x # k
        PROVE  /\ x \in DOMAIN View(e, t) <=> x \in DOMAIN View(a, t)
               /\ x \in DOMAIN View(a, t) => View(e, t)[x] = View(a, t)[x]
    <3>1. SameEntries(a, e, x)
      BY Zenon, <2>3, <2>5 DEF Stores, Others
    <3> QED BY <3>1, SameLive, ViewIs
  <2>6. E(n) = View(a, t) /\ E(n + 1) = View(e, t) /\ Positive(e)
    BY <2>3 DEF a, e, Stores
  <2>7. \A x : Named(x, n + 1) <=> Named(x, n) \/ x = k
    OBVIOUS
  <2>8. Last(k, n + 1, n + 1)
    OBVIOUS
  <2>9. \A x, i : x # k /\ i \in 1 .. n /\ Last(x, i, n) => i \in 1 .. n + 1 /\ Last(x, i, n + 1)
    OBVIOUS
  <2> HIDE DEF E, Named, Last, w, k, v
  <2>10. ASSUME NEW x, Named(x, n + 1)
         PROVE  /\ x \in DOMAIN E(n + 1)
                /\ \E i \in 1 .. n + 1 : /\ Last(x, i, n + 1)
                                         /\ E(n + 1)[x] = Promised!Entry(c.vals[i], 0)
    <3>1. CASE x = k
      BY <2>4, <2>6, <2>8, <3>1 DEF v
    <3>2. CASE x # k
      <4>1. /\ x \in DOMAIN E(n)
            /\ \E i \in 1 .. n : Last(x, i, n) /\ E(n)[x] = Promised!Entry(c.vals[i], 0)
        BY Zenon, <2>1, <2>7, <2>10, <3>2
      <4> QED BY Zenon, <2>5, <2>6, <2>9, <3>2, <4>1
    <3> QED BY Zenon, <3>1, <3>2
  <2>11. ASSUME NEW x, ~Named(x, n + 1)
         PROVE  /\ x \in DOMAIN E(n + 1) <=> x \in DOMAIN w
                /\ x \in DOMAIN w => E(n + 1)[x] = w[x]
    BY <2>1, <2>5, <2>6, <2>7, <2>11
  <2>12. Good(n + 1)
    BY ZenonT(30), <2>2, <2>6, <2>10, <2>11 DEF e
  <2> QED BY <2>12
<1>4. \A n \in Nat : n \in S
  <2> HIDE DEF S
  <2> QED BY <1>2, <1>3, Inductive
<1> DEFINE N == Len(c.keys)
           f == Promised!PutAll(w, c)
<1>5. N \in Nat
  BY DEF WellFormed
<1>6. MSetFunction(d, c, t) = After(N) /\ Good(N)
  BY Zenon, <1>4, <1>5 DEF MSetFunction, ForEach, After
<1>7. /\ \A x : x \in DOMAIN f <=> x \in DOMAIN w \/ Named(x, N)
      /\ \A x \in DOMAIN w : ~Named(x, N) => f[x] = w[x]
      /\ \A x : Named(x, N) => f[x] = Promised!Entry(Promised!LastFor(c, x), 0)
      /\ f = [x \in DOMAIN f |-> f[x]]
  <2>1. \A x : x \in Promised!KeysOf(c) <=> Named(x, N)
    BY SameTypes DEF KeysOf
  <2> HIDE DEF w, Named, N
  <2> QED BY Zenon, <2>1 DEF Promised!PutAll
<1>8. \A x, i : Last(x, i, N) => Promised!LastFor(c, x) = c.vals[i]
  <2> SUFFICES ASSUME NEW x, NEW i, Last(x, i, N)
               PROVE  Promised!LastFor(c, x) = c.vals[i]
    OBVIOUS
  <2> DEFINE P(h) == c.keys[h] = x /\ \A j \in 1 .. N : c.keys[j] = x => j <= h
  <2>1. i \in 1 .. N /\ P(i)
    OBVIOUS
  <2>2. \A h \in 1 .. N : P(h) => h = i
    BY <1>5
  <2>3. (CHOOSE h \in 1 .. N : P(h)) = i
    <3> HIDE DEF P, N
    <3> QED BY <2>1, <2>2
  <2> QED BY <2>3 DEF Promised!LastFor
<1>9. E(N) = f
  <2>1. E(N) = [x \in DOMAIN E(N) |-> E(N)[x]]
    BY ViewIs
  <2> HIDE DEF E, f, w, Named, Last, N
  <2>2. \A x : x \in DOMAIN E(N) <=> x \in DOMAIN f
    BY <1>6, <1>7
  <2>3. \A x \in DOMAIN E(N) : E(N)[x] = f[x]
    BY <1>6, <1>7, <1>8
  <2> QED BY <1>7, <2>1, <2>2, <2>3, SameMap
<1>10. Promised!Promise(w, c, t) = Promised!Done(f, OK)
  <2>1. Promised!Promise(w, c, t) = Promised!Done(f, Promised!OK)
    BY Zenon DEF Promised!Promise
  <2> QED BY <2>1, SameTypes
<1> DEFINE e == After(N).db
<1>11. Promised!Alive(View(e, t), t) = View(e, t)
  BY Zenon, <1>6, AliveView
<1>12. View(e, t) = f /\ Positive(e) /\ After(N).reply = OK
  BY <1>6, <1>9
<1> HIDE DEF w, f, N, e
<1> QED BY <1>6, <1>10, <1>11, <1>12 DEF Keeps, Promised!Done, w, e
=============================================================================
