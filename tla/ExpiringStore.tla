--------------------------- MODULE ExpiringStore ----------------------------
(***************************************************************************)
(* What src/service/commands/README.md promises of the string and key      *)
(* commands: a map from keys to values with optional expiry times, on      *)
(* which every command acts at once.  A key that has expired is not in the *)
(* map.                                                                    *)
(***************************************************************************)
EXTENDS StringOps, CommandTypes, FiniteSets

CONSTANTS
  Commands,   \* the commands clients send
  Second,     \* milliseconds in a second
  Maxmemory   \* whether keys may be evicted and writes refused

VARIABLES
  view,    \* the keys that exist, with their value and expiry time (0 for none)
  now,     \* the clock
  time,    \* the time at which commands act
  reply    \* the reply to the last command

vars == <<view, now, time, reply>>

Init ==
  /\ view = [k \in {} |-> 0]
  /\ now \in Nat
  /\ time = 0
  /\ reply = Nil

-----------------------------------------------------------------------------
(* What a command does to the map w at time t, and its reply *)

Entry(v, at) == [val |-> v, at |-> at]

Old(w, k) == IF k \in DOMAIN w THEN Str(w[k].val) ELSE Nil

At(w, k) == IF k \in DOMAIN w THEN w[k].at ELSE 0

Bytes(w, k) == IF k \in DOMAIN w THEN w[k].val ELSE <<>>

\* The entries of w that have not expired at time t.
Alive(w, t) == [k \in {x \in DOMAIN w : w[x].at = 0 \/ w[x].at > t} |-> w[k]]

Done(w, r) == [view |-> w, reply |-> r]

Set(w, c, t) ==
  LET k == c.keys[1]
      at == ExpireTime(c, t)
      new == Entry(c.vals[1], IF at > 0 THEN at ELSE IF c.keep THEN At(w, k) ELSE 0)
  IN  IF OptionError(c) # "none" THEN Done(w, Error(OptionError(c)))
      ELSE IF (c.mode = "NX" /\ k \in DOMAIN w) \/ (c.mode = "XX" /\ k \notin DOMAIN w)
      THEN Done(w, IF c.get THEN Old(w, k) ELSE Nil)
      ELSE Done(Put(w, k, new), IF c.get THEN Old(w, k) ELSE OK)

\* The last value that the command gives key k.
LastFor(c, k) ==
  c.vals[CHOOSE i \in 1 .. Len(c.keys) :
           c.keys[i] = k /\ \A j \in 1 .. Len(c.keys) : c.keys[j] = k => j <= i]

PutAll(w, c) ==
  [k \in DOMAIN w \cup KeysOf(c) |-> IF k \in KeysOf(c) THEN Entry(LastFor(c, k), 0) ELSE w[k]]

Present(w, c) == {i \in 1 .. Len(c.keys) : c.keys[i] \in DOMAIN w}

Without(w, S) == [k \in DOMAIN w \ S |-> w[k]]

Promise(w, c, t) ==
  LET k == c.keys[1]
      at == ExpireTime(c, t)
  IN  CASE c.op = "SET" -> Set(w, c, t)
        [] c.op = "SETEX" ->
             IF c.ttl <= 0 THEN Done(w, Error("not an int"))
             ELSE Done(Put(w, k, Entry(c.vals[1], t + c.ttl)), OK)
        [] c.op = "SETNX" ->
             IF k \in DOMAIN w THEN Done(w, Num(0)) ELSE Done(PutAll(w, c), Num(1))
        [] c.op = "MSET" -> Done(PutAll(w, c), OK)
        [] c.op = "MSETNX" ->
             IF Present(w, c) # {} THEN Done(w, Num(0)) ELSE Done(PutAll(w, c), Num(1))
        [] c.op = "SETRANGE" ->
             LET s == Overwritten(Bytes(w, k), c.from, c.vals[1])
             IN  Done(Put(w, k, Entry(s, At(w, k))), Num(Len(s)))
        [] c.op = "APPEND" ->
             LET s == Bytes(w, k) \o c.vals[1]
             IN  Done(Put(w, k, Entry(s, At(w, k))), Num(Len(s)))
        [] c.op = "GET" -> Done(w, Old(w, k))
        [] c.op = "MGET" -> Done(w, List([i \in 1 .. Len(c.keys) |-> Old(w, c.keys[i]).strs]))
        [] c.op = "GETDEL" -> Done(Without(w, {k}), Old(w, k))
        [] c.op = "GETEX" ->
             IF OptionError(c) # "none" THEN Done(w, Error(OptionError(c)))
             ELSE IF k \notin DOMAIN w THEN Done(w, Nil)
             ELSE Done(Put(w, k, Entry(w[k].val, IF c.persist THEN 0 ELSE IF at > 0 THEN at ELSE w[k].at)),
                       Old(w, k))
        [] c.op = "GETSET" -> Done(Put(w, k, Entry(c.vals[1], 0)), Old(w, k))
        [] c.op = "GETRANGE" -> Done(w, Str(Substring(Bytes(w, k), c.from, c.to)))
        [] c.op = "STRLEN" -> Done(w, Num(Len(Bytes(w, k))))
        [] c.op = "EXISTS" -> Done(w, Num(Cardinality(Present(w, c))))
        [] c.op = "DEL" ->
             Done(Without(w, KeysOf(c)), Num(Cardinality(KeysOf(c) \cap DOMAIN w)))
        [] c.op = "TTL" ->
             Done(w, Num(IF k \notin DOMAIN w THEN -2
                         ELSE IF w[k].at = 0 THEN -1 ELSE (w[k].at - t) \div Second))

-----------------------------------------------------------------------------
\* README.md: evicting data when maxmemory limits are reached.
Limited(c) == Maxmemory /\ c.op \in WriteCommands

\* With a memory limit, keys may be lost before a write command, or it is refused.
Do(c) ==
  /\ \E S \in {T \in SUBSET DOMAIN view : Limited(c) \/ T = {}} :
       LET w == Without(view, S)
           p == Promise(w, c, time)
       IN  \/ reply' = p.reply /\ view' = Alive(p.view, time)
           \/ Limited(c) /\ reply' = Error("OOM") /\ view' = w
  /\ UNCHANGED <<now, time>>

ClockMoves ==
  /\ now' \in Nat
  /\ UNCHANGED <<view, time, reply>>

\* Commands act at a later time.  Keys leave the map when the time commands act
\* at reaches their expiry time, or earlier once the clock has.
TimeMoves ==
  /\ time' = now
  /\ \E S \in SUBSET {k \in DOMAIN view : view[k].at # 0 /\ view[k].at <= now'} :
       view' = Without(Alive(view, time'), S)
  /\ now' >= now
  /\ UNCHANGED reply

Next == (\E c \in Commands : Do(c)) \/ ClockMoves \/ TimeMoves

Spec == Init /\ [][Next]_vars
=============================================================================
