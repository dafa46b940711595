----------------------- MODULE MCDataStructureService -----------------------
(* Instances of DataStructureService for TLC. *)
EXTENDS DataStructureService

CONSTANTS k1, k2, a, b, z

\* Keys meet only in commands on several keys: one key suffices where those are
\* checked elsewhere.
OneKey == {k1}
TwoKeys == {k1, k2}
MCByte == {a, b, z}
MCValue == {<<a>>, <<b>>}

\* A command on key k without options.
Cmd(op, k) ==
  [op |-> op, keys |-> <<k>>, vals |-> <<>>, mode |-> "regular", get |-> FALSE, keep |-> FALSE,
   persist |-> FALSE, ttl |-> 0, until |-> 0, from |-> 0, to |-> 0]

Write(op, k, v) == [Cmd(op, k) EXCEPT !.vals = <<v>>]

WriteOne(op) == {Write(op, k, v) : k \in Key, v \in MCValue}

\* Options are given on the first key.
SetMode(mode) == {[Write("SET", k1, <<b>>) EXCEPT !.mode = mode]}
SetExpiring == {[Write("SET", k1, v) EXCEPT !.ttl = n] : v \in MCValue, n \in {-1, 2}}
SetUntil == {[Write("SET", k1, <<a>>) EXCEPT !.until = n] : n \in {1, 3}}
SetGet(mode) == {[c EXCEPT !.get = TRUE] : c \in SetMode(mode)}
SetKeep(mode) == {[c EXCEPT !.keep = TRUE] : c \in SetMode(mode)}
SetEX == {[Write("SETEX", k, <<a>>) EXCEPT !.ttl = 1] : k \in Key} \cup {Write("SETEX", k1, <<a>>)}
GetEX == {[Cmd("GETEX", k1) EXCEPT !.ttl = n] : n \in {-1, 1}} \cup {[Cmd("GETEX", k1) EXCEPT !.until = 1]}
Persist == {[Cmd("GETEX", k1) EXCEPT !.persist = TRUE]}
Conflict == {[Write("SET", k1, <<a>>) EXCEPT !.mode = "conflict"],
             [Cmd("GETEX", k1) EXCEPT !.mode = "conflict"]}
AppendOne == {Write("APPEND", k1, <<b>>)}
SetRange == {[Write("SETRANGE", k1, <<b>>) EXCEPT !.from = n] : n \in {0, 1}}
Ranges == {[Cmd("GETRANGE", k1) EXCEPT !.to = n] : n \in {-1, 2}}

\* A command that names both keys, or one key twice.
Both(op) == {[Cmd(op, k1) EXCEPT !.keys = <<k1, j>>, !.vals = <<<<a>>, <<b>>>>] : j \in Key}

\* Commands that keep the promise of ExpiringStore.
Conforming ==
  WriteOne("SET") \cup SetMode("NX") \cup SetMode("XX") \cup SetExpiring \cup SetUntil
  \cup SetGet("XX") \cup SetKeep("XX") \cup SetEX \cup {Write("SETNX", k1, <<b>>)} \cup Both("MSET")
  \cup Persist \cup Conflict \cup Both("MGET") \cup Both("EXISTS") \cup Both("DEL")
  \cup {Cmd(op, k1) : op \in {"GET", "GETDEL", "GETEX", "STRLEN", "DEL", "TTL"}}

All ==
  Conforming \cup GetEX \cup SetGet("regular") \cup SetGet("NX") \cup SetKeep("regular")
  \cup WriteOne("GETSET") \cup AppendOne \cup SetRange \cup Ranges
  \cup Both("MSETNX") \cup {[Cmd("DBSIZE", k1) EXCEPT !.keys = <<>>]}

ASSUME RunsConform == \A c \in Conforming : Conforms(c)
=============================================================================
