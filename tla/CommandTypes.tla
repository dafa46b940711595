---------------------------- MODULE CommandTypes ----------------------------
(***************************************************************************)
(* Commands and replies of the data structure service, shared by the       *)
(* model of the service and by the specification of what it promises.      *)
(*                                                                         *)
(* A command is a record: op, its keys and vals, and its options, in the   *)
(* order mode, get, ttl (EX, PX), until (EXAT, PXAT), keep, persist, and   *)
(* from and to; ttl and until are 0 when the option is absent.             *)
(***************************************************************************)
EXTENDS Integers, Sequences

Put(f, k, v) == [x \in DOMAIN f \cup {k} |-> IF x = k THEN v ELSE f[x]]

Drop(f, k) == [x \in DOMAIN f \ {k} |-> f[x]]

\* The commands registered with SetIsWriteCommand.
WriteCommands == {"SET", "SETEX", "SETNX", "SETRANGE", "MSET", "MSETNX", "DEL"}

\* The keys a command names.
KeysOf(c) == {c.keys[i] : i \in 1 .. Len(c.keys)}

-----------------------------------------------------------------------------
(* The Result of a command *)

Reply(kind, num, strs, list) == [kind |-> kind, num |-> num, strs |-> strs, list |-> list]

Nil == Reply("nil", 0, <<>>, <<>>)
OK == Reply("ok", 0, <<>>, <<>>)
Error(e) == Reply(e, 0, <<>>, <<>>)
Num(n) == Reply("int", n, <<>>, <<>>)
Str(s) == Reply("str", 0, <<s>>, <<>>)

\* Of MGET: every element is a value or empty.
List(l) == Reply("list", 0, <<>>, l)

-----------------------------------------------------------------------------
(* Options *)

\* ExtractExpireOptions, ExtractSetOptions and the loop of GETEX: the error they
\* answer, if any.  The mode "conflict" stands for options that are refused as
\* such: NX with XX, PERSIST twice, an unknown option, an option without its
\* number.  A negative ttl or until stands for every number that is refused.
OptionError(c) ==
  CASE c.mode = "conflict"                          -> "syntax"
    [] c.ttl < 0                                    -> "not an int"
    [] c.ttl > 0 /\ c.until # 0                     -> "syntax"
    [] c.until < 0                                  -> "not an int"
    [] (c.keep \/ c.persist) /\ c.ttl + c.until > 0 -> "syntax"
    [] OTHER                                        -> "none"

\* The expiry time the options give at time t, or 0.
ExpireTime(c, t) == IF c.ttl > 0 THEN t + c.ttl ELSE c.until
=============================================================================
