------------------------------ MODULE RespParser ------------------------------
(***************************************************************************)
(* The query buffer of a client (src/base/buffer.h, buffer.cc) and the     *)
(* parsers that read it (src/resp/resp_parser.cc).                         *)
(*                                                                         *)
(* The bytes of a request are grouped into units, the least parts the      *)
(* parsers tell apart.  "*" and "$" are the start of a header and of an    *)
(* argument; "n" and "a" are the rest of them, with their line ends; "w"   *)
(* is a word of an inline request, "e" the end of a line, and "!" the rest *)
(* of a header or an argument that is malformed.  So a header or argument  *)
(* can be cut in two, and a request between any two units.                 *)
(***************************************************************************)
EXTENDS Integers, Sequences, FiniteSets, FiniteSetsExt

CONSTANTS
  Word,       \* the contents of arguments
  MaxInline   \* kMaxInlineBufferSize, in units

Unit(k, v) == [k |-> k, v |-> v]

\* The units that hold "\r\n".
EndsLine(u) == u.k \in {"n", "a", "e", "!"}

-----------------------------------------------------------------------------
(* Buffer.  data is what was written since Reset, so write_index_ is its     *)
(* length; block names the memory it is in: the allocation of data_, or the  *)
(* entry of the buffer ring that view_ shows.                                *)

NewBuffer(capacity, block) ==
  [virtual |-> capacity = 0, size |-> capacity, block |-> block, read |-> 0, data |-> <<>>]

Source(b) == SubSeq(b.data, b.read + 1, Len(b.data))
Available(b) == b.size - Len(b.data)

Bug_KeepsView(b) == [b EXCEPT !.read = 0, !.data = IF b.virtual THEN @ ELSE <<>>]

Reset(b) == [b EXCEPT !.read = 0, !.data = <<>>]

\* EnsureAvailable(n, false).  A resize may move the data.
Grows(b, n) == b.size < n + Len(b.data)

Bug_AddsToSize(b, n, moves) ==
  IF Grows(b, n)
  THEN [b EXCEPT !.size = @ + n + Len(b.data), !.block = IF moves THEN @ + 1 ELSE @]
  ELSE b

EnsureAvailable(b, n, moves) ==
  IF Grows(b, n)
  THEN [b EXCEPT !.size = n + Len(b.data), !.block = IF moves THEN @ + 1 ELSE @]
  ELSE b

Consume(b, n) == [b EXCEPT !.read = @ + n]

-----------------------------------------------------------------------------
(* What a parser returns: its state, the buffer, the arguments (views, that  *)
(* is a block and an index into it) and, for kDone, their number.            *)

\* A line that starts at unit i of s ends at its unit LineEnd(s, i).
HasLine(s, i) == \E j \in i .. Len(s) : EndsLine(s[j])
LineEnd(s, i) == Min({j \in i .. Len(s) : EndsLine(s[j])})

View(b, i) == [block |-> b.block, at |-> b.read + i]

\* result[i] is set or appended for the i of the new arguments.
Overwrite(result, new) ==
  [i \in 1 .. Max({Len(result), Len(new)}) |-> IF i <= Len(new) THEN new[i] ELSE result[i]]

Bug_KeepsBlankLine(b, result) ==
  LET s == Source(b)
      c == LineEnd(s, 1)
      words == IF s[c].k = "e" THEN c - 1 ELSE c
  IN  IF ~HasLine(s, 1)
      THEN [state |-> IF Len(s) >= MaxInline THEN "kError" ELSE "kParsing",
            buffer |-> b, result |-> result, size |-> 0]
      ELSE [state  |-> IF words = 0 THEN "kParsing" ELSE "kDone",
            buffer |-> IF words = 0 THEN b ELSE Consume(b, c),
            result |-> Overwrite(result, [i \in 1 .. words |-> View(b, i)]),
            size   |-> words]

\* Every unit of a line but a bare line end is a word.
ParseInline(b, result) ==
  LET s == Source(b)
      c == LineEnd(s, 1)
      words == IF s[c].k = "e" THEN c - 1 ELSE c
  IN  IF ~HasLine(s, 1)
      THEN [state |-> IF Len(s) >= MaxInline THEN "kError" ELSE "kParsing",
            buffer |-> b, result |-> result, size |-> 0]
      ELSE [state  |-> IF words = 0 THEN "kParsing" ELSE "kDone",
            buffer |-> Consume(b, c),
            result |-> Overwrite(result, [i \in 1 .. words |-> View(b, i)]),
            size   |-> words]

-----------------------------------------------------------------------------
(* MultiBulkParser: state_, args_ and cur_arg_idx_.                          *)

NewParser == [state |-> "kInit", args |-> 0, cur |-> 0]

InProgress(p) == p.state = "kParsing"

\* An argument of s that starts at unit i, as far as it has arrived.
WholeArg(s, i) == i + 1 <= Len(s) /\ s[i].k = "$" /\ s[i + 1].k = "a"
Bug_NoSyntaxError(s, i) == TRUE

CutArg(s, i) == i > Len(s) \/ (s[i].k = "$" /\ ~HasLine(s, i))

Bug_AlwaysSkipsHeader(p, b, header, result) ==
  LET s == Source(b)
      n == Max({m \in 0 .. p.args - p.cur : \A i \in 1 .. m : WholeArg(s, header + 2 * i - 1)})
      next == header + 2 * n + 1
      seen == [i \in 1 .. p.cur + n |->
                 IF i <= p.cur THEN result[i] ELSE View(b, 2 + 2 * (i - p.cur))]
  IN  [parser |-> [p EXCEPT !.cur = @ + n,
                            !.state = IF p.cur + n = p.args THEN "kDone"
                                      ELSE IF CutArg(s, next) THEN "kParsing" ELSE "kError"],
       buffer |-> Consume(b, header + 2 * n),
       result |-> Overwrite(result, seen)]

\* The loop over the arguments: it takes the whole ones that follow the header
\* (header units long, 0 when it was parsed before) and consumes them.
ParseArgs(p, b, header, result) ==
  LET s == Source(b)
      n == Max({m \in 0 .. p.args - p.cur : \A i \in 1 .. m : WholeArg(s, header + 2 * i - 1)})
      next == header + 2 * n + 1
      seen == [i \in 1 .. p.cur + n |->
                 IF i <= p.cur THEN result[i] ELSE View(b, header + 2 * (i - p.cur))]
  IN  [parser |-> [p EXCEPT !.cur = @ + n,
                            !.state = IF p.cur + n = p.args THEN "kDone"
                                      ELSE IF CutArg(s, next) THEN "kParsing" ELSE "kError"],
       buffer |-> Consume(b, header + 2 * n),
       result |-> Overwrite(result, seen)]

\* MultiBulkParser::Parse with ParseArgNum, which leaves the state at kInit when
\* the header is cut.  In the state kInit the source starts with "*".
ParseMultiBulk(p, b, result) ==
  LET q == IF p.state \in {"kError", "kDone"} THEN NewParser ELSE p
      s == Source(b)
      same(state) == [parser |-> [q EXCEPT !.state = state], buffer |-> b, result |-> result]
  IN  IF s = <<>> THEN same(q.state)
      ELSE IF q.state = "kParsing" THEN ParseArgs(q, b, 0, result)
      ELSE IF ~HasLine(s, 1) THEN same("kInit")
      ELSE IF s[2].k # "n" THEN same("kError")
      ELSE ParseArgs([state |-> "kParsing", args |-> s[2].v, cur |-> 0], b, 2, result)

\* BufferUpdate: the views of the arguments parsed so far follow the data.
Bug_UpdatesNone(p, block, result) == result

BufferUpdate(p, block, result) ==
  [i \in DOMAIN result |-> IF i <= p.cur THEN [result[i] EXCEPT !.block = block] ELSE result[i]]

-----------------------------------------------------------------------------
(* Parse of src/client.cc *)

Parse(b, p, result) ==
  IF InProgress(p) \/ Source(b)[1].k = "*"
  THEN LET r == ParseMultiBulk(p, b, result)
       IN  [state |-> r.parser.state, buffer |-> r.buffer, result |-> r.result,
            size |-> r.parser.args, parser |-> r.parser]
  ELSE LET r == ParseInline(b, result)
       IN  [state |-> r.state, buffer |-> r.buffer, result |-> r.result,
            size |-> r.size, parser |-> p]
=============================================================================
