------------------------------- MODULE MCClient -------------------------------
(* Clients for TLC: one with a buffer of its own, whose stream is cut in any   *)
(* way, and two that share a ring of two buffers and send whole requests.       *)
EXTENDS Client

CONSTANTS c1, c2, x, y

MCClients == {c1, c2}
MCWords == {x, y}

\* Every way to cut these into receives; the buffer (IOSize = 3) grows for the
\* longer ones and MaxInline = 3 words fill it before the line ends.
Plain ==
  [clients  |-> {c1},
   requests |-> [c \in {c1} |->
                  {MultiBulk(<<y, x>>), MultiBulk(<<x, y, y>>),
                   Inline(<<y, x>>), Inline(<<x, y, y>>),
                   BlankLine, NoArguments, BadHeader, BadArg(<<x>>)}],
   may      |-> {"split", "die"}]

Ring ==
  [clients  |-> {c1, c2},
   requests |-> [c \in {c1, c2} |-> IF c = c1 THEN {MultiBulk(<<x>>), BadHeader}
                                    ELSE {Inline(<<y, x>>), MultiBulk(<<y>>)}],
   may      |-> {}]

MCEnv == [ring \in BOOLEAN |-> IF ring THEN Ring ELSE Plain]

\* One client of a ring whose requests arrive in pieces.
PartialReads ==
  [ring \in {TRUE} |->
     [clients |-> {c1}, requests |-> [c \in {c1} |-> {MultiBulk(<<x>>), Inline(<<y, x>>)}],
      may |-> {"split"}]]
=============================================================================
