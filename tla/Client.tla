-------------------------------- MODULE Client --------------------------------
(***************************************************************************)
(* Client::Process (src/client.cc): a client receives from its connection  *)
(* (src/io/connection.h), parses, runs the command on the service          *)
(* executor, comes back and replies.  The clients are those of one         *)
(* executor.  Received bytes are appended to a buffer of the client's own  *)
(* or, with use_ring_buffer, put by the kernel into an entry of the        *)
(* executor's ring of buffers (src/runtime/ring_executor.cc).              *)
(*                                                                         *)
(* A step runs up to the next co_await.  Peers wait for a reply before     *)
(* they send the next request.                                             *)
(***************************************************************************)
EXTENDS RespParser, SequencesExt

CONSTANTS
  Client,       \* the clients of the executor
  IOSize,       \* kIOGenericBufferSize, in units
  Entries,      \* buf_entries_
  EntrySize,    \* buf_entry_size, in units
  MaxRequests,  \* bound on the requests of a peer
  Env           \* for each setting of use_ring_buffer, the clients that are connected,
                \* the requests of each, and what else may happen:
                \* "split" a request arrives in pieces, "die" a peer stops within one

ASSUME ClientAssumption ==
  /\ IOSize \in Nat \ {0} /\ EntrySize \in Nat \ {0} /\ Entries \in Nat \ {0}
  /\ MaxRequests \in Nat /\ MaxInline \in Nat
  /\ \A ring \in DOMAIN Env : Env[ring].clients \subseteq Client

VARIABLES
  use_ring_buf,  \* the setting
  wire,          \* what the socket holds for each client
  peer,          \* each peer is "open", "closed", or "cut" within a request
  sent,          \* the requests of each peer
  replied,       \* the replies written to it
  pc,            \* what each client waits for
  buffer,        \* query_buffer_
  parser,        \* mbulk_parser_
  arguments,     \* arguments_
  num_strings,   \* how many of them the request has
  query_result,  \* query_result_
  held,          \* the entry of the buffer ring behind buffer_view, or -1
  buf_ring,      \* the entries the kernel may fill, in order
  memory         \* the contents of the entries

net == <<wire, peer, sent, replied>>
loop == <<pc, buffer, parser, arguments, num_strings, query_result, held>>
vars == <<use_ring_buf, net, loop, buf_ring, memory>>

Entry == 0 .. Entries - 1
May(what) == what \in Env[use_ring_buf].may

-----------------------------------------------------------------------------
(* Requests: their units and the replies they may get.                       *)

Ok(args) == [ok |-> TRUE, args |-> args]
Error == [ok |-> FALSE, args |-> <<>>]
NoReply == Ok(<<>>)

ArgUnits(args) ==
  [i \in 1 .. 2 * Len(args) |->
     IF i % 2 = 1 THEN Unit("$", 0) ELSE Unit("a", args[i \div 2])]

Header(n) == <<Unit("*", 0), Unit("n", n)>>

MultiBulk(args) == [units |-> Header(Len(args)) \o ArgUnits(args), replies |-> {Ok(args)}]
Inline(args) ==
  [units |-> [i \in DOMAIN args |-> Unit("w", args[i])] \o <<Unit("e", 0)>>,
   \* One that fills the buffer before its line ends may be refused.
   replies |-> {Ok(args)} \cup (IF Len(args) >= MaxInline THEN {Error} ELSE {})]
\* "*0": the parser is done with it, and Process asserts that there are arguments.
NoArguments == [units |-> Header(0), replies |-> {}]
BlankLine == [units |-> <<Unit("e", 0)>>, replies |-> {}]
BadHeader == [units |-> <<Unit("*", 0), Unit("!", 0)>>, replies |-> {Error}]
BadArg(args) ==
  [units |-> Header(Len(args) + 1) \o ArgUnits(args) \o <<Unit("$", 0), Unit("!", 0)>>,
   replies |-> {Error}]

\* The requests of a peer that get a reply.
Expected(c) == SelectSeq(sent[c], LAMBDA r : r.replies # {})
Waiting(c) == Len(replied[c]) < Len(Expected(c))

-----------------------------------------------------------------------------
Init ==
  /\ use_ring_buf \in DOMAIN Env
  /\ wire = [c \in Client |-> <<>>]
  /\ peer = [c \in Client |-> "open"]
  /\ sent = [c \in Client |-> <<>>]
  /\ replied = [c \in Client |-> <<>>]
  /\ pc = [c \in Client |-> IF c \in Env[use_ring_buf].clients THEN "recv" ELSE "closed"]
  /\ buffer = [c \in Client |-> NewBuffer(IF use_ring_buf THEN 0 ELSE IOSize, 0)]
  /\ parser = [c \in Client |-> NewParser]
  /\ arguments = [c \in Client |-> <<>>]
  /\ num_strings = [c \in Client |-> 0]
  /\ query_result = [c \in Client |-> NoReply]
  /\ held = [c \in Client |-> -1]
  /\ buf_ring = [i \in 1 .. Entries |-> i - 1]
  /\ memory = [e \in Entry |-> <<>>]

-----------------------------------------------------------------------------
(* The peers *)

PeerSends(c) ==
  /\ pc[c] # "closed" /\ peer[c] = "open" /\ ~Waiting(c) /\ Len(sent[c]) < MaxRequests
  /\ \E r \in Env[use_ring_buf].requests[c] :
       sent' = [sent EXCEPT ![c] = Append(@, r)] /\ wire' = [wire EXCEPT ![c] = @ \o r.units]
  /\ UNCHANGED <<use_ring_buf, peer, replied, loop, buf_ring, memory>>

PeerCloses(c) ==
  /\ pc[c] # "closed" /\ peer[c] = "open"
  /\ peer' = [peer EXCEPT ![c] = "closed"]
  /\ UNCHANGED <<use_ring_buf, wire, sent, replied, loop, buf_ring, memory>>

\* The peer stops after part of a request.
PeerDies(c) ==
  /\ pc[c] # "closed" /\ peer[c] = "open" /\ ~Waiting(c) /\ Len(sent[c]) < MaxRequests
  /\ May("die")
  /\ \E r \in Env[use_ring_buf].requests[c] : \E n \in 1 .. Len(r.units) - 1 :
       /\ sent' = [sent EXCEPT ![c] = Append(@, r)]
       /\ wire' = [wire EXCEPT ![c] = @ \o SubSeq(r.units, 1, n)]
  /\ peer' = [peer EXCEPT ![c] = "cut"]
  /\ UNCHANGED <<use_ring_buf, replied, loop, buf_ring, memory>>

-----------------------------------------------------------------------------
(* The ring of buffers.  Without IORING_RECVSEND_BUNDLE the kernel gives a    *)
(* receive a single entry, so the view never wraps around the end of buf_.   *)

\* The contents of a view, through the memory it points into.
Contents(c, view) ==
  LET block == IF use_ring_buf THEN memory[view.block]
               ELSE IF view.block = buffer[c].block THEN buffer[c].data ELSE <<>>
  IN  IF view.at \in DOMAIN block THEN block[view.at].v ELSE "freed"

Bug_ReturnsNext(ring, e, n) == Append(ring, (e + 1) % Entries)

\* PutBufferView: the entries from e that n units fill go to the end of the ring.
PutBufferView(ring, e, n) ==
  IF use_ring_buf
  THEN ring \o [i \in 1 .. (n + EntrySize - 1) \div EntrySize |-> (e + i - 1) % Entries]
  ELSE ring

-----------------------------------------------------------------------------
(* Client::Process *)

\* EnsureBuffer, before a receive, of buffer b, parser p and arguments v.
EnsureBuffer(c, b, p, v) ==
  \E moves \in BOOLEAN :
    LET new == EnsureAvailable(b, IOSize, moves)
        grows == ~b.virtual /\ Grows(b, IOSize)
    IN  /\ grows \/ ~moves
        /\ buffer' = [buffer EXCEPT ![c] = IF grows THEN new ELSE b]
        /\ arguments' = [arguments EXCEPT ![c] =
             IF grows /\ InProgress(p) THEN BufferUpdate(p, new.block, v) ELSE v]

\* The part after a receive that leaves b in the buffer and e behind buffer_view:
\* up to the next receive, to the hop to the service, or to the write of an error.
\* Two assertions end the process: there are arguments, and a view is given back.
ParseAndServe(c, b, e, ring) ==
  \E r \in {Parse(b, parser[c], arguments[c])} :
      /\ parser' = [parser EXCEPT ![c] = r.parser]
      /\ \/ /\ r.state \in {"kInit", "kParsing"}
            /\ EnsureBuffer(c, r.buffer, r.parser, r.result)
            /\ buf_ring' = ring
            /\ UNCHANGED <<pc, num_strings, query_result, held>>
         \/ /\ r.state = "kError"
            /\ query_result' = [query_result EXCEPT ![c] = Error]
            /\ buffer' = [buffer EXCEPT ![c] = r.buffer]
            /\ arguments' = [arguments EXCEPT ![c] = r.result]
            /\ buf_ring' = PutBufferView(ring, e, Len(b.data))
            /\ pc' = [pc EXCEPT ![c] = IF use_ring_buf /\ e = -1 THEN "aborted" ELSE "send"]
            /\ UNCHANGED <<num_strings, held>>
         \/ /\ r.state = "kDone"
            /\ buffer' = [buffer EXCEPT ![c] = r.buffer]
            /\ arguments' = [arguments EXCEPT ![c] = r.result]
            /\ num_strings' = [num_strings EXCEPT ![c] = r.size]
            /\ held' = [held EXCEPT ![c] = e]
            /\ buf_ring' = ring
            /\ pc' = [pc EXCEPT ![c] = IF r.size = 0 THEN "no arguments" ELSE "service"]
            /\ UNCHANGED query_result

\* A receive completes.  With a ring it takes the first entry, whose view
\* Buffer::Produce wants to put where no view is: else an assertion fails.
Recv(c) ==
  /\ pc[c] = "recv" /\ wire[c] # <<>>
  /\ \E n \in 1 .. Min({Len(wire[c]), IF use_ring_buf THEN EntrySize ELSE Available(buffer[c])}) :
       /\ May("split") \/ n = Len(wire[c])
       /\ wire' = [wire EXCEPT ![c] = SubSeq(@, n + 1, Len(@))]
       /\ IF use_ring_buf
          THEN /\ buf_ring # <<>>
               /\ memory' = [memory EXCEPT ![Head(buf_ring)] = SubSeq(wire[c], 1, n)]
               /\ \E b \in {[buffer[c] EXCEPT !.block = Head(buf_ring),
                                              !.data = SubSeq(wire[c], 1, n)]} :
                    IF buffer[c].data = <<>>
                    THEN ParseAndServe(c, b, Head(buf_ring), Tail(buf_ring))
                    ELSE /\ pc' = [pc EXCEPT ![c] = "aborted"]
                         /\ buf_ring' = Tail(buf_ring)
                         /\ UNCHANGED <<buffer, parser, arguments, num_strings, query_result, held>>
          ELSE /\ \E b \in {[buffer[c] EXCEPT !.data = @ \o SubSeq(wire[c], 1, n)]} :
                    ParseAndServe(c, b, -1, buf_ring)
               /\ UNCHANGED memory
  /\ UNCHANGED <<use_ring_buf, peer, sent, replied>>

\* The end of the stream: the loop ends unless the buffer holds unparsed data.
RecvEnd(c) ==
  /\ pc[c] = "recv" /\ wire[c] = <<>> /\ peer[c] # "open"
  /\ IF Source(buffer[c]) = <<>>
     THEN /\ pc' = [pc EXCEPT ![c] = "closed"]
          /\ UNCHANGED <<buffer, parser, arguments, num_strings, query_result, held, buf_ring>>
     ELSE ParseAndServe(c, buffer[c], -1, buf_ring)
  /\ UNCHANGED <<use_ring_buf, net, memory>>

\* A receive fails: a reset by the peer, or no entry left in the ring (ENOBUFS).
RecvFails(c) ==
  /\ pc[c] = "recv"
  /\ peer[c] # "open" \/ (use_ring_buf /\ buf_ring = <<>> /\ wire[c] # <<>>)
  /\ pc' = [pc EXCEPT ![c] = "closed"]
  /\ UNCHANGED <<use_ring_buf, net, buffer, parser, arguments, num_strings, query_result, held,
                 buf_ring, memory>>

\* On the service executor: Invoke reads the arguments.
Invoke(c) ==
  /\ pc[c] = "service"
  /\ query_result' = [query_result EXCEPT ![c] =
       Ok([i \in 1 .. num_strings[c] |-> Contents(c, arguments[c][i])])]
  /\ pc' = [pc EXCEPT ![c] = "back"]
  /\ UNCHANGED <<use_ring_buf, net, buffer, parser, arguments, num_strings, held, buf_ring, memory>>

\* Back on the executor of the connection, which gives the entry back.
ResumeBack(c) ==
  /\ pc[c] = "back"
  /\ buf_ring' = PutBufferView(buf_ring, held[c], Len(buffer[c].data))
  /\ held' = [held EXCEPT ![c] = -1]
  /\ pc' = [pc EXCEPT ![c] = IF use_ring_buf /\ held[c] = -1 THEN "aborted" ELSE "send"]
  /\ UNCHANGED <<use_ring_buf, net, buffer, parser, arguments, num_strings, query_result, memory>>

\* The reply, or part of it (the loop does not ask how much), is written;
\* ResetState and EnsureBuffer follow.
Sent(c) ==
  /\ pc[c] = "send"
  /\ replied' = [replied EXCEPT ![c] = Append(@, query_result[c])]
  /\ EnsureBuffer(c, Reset(buffer[c]), parser[c], arguments[c])
  /\ query_result' = [query_result EXCEPT ![c] = NoReply]
  /\ pc' = [pc EXCEPT ![c] = "recv"]
  /\ UNCHANGED <<use_ring_buf, wire, peer, sent, parser, num_strings, held, buf_ring, memory>>

SendFails(c) ==
  /\ pc[c] = "send" /\ peer[c] # "open"
  /\ pc' = [pc EXCEPT ![c] = "closed"]
  /\ UNCHANGED <<use_ring_buf, net, buffer, parser, arguments, num_strings, query_result, held,
                 buf_ring, memory>>

Completes(c) == Recv(c) \/ RecvEnd(c) \/ Invoke(c) \/ ResumeBack(c) \/ Sent(c)

Next ==
  \E c \in Client : \/ PeerSends(c) \/ PeerCloses(c) \/ PeerDies(c)
                    \/ Completes(c) \/ RecvFails(c) \/ SendFails(c)

\* Receives, writes and hops complete; peers owe nothing, and nothing has to fail.
Fairness == \A c \in Client : WF_vars(Completes(c))

Spec == Init /\ [][Next]_vars /\ Fairness

-----------------------------------------------------------------------------
(* Properties *)

\* However the stream is cut into receives and the buffer grows and moves, the
\* replies a client writes are those of its peer's requests, in their order and
\* with the arguments that were sent (Client::Process, Parse).  After an error
\* the rest of the request may be taken for another one, so this ends there.
AnswersInOrder ==
  \A c \in Client : \A i \in DOMAIN replied[c] :
    (\A j \in 1 .. i - 1 : replied[c][j].ok) =>
      i <= Len(Expected(c)) /\ replied[c][i] \in Expected(c)[i].replies

\* While the service executor reads the arguments, their views point into memory
\* that is the client's: the present allocation of its buffer, which BufferUpdate
\* has followed, or the entry that it has not yet given back to the ring.
ViewsAlive ==
  \A c \in Client : pc[c] = "service" =>
    \A i \in 1 .. num_strings[c] :
      /\ arguments[c][i].block = IF use_ring_buf THEN held[c] ELSE buffer[c].block
      /\ use_ring_buf => held[c] \notin Range(buf_ring)

\* Every entry of the ring of buffers is either free for the kernel, once, or
\* held by one client: PutBufferView gives back what the receive took, so no
\* entry is lost and none is filled while another client's request is in it.
EntriesOwned ==
  LET holders(e) == {c \in Client : held[c] = e}
      places(e) == {i \in DOMAIN buf_ring : buf_ring[i] = e}
  IN  use_ring_buf => \A e \in Entry : Cardinality(holders(e)) + Cardinality(places(e)) = 1

\* The assertions of Buffer::Produce (no view is overwritten, and what was read
\* fits), Buffer::Consume (only what was written is read) and PutBufferView (the
\* view is of the ring) hold.  The one of Process (a parsed request has arguments)
\* fails for the request "*0", which the parser accepts, and for no other.
AssertionsHold ==
  \A c \in Client :
    /\ pc[c] # "aborted"
    /\ pc[c] = "no arguments" => NoArguments \in Range(sent[c])
    /\ buffer[c].read <= Len(buffer[c].data)
    /\ buffer[c].virtual \/ Len(buffer[c].data) <= buffer[c].size

\* ResetState after each reply keeps the query buffer as large as one request
\* needs, if its peer sends no blank lines (which are kept with what follows).
BufferBounded ==
  \A c \in Env[use_ring_buf].clients :
    (\A i \in DOMAIN sent[c] : sent[c][i].replies # {}) =>
    buffer[c].size <= IOSize + Max({Len(r.units) : r \in Env[use_ring_buf].requests[c]})

\* No error and no blank line came before the last request, and "*0" not at all.
Clean(c) ==
  /\ \A i \in 1 .. Len(sent[c]) - 1 : sent[c][i].replies # {} /\ Error \notin sent[c][i].replies
  /\ NoArguments \notin Range(sent[c])

\* A request that was sent whole after ordinary ones is answered, unless the
\* client is closed: no cut leaves the parser waiting for what it already has.
Answered ==
  \A c \in Client :
    (Waiting(c) /\ Clean(c) /\ peer[c] # "cut") ~> (~Waiting(c) \/ pc[c] = "closed")

\* A client whose peer closes between requests ends its loop.
ClosesWithPeer ==
  \A c \in Client : (peer[c] = "closed" /\ Clean(c)) ~> (pc[c] = "closed")
=============================================================================
