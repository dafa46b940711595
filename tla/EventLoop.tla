------------------------------- MODULE EventLoop -------------------------------
(***************************************************************************)
(* The executors (src/runtime/ring_executor.cc) and the coroutines that    *)
(* run on them.  A coroutine suspends in one co_await at a time: an        *)
(* operation on the ring of its executor (ring_operation.h, Initiate), or  *)
(* a hop to another executor (RingTransfer, ResumeOn).  Either one puts an *)
(* entry on the submission queue, and its completion, on the queue of the  *)
(* executor it is for, carries the coroutine.  The accept loop             *)
(* (src/server.cc) starts a coroutine for every connection.  The thread of *)
(* an executor handles completions in batches, and only then gives their   *)
(* places in the queue back.                                               *)
(*                                                                         *)
(* Submission is a system call or, with sqpoll and on the executor of the  *)
(* service only, done by a kernel thread, which sees only the entries that *)
(* were in the queue at the last call of io_uring_submit.                  *)
(***************************************************************************)
EXTENDS Integers, FiniteSets, Sequences

CONSTANTS
  N,            \* the number of executors; the last one is dss_executor_
  Coroutine,    \* the coroutines
  Acceptor,     \* the one that runs AcceptLoop
  Tasks,        \* the coroutines that the main thread starts
  Wake,         \* the completion without a coroutine that Deactivate sends
  SqEntries,    \* sq_entries
  Settings,     \* the values of sqpoll and submit_batch_size that are tried
  WaitBatch     \* wait_batch

ASSUME EventLoopAssumption ==
  /\ N \in Nat /\ N >= 2
  /\ SqEntries \in Nat \ {0} /\ Settings \subseteq BOOLEAN \X (Nat \ {0}) /\ WaitBatch \in Nat \ {0}
  /\ Tasks \subseteq Coroutine /\ Acceptor \in Tasks /\ Wake \notin Coroutine

Executor == 0 .. N - 1

VARIABLES
  sqpoll, submit_batch,  \* the settings
  active,     \* active_ of each executor
  pc,         \* where each thread is in EventLoop
  sq,         \* the submission queues: entries not yet taken by the kernel
  flushed,    \* how many of them, the first ones, its thread can see
  cq,         \* the completion queues, from their kernel head
  head,       \* the completions seen since then
  processed,  \* the number of completions processed, of which only the
              \* remainder modulo submit_batch is used
  entries,    \* the submissions that a thread is about to make
  running,    \* the operations that have been submitted: executor and coroutine
  alive,      \* the coroutines that were started and have not finished
  stop        \* how far the main thread is with Deactivate of each executor

settings == <<sqpoll, submit_batch>>
vars == <<settings, active, pc, sq, flushed, cq, head, processed, entries, running, alive, stop>>

\* DisableSqpoll: client executors do not poll.
Sqpoll(e) == sqpoll /\ e = N - 1

Operation(c) == [op |-> "io", coroutine |-> c]
\* RingTransfer: Schedule submits at once, ResumeOn does not.
Message(c, e, submit) == [op |-> "msg", coroutine |-> c, to |-> e, submit |-> submit]

-----------------------------------------------------------------------------
Init ==
  /\ \E s \in Settings : sqpoll = s[1] /\ submit_batch = s[2]
  /\ active = [e \in Executor |-> TRUE]
  /\ pc = [e \in Executor |-> "top"]
  /\ sq = [e \in Executor |-> <<>>]
  /\ flushed = [e \in Executor |-> 0]
  /\ cq = [e \in Executor |-> <<>>]
  /\ head = [e \in Executor |-> 0]
  /\ processed = [e \in Executor |-> 0]
  /\ entries = [e \in Executor |-> <<>>]
  /\ running = {}
  /\ alive = {}
  /\ stop = [e \in Executor |-> "none"]

-----------------------------------------------------------------------------
(* The kernel takes entries of the ring of e, one after the other.           *)

\* What the kernel has, with the completion queues c.
Kernel(c) == [cq |-> c, running |-> running]

\* It takes the entry s: a message becomes a completion of its target, an
\* operation starts.
Taken(e, s, k) ==
  [cq |-> [x \in Executor |-> IF s.op = "msg" /\ s.to = x THEN Append(k.cq[x], s.coroutine) ELSE k.cq[x]],
   running |-> IF s.op = "io" THEN k.running \cup {<<e, s.coroutine>>} ELSE k.running]

\* It takes the entries q.
AllTaken(e, q, k) ==
  LET taken[i \in 0 .. Len(q)] == IF i = 0 THEN k ELSE Taken(e, q[i], taken[i - 1])
  IN  taken[Len(q)]

\* io_uring_submit by the thread of e, with its submission queue q and the
\* completion queues otherwise c: the kernel takes all entries, or its thread
\* sees them from now on.
Submit(e, q, c) ==
  /\ IF Sqpoll(e)
     THEN /\ sq' = [sq EXCEPT ![e] = q]
          /\ cq' = c
          /\ UNCHANGED running
     ELSE /\ sq' = [sq EXCEPT ![e] = <<>>]
          /\ cq' = AllTaken(e, q, Kernel(c)).cq
          /\ running' = AllTaken(e, q, Kernel(c)).running
  /\ flushed' = [flushed EXCEPT ![e] = Len(sq'[e])]

KernelTakes(e) ==
  /\ Sqpoll(e) /\ flushed[e] > 0
  /\ cq' = Taken(e, Head(sq[e]), Kernel(cq)).cq
  /\ running' = Taken(e, Head(sq[e]), Kernel(cq)).running
  /\ sq' = [sq EXCEPT ![e] = Tail(@)]
  /\ flushed' = [flushed EXCEPT ![e] = @ - 1]
  /\ UNCHANGED <<settings, active, pc, head, processed, entries, alive, stop>>

KernelCompletes(e, c) ==
  /\ <<e, c>> \in running
  /\ running' = running \ {<<e, c>>}
  /\ cq' = [cq EXCEPT ![e] = Append(@, c)]
  /\ UNCHANGED <<settings, active, pc, sq, flushed, head, processed, entries, alive, stop>>

-----------------------------------------------------------------------------
(* The main thread *)

\* Schedule, which submits at once: AcceptLoop on the first executor, other
\* tasks (Cron, InitBufRing) on any.
Schedule(e, c) ==
  /\ c \in Tasks \ alive /\ (c = Acceptor => e = 0) /\ stop[0] = "none"
  /\ alive' = alive \cup {c}
  /\ cq' = [cq EXCEPT ![e] = Append(@, c)]
  /\ UNCHANGED <<settings, active, pc, sq, flushed, head, processed, entries, running, stop>>

\* Server::Shutdown deactivates one executor after the other.  Deactivate clears
\* the flag before it sends the message.
ClearActive(e) ==
  /\ stop[e] = "none" /\ \A x \in Executor : x < e => stop[x] = "sent"
  /\ active' = [active EXCEPT ![e] = FALSE]
  /\ stop' = [stop EXCEPT ![e] = "cleared"]
  /\ UNCHANGED <<settings, pc, sq, flushed, cq, head, processed, entries, running, alive>>

Bug_WakesFirst(e) ==
  /\ stop[e] = "none" /\ \A x \in Executor : x < e => stop[x] = "sent"
  /\ cq' = [cq EXCEPT ![e] = Append(@, Wake)]
  /\ stop' = [stop EXCEPT ![e] = "sent"]
  /\ UNCHANGED <<settings, active, pc, sq, flushed, head, processed, entries, running, alive>>

SendWake(e) ==
  /\ stop[e] = "cleared"
  /\ cq' = [cq EXCEPT ![e] = Append(@, Wake)]
  /\ stop' = [stop EXCEPT ![e] = "sent"]
  /\ UNCHANGED <<settings, active, pc, sq, flushed, head, processed, entries, running, alive>>

-----------------------------------------------------------------------------
(* EventLoop *)

\* while (active_): submit, and wait.
EnterWait(e) ==
  /\ pc[e] = "top"
  /\ IF active[e]
     THEN pc' = [pc EXCEPT ![e] = "wait"] /\ Submit(e, sq[e], cq)
     ELSE pc' = [pc EXCEPT ![e] = "exited"] /\ UNCHANGED <<sq, flushed, cq, running>>
  /\ UNCHANGED <<settings, active, head, processed, entries, alive, stop>>

Bug_NoTimeout(e) ==
  /\ pc[e] = "wait" /\ Len(cq[e]) >= WaitBatch
  /\ pc' = [pc EXCEPT ![e] = "loop"]
  /\ UNCHANGED <<settings, active, sq, flushed, cq, head, processed, entries, running, alive, stop>>

\* The wait ends with wait_batch completions or with the timeout.
LeaveWait(e) ==
  /\ pc[e] = "wait"
  /\ pc' = [pc EXCEPT ![e] = "loop"]
  /\ UNCHANGED <<settings, active, sq, flushed, cq, head, processed, entries, running, alive, stop>>

\* The step of the thread after a completion has been handled.
Following(n) == IF n = 0 THEN "batch" ELSE "loop"

SeeNext(e) ==
  /\ head' = [head EXCEPT ![e] = @ + 1]
  /\ processed' = [processed EXCEPT ![e] = (@ + 1) % submit_batch]

\* A coroutine suspends, with the submissions s still to be made.
Suspend(e, s) ==
  /\ entries' = [entries EXCEPT ![e] = s]
  /\ alive' = alive \cup {s[1].coroutine}
  /\ pc' = [pc EXCEPT ![e] = "submit"]

\* AcceptLoop starts the coroutine d of a connection: on its own executor, where
\* d runs up to its first Recv, or on another one.  The code takes a client
\* executor; that the last one is allowed too only adds behaviours.
StartConnection(e, d) ==
  \/ Suspend(e, <<Operation(d), Operation(Acceptor)>>)
  \/ \E x \in Executor \ {e} : Suspend(e, <<Message(d, x, TRUE), Operation(Acceptor)>>)

Finish(e, c) ==
  /\ alive' = alive \ {c}
  /\ pc' = [pc EXCEPT ![e] = Following(processed'[e])]
  /\ UNCHANGED entries

\* A coroutine is resumed and runs up to its next co_await, or to its end.
Handle(e) ==
  /\ pc[e] = "loop" /\ head[e] < Len(cq[e])
  /\ SeeNext(e)
  /\ \E c \in Coroutine :
       /\ c = cq[e][head[e] + 1]
       /\ \/ Suspend(e, <<Operation(c)>>)
          \/ c = Acceptor /\ \E d \in Coroutine \ (Tasks \cup alive) : StartConnection(e, d)
          \/ c # Acceptor /\ \E x \in Executor \ {e} : Suspend(e, <<Message(c, x, FALSE)>>)
          \/ c # Acceptor /\ Finish(e, c)
  /\ UNCHANGED <<settings, active, sq, flushed, cq, running, stop>>

\* Initiate submits when the queue is full or, with sqpoll, waits for the kernel,
\* and returns at once when its thread sees no full queue; RingTransfer only tries
\* again.  A wait without effect is no step.
FullQueue(e) ==
  /\ pc[e] = "submit" /\ Len(sq[e]) = SqEntries
  /\ Head(entries[e]).op = "io" /\ ~Sqpoll(e)
  /\ Submit(e, sq[e], cq)
  /\ UNCHANGED <<settings, active, pc, head, processed, entries, alive, stop>>

GetSqe(e) ==
  /\ pc[e] = "submit" /\ Len(sq[e]) < SqEntries
  /\ LET s == Head(entries[e])
         q == Append(sq[e], s)
     IN  IF s.op = "msg" /\ s.submit
         THEN Submit(e, q, cq)
         ELSE sq' = [sq EXCEPT ![e] = q] /\ UNCHANGED <<flushed, cq, running>>
  /\ entries' = [entries EXCEPT ![e] = Tail(@)]
  /\ pc' = [pc EXCEPT ![e] = IF Tail(entries[e]) # <<>> THEN "submit" ELSE Following(processed[e])]
  /\ UNCHANGED <<settings, active, head, processed, alive, stop>>

\* io_uring_cq_advance of e by n.
Advanced(e, n) == [cq EXCEPT ![e] = SubSeq(@, n + 1, Len(@))]

Bug_OnlyAdvances(e) ==
  /\ pc[e] = "batch"
  /\ cq' = Advanced(e, submit_batch)
  /\ head' = [head EXCEPT ![e] = @ - submit_batch]
  /\ pc' = [pc EXCEPT ![e] = "loop"]
  /\ UNCHANGED <<settings, active, sq, flushed, processed, entries, running, alive, stop>>

\* After every batch the thread submits and advances.
EndBatch(e) ==
  /\ pc[e] = "batch"
  /\ Submit(e, sq[e], Advanced(e, submit_batch))
  /\ head' = [head EXCEPT ![e] = @ - submit_batch]
  /\ pc' = [pc EXCEPT ![e] = "loop"]
  /\ UNCHANGED <<settings, active, processed, entries, alive, stop>>

\* At the end of the loop the rest of the last batch, n completions, is given back.
LeaveLoop(e, n) ==
  /\ cq' = Advanced(e, n)
  /\ head' = [head EXCEPT ![e] = 0]
  /\ processed' = [processed EXCEPT ![e] = 0]
  /\ pc' = [pc EXCEPT ![e] = "top"]
  /\ UNCHANGED <<settings, active, sq, flushed, entries, running, alive, stop>>

Bug_NoBreak(e) ==
  /\ pc[e] = "loop" /\ head[e] < Len(cq[e]) /\ cq[e][head[e] + 1] = Wake
  /\ SeeNext(e)
  /\ pc' = [pc EXCEPT ![e] = Following(processed'[e])]
  /\ UNCHANGED <<settings, active, sq, flushed, cq, entries, running, alive, stop>>

\* The message of Deactivate counts as processed, and breaks off the loop.
Break(e) ==
  /\ pc[e] = "loop" /\ head[e] < Len(cq[e]) /\ cq[e][head[e] + 1] = Wake
  /\ LeaveLoop(e, (processed[e] + 1) % submit_batch)

EndLoop(e) ==
  /\ pc[e] = "loop" /\ head[e] = Len(cq[e])
  /\ LeaveLoop(e, processed[e])

Thread(e) ==
  \/ EnterWait(e) \/ LeaveWait(e)
  \/ Handle(e) \/ FullQueue(e) \/ GetSqe(e) \/ EndBatch(e)
  \/ Break(e) \/ EndLoop(e)

Next ==
  \E e \in Executor :
    \/ Thread(e)
    \/ KernelTakes(e) \/ (\E c \in Coroutine : KernelCompletes(e, c) \/ Schedule(e, c))
    \/ ClearActive(e) \/ SendWake(e)

\* Threads run, the kernel thread of sqpoll runs, and Deactivate is not left
\* half done; operations may take for ever.
Fairness ==
  \A e \in Executor : WF_vars(Thread(e)) /\ WF_vars(KernelTakes(e)) /\ WF_vars(SendWake(e))

Spec == Init /\ [][Next]_vars /\ Fairness

-----------------------------------------------------------------------------
(* Properties *)

\* The completions of e that its thread has still to handle: all from head on,
\* unless the thread has left the loop for good.
Unhandled(e) ==
  IF pc[e] = "exited" \/ (pc[e] = "top" /\ ~active[e]) THEN {}
  ELSE {i \in head[e] + 1 .. Len(cq[e]) : cq[e][i] \in Coroutine}

\* The places that will resume c: submissions, operations and completions.
Resumptions(c) ==
  (UNION {{<<"submission", e, i>> : i \in {j \in DOMAIN sq[e] : sq[e][j].coroutine = c}} : e \in Executor})
  \cup (UNION {{<<"entry", e, i>> : i \in {j \in DOMAIN entries[e] : entries[e][j].coroutine = c}} : e \in Executor})
  \cup {<<"operation", r[1], 0>> : r \in {x \in running : x[2] = c}}
  \cup (UNION {{<<"completion", e, i>> : i \in {j \in Unhandled(e) : cq[e][j] = c}} : e \in Executor})

\* A suspended coroutine is resumed at most once, and while no executor is
\* deactivated it will be: no completion is handled again because its place was
\* not given back (also when Wake ends a batch exactly at its limit), none is
\* given back unhandled, and a finished coroutine is never resumed.
ResumedOnce ==
  \A c \in Coroutine :
    /\ Cardinality(Resumptions(c)) <= IF c \in alive THEN 1 ELSE 0
    /\ (c \in alive /\ \A e \in Executor : active[e]) => Resumptions(c) # {}

\* The queue has room for two batches, which nothing checks.
RoomForBatch == 2 * submit_batch <= SqEntries

\* With that room no thread tries for ever to get an entry of a queue that is full
\* of entries the kernel has not been shown: RingTransfer tries again without
\* submitting, and so does Initiate with sqpoll.  Between two submissions at most
\* a batch of coroutines suspends, and each leaves at most two entries.
NoSpin ==
  RoomForBatch =>
    \A e \in Executor :
      ~( /\ pc[e] = "submit" /\ Len(sq[e]) = SqEntries /\ flushed[e] = 0
         /\ Head(entries[e]).op = "msg" \/ Sqpoll(e) )

\* A completion of c waits, or e is deactivated, with that room.
Pending(e, c) == active[e] /\ (\E i \in Unhandled(e) : cq[e][i] = c) /\ RoomForBatch
Stopping(e) == stop[e] # "none" /\ RoomForBatch

\* A completion is handled unless the executor is deactivated, although other
\* completions keep coming, fewer than wait_batch are there or, with sqpoll, the
\* kernel is late to empty a full queue (of room for two batches).
Handled ==
  \A e \in Executor, c \in Coroutine :
    Pending(e, c) ~> ~Pending(e, c)

\* A deactivated executor leaves its loop, even if completions keep coming, so
\* that it can be joined (with room for two batches in its queue).
Stops ==
  \A e \in Executor : Stopping(e) ~> (pc[e] = "exited")
=============================================================================
