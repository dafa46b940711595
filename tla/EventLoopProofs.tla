---------------------------- MODULE EventLoopProofs ----------------------------
(***************************************************************************)
(* NoSpin and ResumedOnce of EventLoop, for any number of executors and    *)
(* coroutines, any size of the submission queue and any settings.          *)
(*                                                                         *)
(* NoSpin counts the entries that the kernel has not been shown: since its *)
(* last submission a thread has handled a part of one batch, and each of   *)
(* those completions left at most two.                                     *)
(* ResumedOnce follows coroutines from place to place: every step is one   *)
(* of the moves of EventLoopPlaces, or two of them one after the other.    *)
(***************************************************************************)
EXTENDS EventLoopPlaces, FiniteSetTheorems

\* The completions handled since the last submission, once one has been.
Handling(n) == IF n = 0 THEN submit_batch ELSE n

\* The entries of e that the kernel has not been shown.
Unseen(e) == Len(sq[e]) - flushed[e]

\* What the thread of e has left in its queue, and is about to add.
Counted(e) ==
  /\ pc[e] # "submit" => entries[e] = <<>>
  /\ pc[e] \in {"top", "wait", "batch"} => processed[e] = 0
  /\ pc[e] = "wait" => Unseen(e) = 0
  /\ pc[e] = "loop" => Unseen(e) <= 2 * processed[e]
  /\ pc[e] = "batch" => Unseen(e) <= 2 * submit_batch
  /\ pc[e] = "submit" =>
       /\ entries[e] # <<>>
       /\ Unseen(e) + Len(entries[e]) <= 2 * Handling(processed[e])

Types ==
  /\ submit_batch \in Nat \ {0}
  /\ pc \in [Executor -> {"top", "wait", "loop", "submit", "batch", "exited"}]
  /\ sq \in [Executor -> Seq(Entry)]
  /\ flushed \in [Executor -> Nat] /\ \A e \in Executor : flushed[e] <= Len(sq[e])
  /\ entries \in [Executor -> Seq(Entry)]
  /\ processed \in [Executor -> 0 .. submit_batch - 1]

IInv == Types /\ \A e \in Executor : Counted(e)

\* The entries that coroutines leave (Operation, Message).
LEMMA EntryTypes ==
  /\ \A c \in Coroutine : Operation(c) \in Entry
  /\ \A c \in Coroutine, e \in Executor, b \in BOOLEAN : Message(c, e, b) \in Entry
BY DEF Operation, Message, Entry

\* The queues, whatever part of them the kernel has been shown.
Queues(q, f) ==
  /\ q \in [Executor -> Seq(Entry)] /\ f \in [Executor -> Nat]
  /\ \A e \in Executor : f[e] <= Len(q[e])

\* Entries are counted by natural numbers.
LEMMA UnseenNat ==
  ASSUME Types, NEW e \in Executor
  PROVE  Unseen(e) \in Nat /\ Len(sq[e]) \in Nat /\ Len(entries[e]) \in Nat
BY DEF Types, Unseen

\* The queue of one executor becomes r, of which the kernel has been shown n.
LEMMA OneQueue ==
  ASSUME Types, NEW e \in Executor, NEW r \in Seq(Entry), NEW n \in Nat, n <= Len(r),
         sq' = [sq EXCEPT ![e] = r], flushed' = [flushed EXCEPT ![e] = n]
  PROVE  /\ Queues(sq', flushed') /\ Unseen(e)' = Len(r) - n
         /\ \A x \in Executor \ {e} : sq'[x] = sq[x] /\ flushed'[x] = flushed[x]
BY DEF Types, Queues, Unseen

\* Submitting leaves nothing that the kernel has not been shown (Submit).
LEMMA SubmitEmpties ==
  ASSUME Types, NEW e \in Executor, NEW q \in Seq(Entry), NEW c, Submit(e, q, c)
  PROVE  /\ Queues(sq', flushed') /\ Unseen(e)' = 0
         /\ \A x \in Executor \ {e} : sq'[x] = sq[x] /\ flushed'[x] = flushed[x]
<1>1. PICK r \in Seq(Entry) : sq' = [sq EXCEPT ![e] = r]
  <2>1. CASE Sqpoll(e)
    BY <2>1, Zenon DEF Submit
  <2>2. CASE ~Sqpoll(e)
    <3>1. <<>> \in Seq(Entry)
      OBVIOUS
    <3>2. sq' = [sq EXCEPT ![e] = <<>>]
      BY <2>2, Zenon DEF Submit
    <3> QED
      BY <3>1, <3>2, Zenon
  <2> QED
    BY <2>1, <2>2
<1>2. sq'[e] = r
  BY <1>1 DEF Types
<1>3. flushed' = [flushed EXCEPT ![e] = Len(r)]
  BY <1>2 DEF Submit
<1>4. Len(r) \in Nat /\ Len(r) <= Len(r) /\ Len(r) - Len(r) = 0
  BY <1>1
<1> QED
  BY <1>1, <1>3, <1>4, OneQueue

\* A completion that is handled takes the thread from one batch count to the
\* next (SeeNext); when that is zero a batch is full.
LEMMA NextCount ==
  ASSUME NEW b \in Nat \ {0}, NEW n \in 0 .. b - 1
  PROVE  /\ (n + 1) % b \in 0 .. b - 1
         /\ (n + 1) % b = 0 => n + 1 = b
         /\ (n + 1) % b # 0 => (n + 1) % b = n + 1
BY SMT

\* The sums in Counted, when an entry moves to the queue.
LEMMA MovedSum ==
  ASSUME NEW a \in Nat, NEW b \in Nat, NEW c \in Nat, NEW d \in Nat, NEW h \in Nat,
         a + b <= 2 * h, c <= a + 1, d = b - 1
  PROVE  c + d <= 2 * h
OBVIOUS

\* The sums in Counted, when one of the two is dropped.
LEMMA PartOfSum ==
  ASSUME NEW a \in Nat, NEW b \in Nat, NEW h \in Nat, a + b <= 2 * h
  PROVE  a <= 2 * h /\ 0 + b <= 2 * h
OBVIOUS

\* Initially no thread has anything to submit (RingExecutor's constructor).
LEMMA InitCounted == Init => IInv
BY EventLoopAssumption DEF Init, IInv, Types, Counted, Handling, Unseen

\* A step that changes only the thread of e: enough to look at e.
LEMMA OnlyThread ==
  ASSUME IInv, NEW e \in Executor, Types',
         UNCHANGED settings, Counted(e)',
         \A x \in Executor \ {e} :
           /\ pc'[x] = pc[x] /\ sq'[x] = sq[x] /\ flushed'[x] = flushed[x]
           /\ entries'[x] = entries[x] /\ processed'[x] = processed[x]
  PROVE  IInv'
<1> SUFFICES ASSUME NEW x \in Executor PROVE Counted(x)'
  BY DEF IInv
<1>1. CASE x = e
  BY <1>1
<1>2. CASE x # e
  BY <1>2, Zenon DEF IInv, Counted, Handling, Unseen, settings
<1> QED
  BY <1>1, <1>2

\* Every step of a thread, of the kernel and of the main thread keeps the counts
\* (EventLoop, Initiate, RingTransfer).
LEMMA StepCounted == IInv /\ [Next]_vars => IInv'
<1> SUFFICES ASSUME IInv, [Next]_vars PROVE IInv'
  OBVIOUS
<1> USE DEF IInv
<1>1. CASE UNCHANGED vars
  BY <1>1 DEF vars, settings, Types, Counted, Handling, Unseen
<1>2. ASSUME NEW e \in Executor, EnterWait(e) PROVE IInv'
  <2>1. CASE active[e]
    <3>1. Submit(e, sq[e], cq) /\ sq[e] \in Seq(Entry)
      BY <1>2, <2>1 DEF EnterWait, Types
    <3>2. /\ Queues(sq', flushed') /\ Unseen(e)' = 0
          /\ \A x \in Executor \ {e} : sq'[x] = sq[x] /\ flushed'[x] = flushed[x]
      BY <3>1, SubmitEmpties
    <3>3. Types' /\ Counted(e)'
      BY <1>2, <2>1, <3>2, Zenon DEF EnterWait, Types, Queues, Counted, settings
    <3> QED
      BY <1>2, <2>1, <3>2, <3>3, OnlyThread, Zenon DEF EnterWait, Types
  <2>2. CASE ~active[e]
    <3>1. Types' /\ Counted(e)'
      BY <1>2, <2>2 DEF EnterWait, Types, Counted, settings
    <3> QED
      BY <1>2, <2>2, <3>1, OnlyThread, Zenon DEF EnterWait, Types
  <2> QED
    BY <2>1, <2>2
<1>3. ASSUME NEW e \in Executor, LeaveWait(e) PROVE IInv'
  <2>1. Types' /\ Counted(e)'
    BY <1>3 DEF LeaveWait, Types, Counted, settings, Unseen
  <2> QED
    BY <1>3, <2>1, OnlyThread, Zenon DEF LeaveWait, Types
<1>4. ASSUME NEW e \in Executor, Handle(e) PROVE IInv'
  <2> DEFINE n == processed[e]
  <2>1. /\ n \in 0 .. submit_batch - 1
        /\ processed' = [processed EXCEPT ![e] = (n + 1) % submit_batch]
        /\ pc[e] = "loop" /\ UNCHANGED <<settings, sq, flushed>>
    BY <1>4 DEF Handle, SeeNext, Types
  <2>2. /\ processed'[e] \in 0 .. submit_batch - 1
        /\ processed' \in [Executor -> 0 .. submit_batch - 1]
        /\ \A x \in Executor \ {e} : processed'[x] = processed[x]
    BY <2>1, NextCount DEF Types
  <2>3. Handling(processed'[e]) = n + 1
    BY <2>1, NextCount DEF Handling, Types
  <2>4. submit_batch' = submit_batch
    BY <2>1 DEF settings
  <2>5. Unseen(e) <= 2 * n /\ Unseen(e) \in Nat /\ Unseen(e)' = Unseen(e)
    BY <2>1, UnseenNat, Zenon DEF Counted, Unseen
  <2>6. ASSUME NEW s \in Seq(Entry), s # <<>>, Len(s) <= 2, Suspend(e, s)
        PROVE  IInv'
    <3>1. /\ entries' = [entries EXCEPT ![e] = s]
          /\ pc' = [pc EXCEPT ![e] = "submit"]
      BY <2>6 DEF Suspend
    <3>2. Types'
      BY <2>1, <2>2, <2>4, <3>1 DEF Types
    <3>3. Unseen(e)' + Len(entries'[e]) <= 2 * Handling(processed[e])'
      <4>1. Len(s) \in Nat
        OBVIOUS
      <4>2. Handling(processed[e])' = n + 1
        BY <2>3, <2>4 DEF Handling
      <4>3. entries'[e] = s
        BY <3>1 DEF Types
      <4> QED
        BY <2>1, <2>5, <2>6, <4>1, <4>2, <4>3
    <3>4. Counted(e)'
      BY <2>6, <3>1, <3>3 DEF Counted, Types
    <3> QED
      BY <2>1, <2>2, <3>1, <3>2, <3>4, OnlyThread, Zenon DEF Types
  <2>7. ASSUME NEW c \in Coroutine, Finish(e, c) PROVE IInv'
    <3>1. /\ pc' = [pc EXCEPT ![e] = Following(processed'[e])]
          /\ UNCHANGED entries
      BY <2>7 DEF Finish
    <3>2. Types'
      BY <2>1, <2>2, <2>4, <3>1 DEF Types, Following
    <3>3. entries'[e] = <<>>
      BY <2>1, <3>1 DEF Counted
    <3>4. CASE processed'[e] = 0
      <4>1. pc'[e] = "batch" /\ submit_batch = n + 1
        BY <2>3, <3>1, <3>4 DEF Following, Handling, Types
      <4>2. Unseen(e)' <= 2 * submit_batch'
        BY <2>1, <2>4, <2>5, <4>1
      <4>3. Counted(e)'
        BY <3>3, <3>4, <4>1, <4>2 DEF Counted
      <4> QED
        BY <2>1, <2>2, <3>1, <3>2, <4>3, OnlyThread, Zenon DEF Types
    <3>5. CASE processed'[e] # 0
      <4>1. pc'[e] = "loop" /\ processed'[e] = n + 1
        BY <2>3, <3>1, <3>5 DEF Following, Handling, Types
      <4>2. Counted(e)'
        BY <2>1, <2>4, <2>5, <3>3, <3>5, <4>1 DEF Counted
      <4> QED
        BY <2>1, <2>2, <3>1, <3>2, <4>2, OnlyThread, Zenon DEF Types
    <3> QED
      BY <3>4, <3>5
  <2>8. ASSUME NEW x \in Entry
        PROVE  <<x>> \in Seq(Entry) /\ <<x>> # <<>> /\ Len(<<x>>) <= 2
    OBVIOUS
  <2>9. ASSUME NEW x \in Entry, NEW y \in Entry
        PROVE  <<x, y>> \in Seq(Entry) /\ <<x, y>> # <<>> /\ Len(<<x, y>>) <= 2
    OBVIOUS
  <2>10. ASSUME NEW c \in Coroutine, Suspend(e, <<Operation(c)>>) PROVE IInv'
    BY <2>6, <2>8, <2>10, EntryTypes, Zenon
  <2>11. ASSUME NEW d \in Coroutine, StartConnection(e, d) PROVE IInv'
    <3>1. CASE Suspend(e, <<Operation(d), Operation(Acceptor)>>)
      BY <2>6, <2>9, <3>1, EntryTypes, EventLoopAssumption, Zenon
    <3>2. ASSUME NEW x \in Executor, Suspend(e, <<Message(d, x, TRUE), Operation(Acceptor)>>)
          PROVE  IInv'
      BY <2>6, <2>9, <3>2, EntryTypes, EventLoopAssumption, Zenon
    <3> QED
      BY <2>11, <3>1, <3>2, Zenon DEF StartConnection
  <2>12. ASSUME NEW c \in Coroutine, NEW x \in Executor, Suspend(e, <<Message(c, x, FALSE)>>)
         PROVE  IInv'
    BY <2>6, <2>8, <2>12, EntryTypes, Zenon
  <2> QED
    BY <1>4, <2>7, <2>10, <2>11, <2>12, Zenon DEF Handle
<1>5. ASSUME NEW e \in Executor, FullQueue(e) PROVE IInv'
  <2>1. Submit(e, sq[e], cq) /\ sq[e] \in Seq(Entry)
    BY <1>5 DEF FullQueue, Types
  <2>2. /\ Queues(sq', flushed') /\ Unseen(e)' = 0
        /\ \A x \in Executor \ {e} : sq'[x] = sq[x] /\ flushed'[x] = flushed[x]
    BY <2>1, SubmitEmpties
  <2>3. UNCHANGED <<settings, pc, entries, processed>> /\ pc[e] = "submit"
    BY <1>5 DEF FullQueue
  <2>4. Types'
    BY <2>2, <2>3 DEF Types, Queues, settings
  <2>5. Unseen(e) \in Nat /\ Len(entries[e]) \in Nat
    BY UnseenNat
  <2>6. Handling(processed[e])' = Handling(processed[e])
    BY <2>3 DEF Handling, settings
  <2>7. Handling(processed[e]) \in Nat
    BY DEF Handling, Types
  <2>8. Unseen(e)' + Len(entries'[e]) <= 2 * Handling(processed[e])'
    <3>1. Unseen(e) + Len(entries[e]) <= 2 * Handling(processed[e])
      BY <2>3, Zenon DEF Counted
    <3>2. 0 + Len(entries[e]) <= 2 * Handling(processed[e])
      BY <2>5, <2>7, <3>1, PartOfSum, Zenon
    <3> QED
      BY <2>2, <2>3, <2>6, <3>2, Zenon
  <2>9. Counted(e)'
    BY <2>3, <2>8, Zenon DEF Counted
  <2> QED
    BY <2>2, <2>3, <2>4, <2>9, OnlyThread
<1>6. ASSUME NEW e \in Executor, GetSqe(e) PROVE IInv'
  <2> DEFINE s == Head(entries[e])
             q == Append(sq[e], s)
  <2>1. /\ pc[e] = "submit" /\ entries[e] \in Seq(Entry) /\ entries[e] # <<>>
        /\ sq[e] \in Seq(Entry) /\ Handling(processed[e]) \in Nat
    BY <1>6 DEF GetSqe, Types, Counted, Handling
  <2>2. /\ s \in Entry /\ q \in Seq(Entry) /\ Tail(entries[e]) \in Seq(Entry)
        /\ Len(q) = Len(sq[e]) + 1 /\ Len(Tail(entries[e])) = Len(entries[e]) - 1
        /\ Len(sq[e]) \in Nat /\ Len(entries[e]) \in Nat
    BY <2>1
  <2>3. /\ entries' = [entries EXCEPT ![e] = Tail(entries[e])]
        /\ pc' = [pc EXCEPT ![e] = IF Tail(entries[e]) # <<>> THEN "submit"
                                  ELSE Following(processed[e])]
        /\ UNCHANGED <<settings, processed>>
    BY <1>6 DEF GetSqe
  <2>4. /\ Queues(sq', flushed') /\ Unseen(e)' \in Nat /\ Unseen(e)' <= Unseen(e) + 1
        /\ \A x \in Executor \ {e} : sq'[x] = sq[x] /\ flushed'[x] = flushed[x]
    <3>1. CASE s.op = "msg" /\ s.submit
      <4>1. Submit(e, q, cq)
        BY <1>6, <3>1 DEF GetSqe
      <4>2. /\ Queues(sq', flushed') /\ Unseen(e)' = 0
            /\ \A x \in Executor \ {e} : sq'[x] = sq[x] /\ flushed'[x] = flushed[x]
        BY <2>2, <4>1, SubmitEmpties, Zenon
      <4>3. 0 \in Nat /\ 0 <= Unseen(e) + 1
        BY UnseenNat
      <4> QED
        BY <4>2, <4>3, Zenon
    <3>2. CASE ~(s.op = "msg" /\ s.submit)
      <4>1. sq' = [sq EXCEPT ![e] = q] /\ flushed' = flushed
        BY <1>6, <3>2 DEF GetSqe
      <4>2. /\ flushed' = [flushed EXCEPT ![e] = flushed[e]] /\ flushed[e] \in Nat
            /\ flushed[e] <= Len(sq[e])
        BY <4>1 DEF Types
      <4>3. flushed[e] <= Len(q)
        BY <2>2, <4>2
      <4>4. /\ Queues(sq', flushed') /\ Unseen(e)' = Len(q) - flushed[e]
            /\ \A x \in Executor \ {e} : sq'[x] = sq[x] /\ flushed'[x] = flushed[x]
        BY <2>2, <4>1, <4>2, <4>3, OneQueue, Zenon
      <4>5. Len(q) - flushed[e] \in Nat /\ Len(q) - flushed[e] <= Unseen(e) + 1
        BY <2>2, <4>2 DEF Unseen
      <4> QED
        BY <4>4, <4>5, Zenon
    <3> QED
      BY <3>1, <3>2
  <2>5. Types'
    BY <2>2, <2>3, <2>4, Zenon DEF Types, Queues, settings, Following
  <2>6. /\ Handling(processed[e])' = Handling(processed[e])
        /\ submit_batch' = submit_batch /\ processed'[e] = processed[e]
        /\ entries'[e] = Tail(entries[e])
    BY <2>3 DEF Handling, settings, Types
  <2>7. Unseen(e) + Len(entries[e]) <= 2 * Handling(processed[e])
    BY <2>1, Zenon DEF Counted
  <2>8. Unseen(e)' + Len(entries'[e]) <= 2 * Handling(processed[e])'
    <3>1. Unseen(e) \in Nat /\ Len(entries'[e]) \in Nat /\ Len(entries'[e]) = Len(entries[e]) - 1
      BY <2>2, <2>6, UnseenNat
    <3>2. Unseen(e)' + Len(entries'[e]) <= 2 * Handling(processed[e])
      BY <2>1, <2>2, <2>4, <2>7, <3>1, MovedSum, Zenon
    <3> QED
      BY <2>6, <3>2, Zenon
  <2>9. Counted(e)'
    <3>1. CASE Tail(entries[e]) # <<>>
      BY <2>3, <2>6, <2>8, <3>1, Zenon DEF Counted, Types
    <3>2. CASE Tail(entries[e]) = <<>>
      <4>1. Unseen(e)' <= 2 * Handling(processed[e])'
        <5>1. Len(entries'[e]) = 0 /\ 0 \in Nat
          <6>1. Len(<<>>) = 0 /\ 0 \in Nat
            OBVIOUS
          <6> QED
            BY <2>6, <3>2, <6>1, Zenon
        <5> QED
          BY <2>1, <2>4, <2>6, <2>8, <5>1, PartOfSum, Zenon
      <4>2. CASE processed[e] = 0
        <5>1. pc'[e] = "batch" /\ Handling(processed[e])' = submit_batch'
          BY <2>3, <2>6, <3>2, <4>2, Zenon DEF Following, Handling, Types
        <5> QED
          BY <2>6, <3>2, <4>1, <4>2, <5>1 DEF Counted
      <4>3. CASE processed[e] # 0
        <5>1. pc'[e] = "loop" /\ Handling(processed[e])' = processed'[e]
          BY <2>3, <2>6, <3>2, <4>3, Zenon DEF Following, Handling, Types
        <5> QED
          BY <2>6, <3>2, <4>1, <5>1 DEF Counted
      <4> QED
        BY <4>2, <4>3
    <3> QED
      BY <3>1, <3>2
  <2> QED
    BY <2>3, <2>4, <2>5, <2>9, OnlyThread, Zenon DEF Types
<1>7. ASSUME NEW e \in Executor, EndBatch(e) PROVE IInv'
  <2>1. /\ Submit(e, sq[e], Advanced(e, submit_batch)) /\ sq[e] \in Seq(Entry)
        /\ pc[e] = "batch" /\ pc' = [pc EXCEPT ![e] = "loop"]
        /\ UNCHANGED <<settings, entries, processed>>
    BY <1>7 DEF EndBatch, Types
  <2>2. /\ Queues(sq', flushed') /\ Unseen(e)' = 0
        /\ \A x \in Executor \ {e} : sq'[x] = sq[x] /\ flushed'[x] = flushed[x]
    BY <2>1, SubmitEmpties
  <2>3. Types'
    BY <2>1, <2>2, Zenon DEF Types, Queues, settings
  <2>4. Counted(e)'
    BY <2>1, <2>2 DEF Types, Counted
  <2> QED
    BY <2>1, <2>2, <2>3, <2>4, OnlyThread, Zenon DEF Types
<1>8. ASSUME NEW e \in Executor, NEW n, LeaveLoop(e, n), pc[e] = "loop" PROVE IInv'
  <2>1. Types'
    BY <1>8 DEF LeaveLoop, Types, settings
  <2>2. Counted(e)'
    BY <1>8 DEF LeaveLoop, Types, Counted
  <2> QED
    BY <1>8, <2>1, <2>2, OnlyThread, Zenon DEF LeaveLoop, Types
<1>9. ASSUME NEW e \in Executor, KernelTakes(e) PROVE IInv'
  <2>1. /\ sq[e] \in Seq(Entry) /\ flushed[e] \in Nat \ {0} /\ flushed[e] <= Len(sq[e])
        /\ sq' = [sq EXCEPT ![e] = Tail(sq[e])]
        /\ flushed' = [flushed EXCEPT ![e] = flushed[e] - 1]
        /\ UNCHANGED <<settings, pc, entries, processed>>
    BY <1>9 DEF KernelTakes, Types
  <2>2. /\ Tail(sq[e]) \in Seq(Entry) /\ flushed[e] - 1 \in Nat
        /\ Len(Tail(sq[e])) = Len(sq[e]) - 1 /\ flushed[e] - 1 <= Len(Tail(sq[e]))
        /\ Len(Tail(sq[e])) - (flushed[e] - 1) = Len(sq[e]) - flushed[e]
    BY <2>1
  <2>3. /\ Queues(sq', flushed') /\ Unseen(e)' = Unseen(e)
        /\ \A x \in Executor \ {e} : sq'[x] = sq[x] /\ flushed'[x] = flushed[x]
    <3>1. /\ Queues(sq', flushed') /\ Unseen(e)' = Len(Tail(sq[e])) - (flushed[e] - 1)
          /\ \A x \in Executor \ {e} : sq'[x] = sq[x] /\ flushed'[x] = flushed[x]
      BY <2>1, <2>2, OneQueue, Zenon
    <3> QED
      BY <2>2, <3>1, Zenon DEF Unseen
  <2>4. Types'
    BY <2>1, <2>3, Zenon DEF Types, Queues, settings
  <2>5. Counted(e)'
    BY <2>1, <2>3, Zenon DEF Counted, Handling, settings
  <2> QED
    BY <2>1, <2>3, <2>4, <2>5, OnlyThread, Zenon
<1>10. ASSUME UNCHANGED <<settings, pc, sq, flushed, entries, processed>> PROVE IInv'
  BY <1>10 DEF settings, Types, Counted, Handling, Unseen
<1>11. ASSUME NEW e \in Executor, Thread(e) PROVE IInv'
  <2>1. CASE Break(e)
    BY <1>8, <2>1 DEF Break
  <2>2. CASE EndLoop(e)
    BY <1>8, <2>2 DEF EndLoop
  <2> QED
    BY <1>2, <1>3, <1>4, <1>5, <1>6, <1>7, <1>11, <2>1, <2>2 DEF Thread
<1>12. ASSUME NEW e \in Executor, NEW c \in Coroutine, KernelCompletes(e, c) \/ Schedule(e, c)
       PROVE  IInv'
  BY <1>10, <1>12 DEF KernelCompletes, Schedule
<1>13. ASSUME NEW e \in Executor, ClearActive(e) \/ SendWake(e) PROVE IInv'
  BY <1>10, <1>13 DEF ClearActive, SendWake
<1> QED
  BY <1>1, <1>9, <1>11, <1>12, <1>13 DEF Next

\* No thread waits in RingTransfer or Initiate for an entry that only it could
\* free: NoSpin holds with any executors, coroutines, queue size and settings.
THEOREM NeverSpins == Spec => []NoSpin
<1>1. IInv => NoSpin
  <2> SUFFICES ASSUME IInv, RoomForBatch, NEW e \in Executor,
                      pc[e] = "submit", Len(sq[e]) = SqEntries, flushed[e] = 0
               PROVE  FALSE
    BY DEF NoSpin
  <2>1. /\ Len(sq[e]) \in Nat /\ Len(entries[e]) \in Nat \ {0}
        /\ submit_batch \in Nat \ {0} /\ processed[e] \in 0 .. submit_batch - 1
    BY DEF IInv, Types, Counted
  <2>2. Unseen(e) + Len(entries[e]) <= 2 * Handling(processed[e]) /\ Unseen(e) = Len(sq[e])
    <3>1. Unseen(e) + Len(entries[e]) <= 2 * Handling(processed[e])
      BY Zenon DEF IInv, Counted
    <3> QED
      BY <2>1, <3>1 DEF Unseen
  <2>3. Handling(processed[e]) \in Nat /\ Handling(processed[e]) <= submit_batch
    BY <2>1 DEF Handling
  <2> QED
    BY <2>1, <2>2, <2>3, EventLoopAssumption DEF RoomForBatch
<1> QED
  BY <1>1, InitCounted, StepCounted, PTL DEF Spec

-----------------------------------------------------------------------------
(* ResumedOnce *)

NoWake(c, e) == \A i \in 1 .. Len(c[e]) : c[e][i] # Wake

\* What a list of completions has more than another one is no Wake.
LEMMA TakenNoWake ==
  ASSUME NEW e \in Executor, NEW s \in Entry, NEW k, NEW x \in Executor,
         k.cq \in [Executor -> Seq(Coroutine \cup {Wake})], NoWake(k.cq, x)
  PROVE  NoWake(Taken(e, s, k).cq, x)
<1> DEFINE S == Coroutine \cup {Wake}
           q == k.cq[x]
           v == s.coroutine
<1>1. q \in Seq(S) /\ v \in S /\ v # Wake /\ \A i \in 1 .. Len(q) : q[i] # Wake
  BY EntryIs, EventLoopAssumption DEF NoWake
<1>2. Taken(e, s, k).cq[x] = q \/ Taken(e, s, k).cq[x] = Append(q, v)
  BY DEF Taken
<1> HIDE DEF S, q, v
<1>3. /\ Append(q, v) \in Seq(S) /\ Len(q) \in Nat /\ Len(Append(q, v)) = Len(q) + 1
      /\ Append(q, v)[Len(q) + 1] = v
      /\ \A i \in 1 .. Len(q) : Append(q, v)[i] = q[i]
  BY <1>1, Appended
<1>4. \A i \in 1 .. Len(Append(q, v)) : Append(q, v)[i] # Wake
  <2> SUFFICES ASSUME NEW i \in 1 .. Len(Append(q, v))
               PROVE  Append(q, v)[i] # Wake
    OBVIOUS
  <2>1. i \in 1 .. Len(q) \/ i = Len(q) + 1
    BY <1>3
  <2> QED BY <1>1, <1>3, <2>1
<1> QED BY Zenon, <1>1, <1>2, <1>4 DEF NoWake

\* So for all entries of a queue.
LEMMA AllNoWake ==
  ASSUME NEW e \in Executor, NEW q \in Seq(Entry), NEW k, NEW x \in Executor,
         k.cq \in [Executor -> Seq(Coroutine \cup {Wake})], NoWake(k.cq, x)
  PROVE  NoWake(AllTaken(e, q, k).cq, x)
<1> DEFINE N1 == Len(q)
<1>1. N1 \in Nat
  OBVIOUS
<1>2. PICK f : IsTaken(f, e, q, k, N1) /\ AllTaken(e, q, k) = f[N1]
  <2>1. \E f : IsTaken(f, e, q, k, N1)
    BY Zenon, <1>1, TakenExists
  <2>2. AllTaken(e, q, k) = (CHOOSE f : IsTaken(f, e, q, k, N1))[N1]
    BY DEF AllTaken, IsTaken
  <2> QED BY Zenon, <2>1, <2>2
<1> DEFINE Good(n) == /\ f[n].cq \in [Executor -> Seq(Coroutine \cup {Wake})]
                      /\ NoWake(f[n].cq, x)
           S == {n \in Nat : n <= N1 => Good(n)}
<1>3. 0 \in S
  <2>1. f[0] = k
    BY <1>1, <1>2, TakenStep
  <2> QED BY <2>1
<1>4. ASSUME NEW n \in Nat, n \in S
      PROVE  n + 1 \in S
  <2> SUFFICES ASSUME n + 1 <= N1
               PROVE  Good(n + 1)
    BY SMTT(30)
  <2>1. Good(n)
    <3> HIDE DEF Good
    <3> QED BY <1>1, <1>4
  <2>2. f[n + 1] = Taken(e, q[n + 1], f[n])
    BY <1>1, <1>2, TakenStep
  <2> DEFINE s == q[n + 1]
             g == f[n]
  <2>3. s \in Entry /\ s.coroutine \in Coroutine
    BY <1>1, EntryIs
  <2>4. g.cq \in [Executor -> Seq(Coroutine \cup {Wake})] /\ NoWake(g.cq, x)
    BY <2>1
  <2> HIDE DEF s, g
  <2>5. NoWake(Taken(e, s, g).cq, x)
    BY <2>3, <2>4, TakenNoWake
  <2>6. Taken(e, s, g).cq \in [Executor -> Seq(Coroutine \cup {Wake})]
    <3> DEFINE C == Coroutine \cup {Wake}
               v == s.coroutine
    <3>1. v \in C /\ g.cq \in [Executor -> Seq(C)]
      BY <2>3, <2>4
    <3>2. Taken(e, s, g).cq = [y \in Executor |-> IF s.op = "msg" /\ s.to = y THEN Append(g.cq[y], v) ELSE g.cq[y]]
      BY DEF Taken
    <3> HIDE DEF C, v
    <3>3. \A y \in Executor : g.cq[y] \in Seq(C) /\ Append(g.cq[y], v) \in Seq(C)
      BY <3>1
    <3>4. Taken(e, s, g).cq \in [Executor -> Seq(C)]
      BY <3>2, <3>3
    <3> QED BY <3>4 DEF C
  <2> QED BY <2>2, <2>5, <2>6 DEF s, g
<1>5. \A n \in Nat : n \in S
  <2> HIDE DEF S
  <2> QED BY <1>3, <1>4, Inductive
<1>6. Good(N1)
  <2> HIDE DEF Good
  <2> QED BY <1>1, <1>5
<1> QED BY <1>2, <1>6

\* Submitting, as a step from what is there once the entries are queued.
LEMMA SubmitSound ==
  ASSUME NEW a, NEW b, NEW l, NEW e \in Executor, NEW q, NEW c, Sound(a, l), Submit(e, q, c),
         sq \in [Executor -> Seq(Entry)], q \in Seq(Entry),
         a.sq = [sq EXCEPT ![e] = q], a.cq = c, a.running = running,
         b.sq = sq', b.cq = cq', b.running = running',
         b.entries = a.entries, b.head = a.head, b.listening = a.listening
  PROVE  Sound(b, l) /\ \A x \in Executor : NoWake(c, x) => NoWake(cq', x)
<1>1. CASE Sqpoll(e)
  <2>1. b.sq = a.sq /\ b.cq = a.cq /\ b.running = a.running /\ cq' = c
    BY <1>1, Zenon DEF Submit
  <2> QED BY <2>1, SameSound DEF Same
<1>2. CASE ~Sqpoll(e)
  <2> DEFINE k == [cq |-> a.cq, running |-> a.running]
  <2>1. /\ sq' = [sq EXCEPT ![e] = <<>>]
        /\ cq' = AllTaken(e, q, Kernel(c)).cq
        /\ running' = AllTaken(e, q, Kernel(c)).running
    BY <1>2, Zenon DEF Submit
  <2>2. Kernel(c) = k
    BY Zenon DEF Kernel
  <2>3. q = a.sq[e] /\ b.sq = [a.sq EXCEPT ![e] = <<>>]
    BY Zenon, <2>1
  <2>4. b.cq = AllTaken(e, q, k).cq /\ b.running = AllTaken(e, q, k).running
    BY <2>1, <2>2, Zenon
  <2>5. Sound(b, l)
    BY Zenon, <2>3, <2>4, AllSound DEF TakesAll
  <2>6. k.cq = c /\ k.cq \in [Executor -> Seq(Coroutine \cup {Wake})]
    BY DEF Sound, Shape
  <2> HIDE DEF k
  <2>7. ASSUME NEW x \in Executor, NoWake(c, x)
        PROVE  NoWake(cq', x)
    <3>1. NoWake(AllTaken(e, q, k).cq, x)
      BY Zenon, <2>6, <2>7, AllNoWake
    <3> QED BY <2>1, <2>2, <3>1, Zenon
  <2> QED BY <2>5, <2>7
<1> QED BY <1>1, <1>2

\* What the thread of e has seen of its completions, and that it listens while
\* it is active.
Seen(e) ==
  /\ head[e] = IF pc[e] \in {"submit", "batch"} THEN Handling(processed[e]) ELSE processed[e]
  /\ active[e] => pc[e] # "exited" /\ stop[e] = "none" /\ NoWake(cq, e)

Placed ==
  /\ active \in [Executor -> BOOLEAN] /\ stop \in [Executor -> {"none", "cleared", "sent"}]
  /\ \A e \in Executor : Seen(e)
  /\ Sound(Now, alive)

\* A step of one executor leaves the other executors' listening alone.
LEMMA SameListening ==
  ASSUME NEW e \in Executor, \A x \in Executor \ {e} : pc'[x] = pc[x] /\ active'[x] = active[x]
  PROVE  /\ (e \in Listening <=> e \in Listening') => Listening' = Listening
         /\ e \in Listening /\ e \notin Listening' => Listening' = Listening \ {e}
BY DEF Listening

\* The components of the present places.
LEMMA NowIs ==
  /\ Now.sq = sq /\ Now.entries = entries /\ Now.running = running /\ Now.cq = cq
  /\ Now.head = head /\ Now.listening = Listening
  /\ Now'.sq = sq' /\ Now'.entries = entries' /\ Now'.running = running' /\ Now'.cq = cq'
  /\ Now'.head = head' /\ Now'.listening = Listening'
BY DEF Now

\* A step that changes at most the thread of e, and the queues of others only by
\* completions of coroutines.
LEMMA OnlySeen ==
  ASSUME NEW e \in Executor, Placed, UNCHANGED settings, Seen(e)',
         active' \in [Executor -> BOOLEAN], stop' \in [Executor -> {"none", "cleared", "sent"}],
         \A x \in Executor \ {e} :
           /\ pc'[x] = pc[x] /\ active'[x] = active[x] /\ head'[x] = head[x]
           /\ processed'[x] = processed[x] /\ stop'[x] = stop[x]
           /\ NoWake(cq, x) => NoWake(cq', x),
         Sound(Now', alive')
  PROVE  Placed'
<1> SUFFICES ASSUME NEW x \in Executor PROVE Seen(x)'
  BY DEF Placed
<1>1. CASE x = e
  BY <1>1
<1>2. CASE x # e
  <2>1. Seen(x)
    BY Zenon DEF Placed
  <2>2. /\ pc'[x] = pc[x] /\ active'[x] = active[x] /\ head'[x] = head[x]
        /\ processed'[x] = processed[x] /\ stop'[x] = stop[x]
        /\ NoWake(cq, x) => NoWake(cq', x)
    BY Zenon, <1>2
  <2>3. Handling(processed[x])' = Handling(processed[x])
    BY Zenon, <2>2 DEF Handling, settings
  <2>4. NoWake(cq, x)' <=> NoWake(cq', x)
    BY Zenon DEF NoWake
  <2> QED BY Zenon, <2>1, <2>2, <2>3, <2>4 DEF Seen
<1> QED BY <1>1, <1>2

\* The types that the places lemmas ask for.
LEMMA PlacedTypes ==
  ASSUME Placed, Types
  PROVE  /\ sq \in [Executor -> Seq(Entry)] /\ entries \in [Executor -> Seq(Entry)]
         /\ running \subseteq Executor \X Coroutine
         /\ cq \in [Executor -> Seq(Coroutine \cup {Wake})]
         /\ head \in [Executor -> Nat]
         /\ \A e \in Executor : Len(cq[e]) \in Nat /\ head[e] <= Len(cq[e])
BY NowIs DEF Placed, Sound, Shape

\* EnterWait
LEMMA EnterWaitPlaced ==
  ASSUME IInv, Placed, NEW e \in Executor, EnterWait(e)
  PROVE  Placed'
<1>1. CASE active[e]
  <2>1. /\ pc[e] = "top" /\ pc' = [pc EXCEPT ![e] = "wait"] /\ Submit(e, sq[e], cq)
        /\ UNCHANGED <<settings, active, head, processed, entries, alive, stop>>
    BY <1>1, Zenon DEF EnterWait
  <2>2. pc'[e] = "wait" /\ \A x \in Executor \ {e} : pc'[x] = pc[x] /\ active'[x] = active[x]
    BY Zenon, <2>1 DEF IInv, Types
  <2>3. Listening' = Listening
    BY <1>1, <2>1, <2>2, SameListening DEF Listening
  <2>4. Sound(Now', alive) /\ \A x \in Executor : NoWake(cq, x) => NoWake(cq', x)
    <3>1. sq = [sq EXCEPT ![e] = sq[e]] /\ sq[e] \in Seq(Entry) /\ sq \in [Executor -> Seq(Entry)]
      BY Zenon DEF IInv, Types
    <3> QED BY Zenon, <2>1, <2>3, <3>1, NowIs, SubmitSound DEF Placed
  <2>5. Seen(e)'
    BY Zenon, <1>1, <2>1, <2>2, <2>4 DEF Seen, Placed
  <2> QED BY <2>1, <2>2, <2>4, <2>5, OnlySeen DEF Placed
<1>2. CASE ~active[e]
  <2>1. /\ pc[e] = "top" /\ pc' = [pc EXCEPT ![e] = "exited"] /\ UNCHANGED <<sq, cq, running>>
        /\ UNCHANGED <<settings, active, head, processed, entries, alive, stop>>
    BY <1>2, Zenon DEF EnterWait
  <2>2. pc'[e] = "exited" /\ \A x \in Executor \ {e} : pc'[x] = pc[x] /\ active'[x] = active[x]
    BY <2>1 DEF IInv, Types
  <2>3. Listening' = Listening
    BY <1>2, <2>1, <2>2, SameListening DEF Listening
  <2>4. Sound(Now', alive)
    BY <2>1, <2>3, NowIs, SameSound DEF Placed, Same
  <2>5. Seen(e)'
    BY Zenon, <1>2, <2>1, <2>2 DEF Seen, Placed
  <2> QED BY <2>1, <2>2, <2>4, <2>5, OnlySeen DEF Placed
<1> QED BY <1>1, <1>2

\* Leaving io_uring_wait_cqe keeps every coroutine in its place.
LEMMA LeaveWaitPlaced ==
  ASSUME IInv, Placed, NEW e \in Executor, LeaveWait(e)
  PROVE  Placed'
<1>1. /\ pc[e] = "wait" /\ pc' = [pc EXCEPT ![e] = "loop"]
      /\ UNCHANGED <<settings, active, sq, cq, head, processed, entries, running, alive, stop>>
  BY DEF LeaveWait
<1>2. pc'[e] = "loop" /\ \A x \in Executor \ {e} : pc'[x] = pc[x] /\ active'[x] = active[x]
  BY <1>1 DEF IInv, Types
<1>3. Listening' = Listening
  BY <1>1, <1>2, SameListening DEF Listening
<1>4. Sound(Now', alive)
  BY <1>1, <1>3, NowIs, SameSound DEF Placed, Same
<1>5. Seen(e)'
  BY Zenon, <1>1, <1>2 DEF Seen, Placed
<1> QED BY <1>1, <1>2, <1>4, <1>5, OnlySeen DEF Placed

\* A failed io_uring_get_sqe keeps every coroutine in its place.
LEMMA FullQueuePlaced ==
  ASSUME IInv, Placed, NEW e \in Executor, FullQueue(e)
  PROVE  Placed'
<1>1. /\ pc[e] = "submit" /\ Submit(e, sq[e], cq)
      /\ UNCHANGED <<settings, active, pc, head, processed, entries, alive, stop>>
  BY DEF FullQueue
<1>2. Listening' = Listening
  BY <1>1 DEF Listening
<1>3. Sound(Now', alive) /\ \A x \in Executor : NoWake(cq, x) => NoWake(cq', x)
  <2>1. sq = [sq EXCEPT ![e] = sq[e]] /\ sq[e] \in Seq(Entry) /\ sq \in [Executor -> Seq(Entry)]
    BY DEF IInv, Types
  <2> QED BY Zenon, <1>1, <1>2, <2>1, NowIs, SubmitSound DEF Placed
<1>4. Seen(e)'
  BY <1>1, <1>3 DEF Seen, Placed, Handling, settings
<1> QED BY <1>1, <1>3, <1>4, OnlySeen DEF Placed

\* A prepared entry moves from the coroutine to the submission queue.
LEMMA GetSqePlaced ==
  ASSUME IInv, Placed, NEW e \in Executor, GetSqe(e)
  PROVE  Placed'
<1> DEFINE s == Head(entries[e])
           q == Append(sq[e], s)
           r == Tail(entries[e])
           m == [sq |-> [sq EXCEPT ![e] = q], entries |-> [entries EXCEPT ![e] = r],
                 running |-> running, cq |-> cq, head |-> head, listening |-> Listening]
<1>1. /\ pc[e] = "submit"
      /\ \/ Submit(e, q, cq)
         \/ sq' = [sq EXCEPT ![e] = q] /\ UNCHANGED <<cq, running>>
      /\ entries' = [entries EXCEPT ![e] = r]
      /\ pc' = [pc EXCEPT ![e] = IF r # <<>> THEN "submit" ELSE Following(processed[e])]
      /\ UNCHANGED <<settings, active, head, processed, alive, stop>>
  BY Zenon DEF GetSqe
<1>2. entries[e] # <<>> /\ entries[e] \in Seq(Entry) /\ sq[e] \in Seq(Entry) /\ sq \in [Executor -> Seq(Entry)]
  BY <1>1 DEF IInv, Types, Counted
<1>3. q \in Seq(Entry)
  <2>1. s \in Entry
    BY <1>2
  <2> QED BY <1>2, <2>1
<1>4. \/ pc'[e] = "submit"
      \/ pc'[e] = "batch" /\ processed[e] = 0
      \/ pc'[e] = "loop" /\ processed[e] # 0
  <2>1. pc'[e] = IF r # <<>> THEN "submit" ELSE Following(processed[e])
    BY <1>1, Zenon DEF IInv, Types
  <2> HIDE DEF r
  <2> QED BY <2>1 DEF Following
<1>5. \A x \in Executor \ {e} : pc'[x] = pc[x] /\ active'[x] = active[x]
  BY <1>1 DEF IInv, Types
<1>6. Listening' = Listening
  BY Zenon, <1>1, <1>4, <1>5, SameListening DEF Listening
<1>7. /\ m.sq = [sq EXCEPT ![e] = q] /\ m.entries = [entries EXCEPT ![e] = r]
      /\ m.running = running /\ m.cq = cq /\ m.head = head /\ m.listening = Listening
  BY Zenon
<1>8. m.sq = [Now.sq EXCEPT ![e] = Append(Now.sq[e], Head(Now.entries[e]))]
      /\ m.entries = [Now.entries EXCEPT ![e] = Tail(Now.entries[e])]
  BY Zenon, <1>7, NowIs
<1> HIDE DEF m, q, r
<1>9. Sound(m, alive)
  <2>1. Now.entries[e] # <<>> /\ Sound(Now, alive)
    BY <1>2, NowIs DEF Placed
  <2> QED BY SMTT(30), <1>7, <1>8, <2>1, NowIs, PushSound DEF Pushes
<1>10. Sound(Now', alive) /\ \A x \in Executor : NoWake(cq, x) => NoWake(cq', x)
  <2>1. CASE Submit(e, q, cq)
    <3>1. /\ Now'.sq = sq' /\ Now'.cq = cq' /\ Now'.running = running'
          /\ Now'.entries = m.entries /\ Now'.head = m.head /\ Now'.listening = m.listening
      BY <1>1, <1>6, <1>7, NowIs
    <3> QED BY ZenonT(30), <1>2, <1>3, <1>7, <1>9, <2>1, <3>1, SubmitSound
  <2>2. CASE sq' = [sq EXCEPT ![e] = q] /\ UNCHANGED <<cq, running>>
    <3>1. Sound(Now', alive)
      BY <1>1, <1>6, <1>7, <1>9, <2>2, NowIs, SameSound DEF Same
    <3> QED BY Zenon, <2>2, <3>1
  <2> QED BY <1>1, <2>1, <2>2
<1>11. Seen(e)'
  <2>1. head[e] = Handling(processed[e]) /\ (active[e] => stop[e] = "none" /\ NoWake(cq, e))
    BY <1>1 DEF Placed, Seen
  <2> QED BY <1>1, <1>4, <1>10, <2>1 DEF Seen, Handling, settings
<1> QED BY Zenon, <1>1, <1>5, <1>10, <1>11, OnlySeen DEF Placed

\* A completion queue without a wake-up has none after an advance.
LEMMA PartNoWake ==
  ASSUME NEW e \in Executor, NEW s \in Seq(Coroutine \cup {Wake}), NEW n \in 0 .. Len(s),
         \A i \in 1 .. Len(s) : s[i] # Wake
  PROVE  \A i \in 1 .. Len(SubSeq(s, n + 1, Len(s))) : SubSeq(s, n + 1, Len(s))[i] # Wake
<1> DEFINE S == Coroutine \cup {Wake}
<1>1. s \in Seq(S)
  OBVIOUS
<1> HIDE DEF S
<1>2. Len(SubSeq(s, n + 1, Len(s))) = Len(s) - n
  BY <1>1
<1>3. ASSUME NEW i \in 1 .. Len(s) - n
      PROVE  SubSeq(s, n + 1, Len(s))[i] # Wake
  <2>1. SubSeq(s, n + 1, Len(s))[i] = s[n + i] /\ n + i \in 1 .. Len(s)
    BY SMTT(30), <1>1, <1>3
  <2> QED BY <2>1
<1> QED BY <1>2, <1>3

\* The end of a batch submits the entries and advances the completion queue; a
\* handled completion leaves, an unhandled one stays.
LEMMA EndBatchPlaced ==
  ASSUME IInv, Placed, NEW e \in Executor, EndBatch(e)
  PROVE  Placed'
<1> DEFINE c == Advanced(e, submit_batch)
           m == [sq |-> sq, entries |-> entries, running |-> running, cq |-> c,
                 head |-> [head EXCEPT ![e] = 0], listening |-> Listening]
<1>1. /\ pc[e] = "batch" /\ Submit(e, sq[e], c)
      /\ head' = [head EXCEPT ![e] = head[e] - submit_batch]
      /\ pc' = [pc EXCEPT ![e] = "loop"]
      /\ UNCHANGED <<settings, active, processed, entries, alive, stop>>
  BY DEF EndBatch
<1>2. processed[e] = 0 /\ head[e] = submit_batch /\ submit_batch \in Nat
  BY <1>1 DEF IInv, Types, Counted, Placed, Seen, Handling
<1>3. head' = [head EXCEPT ![e] = 0]
  <2>1. head[e] - submit_batch = 0
    BY <1>2
  <2> QED BY Zenon, <1>1, <2>1
<1>4. pc'[e] = "loop" /\ \A x \in Executor \ {e} : pc'[x] = pc[x] /\ active'[x] = active[x]
  BY Zenon, <1>1 DEF IInv, Types
<1>5. Listening' = Listening
  BY <1>1, <1>4, SameListening DEF Listening
<1>6. c = [cq EXCEPT ![e] = SubSeq(cq[e], head[e] + 1, Len(cq[e]))]
  BY <1>2 DEF Advanced
<1>7. /\ m.sq = sq /\ m.entries = entries /\ m.running = running /\ m.cq = c
      /\ m.head = [head EXCEPT ![e] = 0] /\ m.listening = Listening
  BY Zenon
<1> HIDE DEF m, c
<1>8. Sound(m, alive)
  <2>1. m.cq = [Now.cq EXCEPT ![e] = SubSeq(Now.cq[e], Now.head[e] + 1, Len(Now.cq[e]))]
    BY <1>6, <1>7, NowIs, Zenon
  <2>2. Sound(Now, alive) /\ m.head = [Now.head EXCEPT ![e] = 0]
    BY <1>7, NowIs DEF Placed
  <2> QED BY Zenon, <1>7, <2>1, <2>2, NowIs, AdvancedSound DEF Advances
<1>9. Sound(Now', alive) /\ \A x \in Executor : NoWake(c, x) => NoWake(cq', x)
  <2>1. sq = [sq EXCEPT ![e] = sq[e]] /\ sq[e] \in Seq(Entry) /\ sq \in [Executor -> Seq(Entry)]
    BY DEF IInv, Types
  <2>2. /\ Now'.sq = sq' /\ Now'.cq = cq' /\ Now'.running = running'
        /\ Now'.entries = m.entries /\ Now'.head = m.head /\ Now'.listening = m.listening
    BY <1>1, <1>3, <1>5, <1>7, NowIs
  <2>3. m.sq = [sq EXCEPT ![e] = sq[e]]
    BY <1>7, <2>1
  <2> QED BY Zenon, <1>1, <1>7, <1>8, <2>1, <2>2, <2>3, SubmitSound
<1>10. cq \in [Executor -> Seq(Coroutine \cup {Wake})] /\ head[e] \in 0 .. Len(cq[e])
  BY <1>2, PlacedTypes DEF IInv
<1>11. \A x \in Executor : NoWake(cq, x) => NoWake(c, x)
  <2> SUFFICES ASSUME NEW x \in Executor, NoWake(cq, x)
               PROVE  NoWake(c, x)
    OBVIOUS
  <2>1. CASE x = e
    <3>1. c[e] = SubSeq(cq[e], head[e] + 1, Len(cq[e])) /\ cq[e] \in Seq(Coroutine \cup {Wake})
      BY Zenon, <1>6, <1>10
    <3> QED BY Zenon, <1>10, <2>1, <3>1, PartNoWake DEF NoWake
  <2>2. CASE x # e
    <3>1. c[x] = cq[x]
      BY SMTT(30), <1>6, <1>10, <2>2
    <3> QED BY <3>1 DEF NoWake
  <2> QED BY <2>1, <2>2
<1>12. Seen(e)'
  <2>1. head'[e] = 0
    BY <1>3, PlacedTypes DEF IInv
  <2> QED BY <1>1, <1>2, <1>4, <1>9, <1>11, <2>1 DEF Seen, Placed
<1>13. \A x \in Executor \ {e} : head'[x] = head[x]
  BY SMTT(30), <1>3, PlacedTypes DEF IInv
<1> QED BY <1>1, <1>4, <1>9, <1>11, <1>12, <1>13, OnlySeen DEF Placed

\* The kernel thread moves an entry of the submission queue.
LEMMA KernelTakesPlaced ==
  ASSUME IInv, Placed, NEW e \in Executor, KernelTakes(e)
  PROVE  Placed'
<1>1. /\ sq[e] # <<>>
      /\ cq' = Taken(e, Head(sq[e]), Kernel(cq)).cq
      /\ running' = Taken(e, Head(sq[e]), Kernel(cq)).running
      /\ sq' = [sq EXCEPT ![e] = Tail(sq[e])]
      /\ UNCHANGED <<settings, active, pc, head, processed, entries, alive, stop>>
  <2>1. sq[e] # <<>>
    <3>1. flushed[e] > 0 /\ flushed[e] \in Nat /\ flushed[e] <= Len(sq[e])
      BY DEF KernelTakes, IInv, Types
    <3> QED BY <3>1
  <2> QED BY <2>1, Zenon DEF KernelTakes
<1> DEFINE k == [cq |-> Now.cq, running |-> Now.running]
<1>2. Kernel(cq) = k
  BY Zenon, NowIs DEF Kernel
<1>3. Listening' = Listening
  BY SMTT(30), <1>1 DEF Listening
<1>4. Sound(Now', alive)
  <2>1. /\ Now'.sq = [Now.sq EXCEPT ![e] = Tail(Now.sq[e])] /\ Now.sq[e] # <<>>
        /\ Now'.cq = Taken(e, Head(Now.sq[e]), k).cq
        /\ Now'.running = Taken(e, Head(Now.sq[e]), k).running
        /\ Now'.entries = Now.entries /\ Now'.head = Now.head /\ Now'.listening = Now.listening
    BY <1>1, <1>2, <1>3, NowIs, Zenon
  <2> QED BY Zenon, <2>1, TakeSound DEF Placed, Takes
<1>5. \A x \in Executor : NoWake(cq, x) => NoWake(cq', x)
  <2> SUFFICES ASSUME NEW x \in Executor, NoWake(cq, x)
               PROVE  NoWake(cq', x)
    BY Zenon
  <2>1. k.cq = cq /\ cq \in [Executor -> Seq(Coroutine \cup {Wake})]
    BY NowIs, PlacedTypes DEF IInv
  <2>2. Head(sq[e]) \in Entry
    BY <1>1 DEF IInv, Types
  <2> HIDE DEF k
  <2>3. NoWake(Taken(e, Head(sq[e]), k).cq, x)
    BY Zenon, <2>1, <2>2, TakenNoWake
  <2> QED BY <1>1, <1>2, <2>3
<1>6. Seen(e)'
  BY <1>1, <1>5 DEF Seen, Placed, Handling, settings
<1> QED BY Zenon, <1>1, <1>4, <1>5, <1>6, OnlySeen DEF Placed

\* A completion that is not a wake-up adds none.
LEMMA AppendedNoWake ==
  ASSUME NEW c \in [Executor -> Seq(Coroutine \cup {Wake})], NEW e \in Executor, NEW v \in Coroutine,
         NEW x \in Executor, NoWake(c, x)
  PROVE  NoWake([c EXCEPT ![e] = Append(c[e], v)], x)
<1>1. CASE x # e
  <2>1. [c EXCEPT ![e] = Append(c[e], v)][x] = c[x]
    BY <1>1
  <2> QED BY <2>1 DEF NoWake
<1>2. CASE x = e
  <2> DEFINE S == Coroutine \cup {Wake}
             q == c[e]
  <2>1. q \in Seq(S) /\ v \in S /\ v # Wake /\ \A i \in 1 .. Len(q) : q[i] # Wake
    BY <1>2, EventLoopAssumption DEF NoWake
  <2>2. [c EXCEPT ![e] = Append(c[e], v)][x] = Append(q, v)
    BY <1>2
  <2> HIDE DEF S, q
  <2>3. /\ Append(q, v) \in Seq(S) /\ Len(q) \in Nat /\ Len(Append(q, v)) = Len(q) + 1
        /\ Append(q, v)[Len(q) + 1] = v
        /\ \A i \in 1 .. Len(q) : Append(q, v)[i] = q[i]
    BY <2>1, Appended
  <2>4. \A i \in 1 .. Len(Append(q, v)) : Append(q, v)[i] # Wake
    <3> SUFFICES ASSUME NEW i \in 1 .. Len(Append(q, v))
                 PROVE  Append(q, v)[i] # Wake
      OBVIOUS
    <3>1. i \in 1 .. Len(q) \/ i = Len(q) + 1
      BY SMTT(30), <2>3
    <3> QED BY <2>1, <2>3, <3>1
  <2> QED BY <2>2, <2>4 DEF NoWake
<1> QED BY <1>1, <1>2

\* A completed operation, or a scheduled coroutine, becomes a completion.
LEMMA CompletePlaced ==
  ASSUME IInv, Placed, NEW e \in Executor, NEW c \in Coroutine, KernelCompletes(e, c) \/ Schedule(e, c)
  PROVE  Placed'
<1>1. /\ cq' = [cq EXCEPT ![e] = Append(cq[e], c)]
      /\ UNCHANGED <<settings, active, pc, sq, head, processed, entries, stop>>
      /\ \/ <<e, c>> \in running /\ running' = running \ {<<e, c>>} /\ alive' = alive
         \/ c \notin alive /\ running' = running /\ alive' = alive \cup {c}
  BY Zenon DEF KernelCompletes, Schedule
<1>2. Listening' = Listening
  BY Zenon, <1>1 DEF Listening
<1>3. \A d \in Coroutine : \A k, y, i : Has(Now, k, y, i, d) => d \in alive
  BY DEF Placed, Sound, Waiting, Somewhere
<1>4. running' = running \ {<<e, c>>} /\ \A d \in Coroutine : d \in alive' <=> (d \in alive \/ d = c)
  <2>1. <<e, c>> \in running => Has(Now, "operation", e, 0, c)
    BY NowIs DEF Has
  <2> QED BY <1>1, <1>3, <2>1
<1>5. <<e, c>> \in running \/ c \notin alive
  BY <1>1
<1>6. Sound(Now', alive')
  <2>1. /\ Now'.running = Now.running \ {<<e, c>>}
        /\ Now'.cq = [Now.cq EXCEPT ![e] = Append(Now.cq[e], c)]
        /\ Now'.sq = Now.sq /\ Now'.entries = Now.entries /\ Now'.head = Now.head
        /\ Now'.listening = Now.listening
        /\ <<e, c>> \in Now.running \/ c \notin alive
    BY <1>1, <1>2, <1>4, <1>5, NowIs, Zenon
  <2>2. Sound(Now, alive) /\ c \in Coroutine \cup {Wake}
    BY Zenon DEF Placed
  <2>3. Sound(Now', alive \cup {c})
    BY <2>1, <2>2, CompletedSound DEF Completes
  <2> QED BY <1>4, <2>3, SameAlive
<1>7. \A x \in Executor : NoWake(cq, x) => NoWake(cq', x)
  BY Zenon, <1>1, AppendedNoWake, PlacedTypes DEF IInv
<1>8. Seen(e)'
  BY Zenon, <1>1, <1>7 DEF Seen, Placed, Handling, settings
<1> QED BY Zenon, <1>1, <1>6, <1>7, <1>8, OnlySeen DEF Placed

\* Deactivate adds a wake-up, which names no coroutine.
LEMMA SendWakePlaced ==
  ASSUME IInv, Placed, NEW e \in Executor, SendWake(e)
  PROVE  Placed'
<1>1. /\ stop[e] = "cleared" /\ cq' = [cq EXCEPT ![e] = Append(cq[e], Wake)]
      /\ stop' = [stop EXCEPT ![e] = "sent"]
      /\ UNCHANGED <<settings, active, pc, sq, head, processed, entries, running, alive>>
  BY Zenon DEF SendWake
<1>2. Listening' = Listening
  BY <1>1 DEF Listening
<1>3. running = running \ {<<e, Wake>>} /\ Wake \notin Coroutine
  BY PlacedTypes, EventLoopAssumption DEF IInv
<1>4. Sound(Now', alive)
  <2>1. /\ Now'.running = Now.running \ {<<e, Wake>>}
        /\ Now'.cq = [Now.cq EXCEPT ![e] = Append(Now.cq[e], Wake)]
        /\ Now'.sq = Now.sq /\ Now'.entries = Now.entries /\ Now'.head = Now.head
        /\ Now'.listening = Now.listening
    BY <1>1, <1>2, <1>3, NowIs, Zenon
  <2>2. Sound(Now, alive) /\ Wake \in Coroutine \cup {Wake}
    BY DEF Placed
  <2>3. Sound(Now', alive \cup {Wake})
    BY Zenon, <1>3, <2>1, <2>2, CompletedSound DEF Completes
  <2> QED BY <1>3, <2>3, SameAlive
<1>5. Seen(e)'
  BY <1>1 DEF Seen, Placed, Handling, settings
<1>6. \A x \in Executor \ {e} : stop'[x] = stop[x] /\ (NoWake(cq, x) => NoWake(cq', x))
  <2> SUFFICES ASSUME NEW x \in Executor \ {e}
               PROVE  stop'[x] = stop[x] /\ cq'[x] = cq[x]
    BY DEF NoWake
  <2> QED BY <1>1, PlacedTypes DEF Placed, IInv
<1>7. stop' \in [Executor -> {"none", "cleared", "sent"}]
  BY SMTT(30), <1>1 DEF Placed
<1> QED BY Zenon, <1>1, <1>4, <1>5, <1>6, <1>7, OnlySeen DEF Placed

\* Deactivate clears active_ and no coroutine moves.
LEMMA ClearActivePlaced ==
  ASSUME IInv, Placed, NEW e \in Executor, ClearActive(e)
  PROVE  Placed'
<1>1. /\ active' = [active EXCEPT ![e] = FALSE] /\ stop' = [stop EXCEPT ![e] = "cleared"]
      /\ UNCHANGED <<settings, pc, sq, cq, head, processed, entries, running, alive>>
  BY DEF ClearActive
<1>2. /\ ~active'[e] /\ active' \in [Executor -> BOOLEAN]
      /\ stop' \in [Executor -> {"none", "cleared", "sent"}]
      /\ \A x \in Executor \ {e} : active'[x] = active[x] /\ stop'[x] = stop[x] /\ pc'[x] = pc[x]
  BY <1>1 DEF Placed
<1>3. Sound(Now', alive)
  <2>1. CASE Listening' = Listening
    BY Zenon, <1>1, <2>1, NowIs, SameSound DEF Placed, Same
  <2>2. CASE Listening' # Listening
    <3>1. Listening' = Listening \ {e}
      BY SMTT(30), <1>1, <1>2, <2>2, SameListening DEF Listening
    <3>2. Shape(Now')
      BY ZenonT(30), <1>1, <3>1, NowIs DEF Placed, Sound, Shape
    <3> QED BY SMTT(30), <1>1, <2>2, <3>1, <3>2, NowIs, DeafSound DEF Placed, Deafens
  <2> QED BY <2>1, <2>2
<1>4. Seen(e)'
  <2>1. head[e] = IF pc[e] \in {"submit", "batch"} THEN Handling(processed[e]) ELSE processed[e]
    BY Zenon DEF Placed, Seen
  <2>2. /\ pc'[e] = pc[e] /\ head'[e] = head[e] /\ processed'[e] = processed[e]
        /\ submit_batch' = submit_batch
    BY <1>1 DEF settings
  <2> QED BY Zenon, <1>2, <2>1, <2>2 DEF Seen, Handling
<1> QED BY ZenonT(30), <1>1, <1>2, <1>3, <1>4, OnlySeen DEF Placed

\* The rest of a batch is given back at the end of the loop.
LEMMA LeaveLoopPlaced ==
  ASSUME IInv, Placed, NEW e \in Executor, NEW n \in Nat, pc[e] = "loop", LeaveLoop(e, n),
         ~active[e] \/ (n = head[e])
  PROVE  Placed'
<1> DEFINE r == SubSeq(cq[e], n + 1, Len(cq[e]))
<1>1. /\ cq' = [cq EXCEPT ![e] = r] /\ head' = [head EXCEPT ![e] = 0]
      /\ processed' = [processed EXCEPT ![e] = 0] /\ pc' = [pc EXCEPT ![e] = "top"]
      /\ UNCHANGED <<settings, active, sq, entries, running, alive, stop>>
  BY Zenon DEF LeaveLoop, Advanced
<1>2. /\ cq \in [Executor -> Seq(Coroutine \cup {Wake})] /\ head \in [Executor -> Nat]
      /\ Len(cq[e]) \in Nat /\ head[e] \in 0 .. Len(cq[e])
  BY PlacedTypes DEF IInv
<1>3. r \in Seq(Coroutine \cup {Wake})
  <2> DEFINE S == Coroutine \cup {Wake}
  <2>1. cq[e] \in Seq(S)
    BY <1>2
  <2> HIDE DEF S
  <2>2. r \in Seq(S)
    BY <2>1
  <2> QED BY <2>2 DEF S
<1>4. active[e] => r = SubSeq(cq[e], head[e] + 1, Len(cq[e]))
  BY Zenon
<1> HIDE DEF r
<1>5. /\ pc'[e] = "top" /\ head'[e] = 0 /\ processed'[e] = 0 /\ cq'[e] = r
      /\ \A x \in Executor \ {e} : /\ pc'[x] = pc[x] /\ active'[x] = active[x] /\ head'[x] = head[x]
                                   /\ processed'[x] = processed[x] /\ cq'[x] = cq[x]
  BY Zenon, <1>1, <1>2 DEF IInv, Types
<1>6. cq' \in [Executor -> Seq(Coroutine \cup {Wake})] /\ head' \in [Executor -> Nat] /\ Len(r) \in Nat
  BY <1>1, <1>2, <1>3
<1>7. CASE ~active[e]
  <2>1. Listening' = Listening \ {e} /\ e \in Listening
    BY Zenon, <1>1, <1>5, <1>7, SameListening DEF Listening
  <2>2. \A x \in Executor : head'[x] <= Len(cq'[x])
    BY SMTT(30), <1>5, <1>6, PlacedTypes DEF IInv
  <2>3. Shape(Now')
    BY ZenonT(30), <1>1, <1>6, <2>1, <2>2, NowIs DEF Placed, Sound, Shape
  <2>4. Listening \subseteq Executor
    BY DEF Listening
  <2>5. Sound(Now', alive')
    <3>1. /\ Now'.listening \subseteq Now.listening /\ Now'.listening # Now.listening
          /\ \A y \in Now'.listening : Now'.cq[y] = Now.cq[y] /\ Now'.head[y] = Now.head[y]
          /\ Now'.sq = Now.sq /\ Now'.entries = Now.entries /\ Now'.running = Now.running
      BY <1>1, <1>5, <2>1, <2>4, NowIs
    <3>2. Sound(Now, alive) /\ alive' = alive
      BY Zenon, <1>1 DEF Placed
    <3> QED BY Zenon, <2>3, <3>1, <3>2, DeafSound DEF Deafens
  <2>6. Seen(e)'
    BY SMTT(30), <1>1, <1>5, <1>7 DEF Seen
  <2> QED BY SMTT(30), <1>1, <1>5, <2>5, <2>6, OnlySeen DEF Placed, NoWake
<1>8. CASE active[e]
  <2>1. Listening' = Listening
    BY <1>1, <1>5, <1>8, SameListening DEF Listening
  <2>2. /\ Now'.cq = [Now.cq EXCEPT ![e] = SubSeq(Now.cq[e], Now.head[e] + 1, Len(Now.cq[e]))]
        /\ Now'.head = [Now.head EXCEPT ![e] = 0]
        /\ Now'.sq = Now.sq /\ Now'.entries = Now.entries /\ Now'.running = Now.running
        /\ Now'.listening = Now.listening
    BY <1>1, <1>4, <1>8, <2>1, NowIs, Zenon
  <2>3. Sound(Now', alive')
    BY Zenon, <1>1, <2>2, AdvancedSound DEF Placed, Advances
  <2>4. stop[e] = "none" /\ \A i \in 1 .. Len(cq[e]) : cq[e][i] # Wake
    BY <1>8 DEF Placed, Seen, NoWake
  <2>5. \A i \in 1 .. Len(r) : r[i] # Wake
    BY Zenon, <1>2, <1>4, <1>8, <2>4, PartNoWake
  <2>6. Seen(e)'
    BY <1>1, <1>5, <1>8, <2>4, <2>5 DEF Seen, NoWake
  <2> QED BY <1>1, <1>5, <2>3, <2>6, OnlySeen DEF Placed, NoWake
<1> QED BY Zenon, <1>7, <1>8 DEF Placed

\* An executor that leaves its loop no longer takes completions; no coroutine moves.
LEMMA LoopEndsPlaced ==
  ASSUME IInv, Placed, NEW e \in Executor, Break(e) \/ EndLoop(e)
  PROVE  Placed'
<1>1. CASE Break(e)
  <2>1. pc[e] = "loop" /\ head[e] < Len(cq[e]) /\ cq[e][head[e] + 1] = Wake
        /\ LeaveLoop(e, (processed[e] + 1) % submit_batch)
    BY <1>1 DEF Break
  <2>2. (processed[e] + 1) % submit_batch \in Nat
    BY NextCount DEF IInv, Types
  <2>3. head[e] + 1 \in 1 .. Len(cq[e])
    BY <2>1, PlacedTypes DEF IInv
  <2>4. ~active[e]
    BY <2>1, <2>3 DEF Placed, Seen, NoWake
  <2> QED BY <2>1, <2>2, <2>4, LeaveLoopPlaced
<1>2. CASE EndLoop(e)
  <2>1. pc[e] = "loop" /\ LeaveLoop(e, processed[e]) /\ processed[e] \in Nat
    BY <1>2 DEF EndLoop, IInv, Types
  <2>2. processed[e] = head[e]
    BY <2>1 DEF Placed, Seen
  <2> QED BY <2>1, <2>2, LeaveLoopPlaced
<1> QED BY <1>1, <1>2

\* The coroutines that run when c is resumed on e leave the entries s.
Leaves(e, c, s) ==
  /\ s \in Seq(Entry) /\ entries' = [entries EXCEPT ![e] = s]
  /\ Fresh(alive, c, s) /\ \A d \in Coroutine : d \in alive' <=> d \in Left(alive, c, s)

\* The coroutine an entry names.
LEMMA EntryOf ==
  /\ \A c : Operation(c).coroutine = c
  /\ \A c, e, b : Message(c, e, b).coroutine = c
BY DEF Operation, Message

\* A coroutine that awaits an operation prepares one entry and stays alive.
LEMMA OneEntry ==
  ASSUME NEW e \in Executor, NEW c \in Coroutine, NEW x \in Entry, x.coroutine = c, c \in alive,
         Suspend(e, <<x>>)
  PROVE  Leaves(e, c, <<x>>)
<1> DEFINE s == <<x>>
<1>1. s \in Seq(Entry) /\ Len(s) = 1 /\ s[1] = x
  OBVIOUS
<1>2. entries' = [entries EXCEPT ![e] = s] /\ alive' = alive \cup {s[1].coroutine}
  BY Zenon DEF Suspend
<1> HIDE DEF s
<1>3. \A i \in 1 .. Len(s) : i = 1
  BY <1>1
<1>4. Leaves(e, c, s)
  BY <1>1, <1>2, <1>3 DEF Leaves, Fresh, Left
<1> QED BY <1>4 DEF s

\* The accept loop starts the coroutine of a connection and awaits again.
LEMMA TwoEntries ==
  ASSUME NEW e \in Executor, NEW c \in Coroutine, NEW d \in Coroutine, NEW x \in Entry, NEW y \in Entry,
         x.coroutine = d, y.coroutine = c, c \in alive, d \notin alive, Suspend(e, <<x, y>>)
  PROVE  Leaves(e, c, <<x, y>>)
<1> DEFINE s == <<x, y>>
<1>1. s \in Seq(Entry) /\ Len(s) = 2 /\ s[1] = x /\ s[2] = y
  OBVIOUS
<1>2. entries' = [entries EXCEPT ![e] = s] /\ alive' = alive \cup {s[1].coroutine}
  BY Zenon DEF Suspend
<1> HIDE DEF s
<1>3. \A i \in 1 .. Len(s) : i = 1 \/ i = 2
  BY <1>1
<1>5. 1 \in 1 .. Len(s) /\ 2 \in 1 .. Len(s)
  BY <1>1
<1>4. Leaves(e, c, s)
  BY SMTT(30), <1>1, <1>2, <1>3, <1>5 DEF Leaves, Fresh, Left
<1> QED BY <1>4 DEF s

\* A coroutine that ends prepares nothing and is gone.
LEMMA NoEntry ==
  ASSUME NEW e \in Executor, NEW c \in Coroutine, entries \in [Executor -> Seq(Entry)],
         entries[e] = <<>>, Finish(e, c)
  PROVE  Leaves(e, c, <<>>)
<1>1. <<>> \in Seq(Entry) /\ entries' = [entries EXCEPT ![e] = <<>>] /\ \A i \in 1 .. Len(<<>>) : FALSE
  BY DEF Finish
<1> QED BY ZenonT(30), <1>1 DEF Finish, Leaves, Fresh, Left

\* Resuming a coroutine takes it from the completion queue to the entries it
\* prepares, or to the end of its life.
LEMMA HandlePlaced ==
  ASSUME IInv, Placed, NEW e \in Executor, Handle(e)
  PROVE  Placed'
<1>1. /\ pc[e] = "loop" /\ head[e] < Len(cq[e])
      /\ head' = [head EXCEPT ![e] = head[e] + 1]
      /\ processed' = [processed EXCEPT ![e] = (processed[e] + 1) % submit_batch]
      /\ UNCHANGED <<settings, active, sq, cq, running, stop>>
  BY Zenon DEF Handle, SeeNext
<1>2. /\ entries[e] = <<>> /\ entries \in [Executor -> Seq(Entry)] /\ e \in Listening
      /\ head[e] \in Nat /\ Len(cq[e]) \in Nat
  BY <1>1, PlacedTypes DEF IInv, Counted, Listening
<1>3. PICK c \in Coroutine :
        /\ c = cq[e][head[e] + 1]
        /\ \/ Suspend(e, <<Operation(c)>>)
           \/ c = Acceptor /\ \E d \in Coroutine \ (Tasks \cup alive) : StartConnection(e, d)
           \/ c # Acceptor /\ \E x \in Executor \ {e} : Suspend(e, <<Message(c, x, FALSE)>>)
           \/ c # Acceptor /\ Finish(e, c)
  BY Zenon DEF Handle
<1>4. c \in alive
  <2>1. Has(Now, "completion", e, head[e] + 1, c)
    <3>1. /\ e \in Now.listening /\ head[e] + 1 \in Now.head[e] + 1 .. Len(Now.cq[e])
          /\ Now.cq[e][head[e] + 1] = c
      BY <1>1, <1>2, <1>3, NowIs
    <3> QED BY <3>1, Zenon DEF Has
  <2> QED BY SMTT(30), <2>1 DEF Placed, Sound, Waiting, Somewhere
<1>5. \E s : Leaves(e, c, s)
  <2>1. CASE Suspend(e, <<Operation(c)>>)
    BY Zenon, <1>4, <2>1, OneEntry, EntryTypes, EntryOf
  <2>2. ASSUME c = Acceptor, NEW d \in Coroutine \ (Tasks \cup alive), StartConnection(e, d)
        PROVE  \E s : Leaves(e, c, s)
    <3>1. Operation(c) \in Entry /\ Operation(c).coroutine = c /\ d \in Coroutine /\ d \notin alive
      BY EntryTypes, EntryOf
    <3>2. PICK x \in Entry : x.coroutine = d /\ Suspend(e, <<x, Operation(c)>>)
      BY <2>2, EntryTypes, EntryOf, Zenon DEF StartConnection
    <3> QED BY <1>4, <3>1, <3>2, TwoEntries
  <2>3. ASSUME NEW x \in Executor, Suspend(e, <<Message(c, x, FALSE)>>)
        PROVE  \E s : Leaves(e, c, s)
    <3>1. Message(c, x, FALSE) \in Entry /\ Message(c, x, FALSE).coroutine = c
      BY EntryTypes, EntryOf, Zenon
    <3> DEFINE m == Message(c, x, FALSE)
    <3>2. m \in Entry /\ m.coroutine = c /\ Suspend(e, <<m>>)
      BY Zenon, <2>3, <3>1
    <3> HIDE DEF m
    <3> QED BY <1>4, <3>2, OneEntry
  <2>4. CASE Finish(e, c)
    BY <1>2, <2>4, NoEntry
  <2> QED BY Zenon, <1>3, <2>1, <2>2, <2>3, <2>4
<1>6. PICK s : Leaves(e, c, s)
  BY <1>5
<1>7. \/ pc' = [pc EXCEPT ![e] = "submit"]
      \/ pc' = [pc EXCEPT ![e] = Following(processed'[e])]
  BY <1>3, Zenon DEF StartConnection, Suspend, Finish
<1>8. /\ (processed[e] + 1) % submit_batch \in 0 .. submit_batch - 1
      /\ (processed[e] + 1) % submit_batch = 0 => processed[e] + 1 = submit_batch
      /\ (processed[e] + 1) % submit_batch # 0 => (processed[e] + 1) % submit_batch = processed[e] + 1
  BY NextCount DEF IInv, Types
<1>9. /\ processed'[e] = (processed[e] + 1) % submit_batch /\ head'[e] = head[e] + 1
      /\ head[e] = processed[e]
      /\ \A x \in Executor \ {e} : /\ pc'[x] = pc[x] /\ active'[x] = active[x] /\ head'[x] = head[x]
                                   /\ processed'[x] = processed[x]
  BY Zenon, <1>1, <1>7, PlacedTypes DEF IInv, Types, Placed, Seen
<1>10. \/ pc'[e] = "submit"
       \/ pc'[e] = "batch" /\ processed'[e] = 0
       \/ pc'[e] = "loop" /\ processed'[e] # 0
  <2>1. pc'[e] = "submit" \/ pc'[e] = Following(processed'[e])
    BY <1>7, Zenon DEF IInv, Types
  <2> QED BY <2>1 DEF Following
<1>11. Listening' = Listening
  BY <1>1, <1>9, <1>10, SameListening DEF Listening
<1>12. Sound(Now', alive')
  <2>1. /\ Now'.head = [Now.head EXCEPT ![e] = Now.head[e] + 1]
        /\ Now'.entries = [Now.entries EXCEPT ![e] = s]
        /\ Now'.sq = Now.sq /\ Now'.cq = Now.cq /\ Now'.running = Now.running
        /\ Now'.listening = Now.listening
        /\ e \in Now.listening /\ Now.head[e] < Len(Now.cq[e]) /\ c = Now.cq[e][Now.head[e] + 1]
        /\ Now.entries[e] = <<>>
    BY <1>1, <1>2, <1>3, <1>6, <1>11, NowIs, Zenon DEF Leaves
  <2>2. s \in Seq(Entry) /\ Fresh(alive, c, s)
    BY <1>6, Zenon DEF Leaves
  <2>5. Sound(Now, alive)
    BY SMTT(30) DEF Placed
  <2>3. Sound(Now', Left(alive, c, s))
    BY Zenon, <2>1, <2>2, <2>5, HandledSound DEF Handles
  <2>4. \A d \in Coroutine : d \in Left(alive, c, s) <=> d \in alive'
    BY SMTT(30), <1>6 DEF Leaves
  <2> QED BY <2>3, <2>4, SameAlive
<1>13. Seen(e)'
  <2>1. active[e] => stop[e] = "none" /\ NoWake(cq, e)
    BY DEF Placed, Seen
  <2> QED BY ZenonT(30), <1>1, <1>8, <1>9, <1>10, <2>1 DEF Seen, Handling, settings, NoWake
<1> QED BY <1>1, <1>9, <1>12, <1>13, OnlySeen DEF Placed, NoWake

\* At the start every coroutine is in one place.
LEMMA InitPlaced == Init => Placed
<1> SUFFICES ASSUME Init PROVE Placed
  OBVIOUS
<1>1. /\ sq = [e \in Executor |-> <<>>] /\ entries = [e \in Executor |-> <<>>]
      /\ cq = [e \in Executor |-> <<>>] /\ head = [e \in Executor |-> 0] /\ running = {} /\ alive = {}
      /\ active = [e \in Executor |-> TRUE] /\ stop = [e \in Executor |-> "none"]
      /\ pc = [e \in Executor |-> "top"] /\ processed = [e \in Executor |-> 0]
  BY DEF Init
<1>2. \A e \in Executor : Len(sq[e]) = 0 /\ Len(entries[e]) = 0 /\ Len(cq[e]) = 0
  BY Zenon, <1>1
<1>3. Shape(Now)
  <2>1. /\ sq \in [Executor -> Seq(Entry)] /\ entries \in [Executor -> Seq(Entry)]
        /\ cq \in [Executor -> Seq(Coroutine \cup {Wake})] /\ head \in [Executor -> Nat]
    BY <1>1
  <2>2. \A e \in Executor : head[e] <= Len(cq[e])
    BY <1>1, <1>2
  <2>3. Listening \subseteq Executor
    BY DEF Listening
  <2> QED BY <1>1, <2>1, <2>2, <2>3, NowIs DEF Shape
<1>4. \A k, e, i, c : ~Has(Now, k, e, i, c)
  <2> SUFFICES ASSUME NEW k, NEW e, NEW i, NEW c, Has(Now, k, e, i, c)
               PROVE  FALSE
    BY Zenon
  <2>1. e \in Executor
    BY Zenon, <1>3 DEF Has, Shape
  <2> QED BY <1>1, <1>2, <2>1, NowIs DEF Has
<1>5. Sound(Now, alive)
  BY <1>1, <1>3, <1>4 DEF Sound, Once, Waiting, Somewhere
<1>6. \A e \in Executor : Seen(e)
  BY <1>1, <1>2 DEF Seen, NoWake
<1>7. active \in [Executor -> BOOLEAN] /\ stop \in [Executor -> {"none", "cleared", "sent"}]
  BY <1>1
<1> QED BY <1>5, <1>6, <1>7 DEF Placed

\* Every step keeps every coroutine in one place.
LEMMA StepPlaced == IInv /\ Placed /\ [Next]_vars => Placed'
<1> SUFFICES ASSUME IInv, Placed, [Next]_vars PROVE Placed'
  BY Zenon
<1>1. CASE UNCHANGED vars
  <2>1. Now' = Now /\ alive' = alive
    BY <1>1 DEF vars, settings, Now, Listening
  <2> QED BY Zenon, <1>1, <2>1 DEF vars, settings, Placed, Seen, Handling, NoWake
<1>2. ASSUME NEW e \in Executor, Thread(e) PROVE Placed'
  BY <1>2, EnterWaitPlaced, LeaveWaitPlaced, HandlePlaced, FullQueuePlaced, GetSqePlaced,
     EndBatchPlaced, LoopEndsPlaced DEF Thread
<1>3. ASSUME NEW e \in Executor, KernelTakes(e) PROVE Placed'
  BY <1>3, KernelTakesPlaced
<1>4. ASSUME NEW e \in Executor, NEW c \in Coroutine, KernelCompletes(e, c) \/ Schedule(e, c)
      PROVE  Placed'
  BY <1>4, CompletePlaced
<1>5. ASSUME NEW e \in Executor, ClearActive(e) \/ SendWake(e) PROVE Placed'
  BY Zenon, <1>5, ClearActivePlaced, SendWakePlaced
<1> QED BY <1>1, <1>2, <1>3, <1>4, <1>5 DEF Next

\* Resumptions lists the places where a coroutine waits.
LEMMA ResumptionsAre ==
  ASSUME IInv, Placed, NEW c \in Coroutine
  PROVE  /\ \A z \in Resumptions(c) : \E k, e, i : z = <<k, e, i>> /\ Has(Now, k, e, i, c)
         /\ \A k, e, i : Has(Now, k, e, i, c) => <<k, e, i>> \in Resumptions(c)
<1> DEFINE Sub == UNION {{<<"submission", e, i>> : i \in {j \in DOMAIN sq[e] : sq[e][j].coroutine = c}} : e \in Executor}
           Ent == UNION {{<<"entry", e, i>> : i \in {j \in DOMAIN entries[e] : entries[e][j].coroutine = c}} : e \in Executor}
           Ope == {<<"operation", r[1], 0>> : r \in {x \in running : x[2] = c}}
           Com == UNION {{<<"completion", e, i>> : i \in {j \in Unhandled(e) : cq[e][j] = c}} : e \in Executor}
<1>1. Resumptions(c) = Sub \cup Ent \cup Ope \cup Com
  BY SMTT(30) DEF Resumptions
<1>2. \A e \in Executor : DOMAIN sq[e] = 1 .. Len(sq[e]) /\ DOMAIN entries[e] = 1 .. Len(entries[e])
  <2> SUFFICES ASSUME NEW e \in Executor
               PROVE  DOMAIN sq[e] = 1 .. Len(sq[e]) /\ DOMAIN entries[e] = 1 .. Len(entries[e])
    OBVIOUS
  <2>1. sq[e] \in Seq(Entry) /\ entries[e] \in Seq(Entry)
    BY DEF IInv, Types
  <2> QED BY Zenon, <2>1, LenProperties
<1>3. \A e \in Executor :
        Unhandled(e) = IF e \in Listening THEN {i \in head[e] + 1 .. Len(cq[e]) : cq[e][i] \in Coroutine} ELSE {}
  BY Zenon DEF Unhandled, Listening
<1>4. ASSUME NEW z \in Sub
      PROVE  \E k, e, i : z = <<k, e, i>> /\ Has(Now, k, e, i, c)
  <2>1. PICK e, i : /\ e \in Executor /\ i \in DOMAIN sq[e]
                   /\ z = <<"submission", e, i>> /\ sq[e][i].coroutine = c
    BY Zenon
  <2>2. Has(Now, "submission", e, i, c)
    BY <1>2, <2>1, NowIs DEF Has
  <2> QED BY <2>1, <2>2
<1>5. ASSUME NEW z \in Ent
      PROVE  \E k, e, i : z = <<k, e, i>> /\ Has(Now, k, e, i, c)
  <2>1. PICK e, i : /\ e \in Executor /\ i \in DOMAIN entries[e]
                   /\ z = <<"entry", e, i>> /\ entries[e][i].coroutine = c
    BY Zenon
  <2>2. Has(Now, "entry", e, i, c)
    BY <1>2, <2>1, NowIs DEF Has
  <2> QED BY <2>1, <2>2
<1>6. ASSUME NEW z \in Ope
      PROVE  \E k, e, i : z = <<k, e, i>> /\ Has(Now, k, e, i, c)
  <2>1. PICK r \in running : z = <<"operation", r[1], 0>> /\ r[2] = c
    OBVIOUS
  <2>2. r[1] \in Executor /\ r = <<r[1], c>>
    BY <2>1, PlacedTypes DEF IInv
  <2>3. Has(Now, "operation", r[1], 0, c)
    BY <2>1, <2>2, NowIs DEF Has
  <2> QED BY <2>1, <2>3
<1>7. ASSUME NEW z \in Com
      PROVE  \E k, e, i : z = <<k, e, i>> /\ Has(Now, k, e, i, c)
  <2>1. PICK e, i : /\ e \in Executor /\ i \in Unhandled(e)
                   /\ z = <<"completion", e, i>> /\ cq[e][i] = c
    BY Zenon
  <2>2. Has(Now, "completion", e, i, c)
    BY <1>3, <2>1, NowIs DEF Has
  <2> QED BY <2>1, <2>2
<1>8. \A e, i : Has(Now, "submission", e, i, c) => <<"submission", e, i>> \in Sub
  BY <1>2, NowIs DEF Has
<1>9. \A e, i : Has(Now, "entry", e, i, c) => <<"entry", e, i>> \in Ent
  BY <1>2, NowIs DEF Has
<1>10. \A e, i : Has(Now, "operation", e, i, c) => <<"operation", e, i>> \in Ope
  BY SMTT(30), NowIs DEF Has
<1>11. \A e, i : Has(Now, "completion", e, i, c) => <<"completion", e, i>> \in Com
  BY <1>3, NowIs DEF Has, Listening
<1> HIDE DEF Sub, Ent, Ope, Com
<1>12. \A k, e, i : Has(Now, k, e, i, c) => k \in {"submission", "entry", "operation", "completion"}
  BY DEF Has
<1> QED BY SMTT(30), <1>1, <1>4, <1>5, <1>6, <1>7, <1>8, <1>9, <1>10, <1>11, <1>12

\* However executors, the kernel and callers of Deactivate and Schedule interleave,
\* a live coroutine waits in at most one place, in exactly one while no executor is
\* deactivated, and a finished one in none: EventLoop resumes each suspended
\* coroutine once and never a freed one.
THEOREM ResumedCorrect == Spec => []ResumedOnce
<1>1. IInv /\ Placed => ResumedOnce
  <2> SUFFICES ASSUME IInv, Placed, NEW c \in Coroutine
               PROVE  /\ Cardinality(Resumptions(c)) <= IF c \in alive THEN 1 ELSE 0
                      /\ (c \in alive /\ \A e \in Executor : active[e]) => Resumptions(c) # {}
    BY DEF ResumedOnce
  <2> DEFINE R == Resumptions(c)
  <2>1. /\ \A z \in R : \E k, e, i : z = <<k, e, i>> /\ Has(Now, k, e, i, c)
        /\ \A k, e, i : Has(Now, k, e, i, c) => <<k, e, i>> \in R
    BY SMTT(30), ResumptionsAre
  <2> HIDE DEF R
  <2>2. R # {} => c \in alive
    BY Zenon, <2>1 DEF Placed, Sound, Waiting, Somewhere
  <2>3. \A y, z \in R : y = z
    <3> SUFFICES ASSUME NEW y \in R, NEW z \in R PROVE y = z
      OBVIOUS
    <3>1. PICK k1, e1, i1 : y = <<k1, e1, i1>> /\ Has(Now, k1, e1, i1, c)
      BY <2>1
    <3>2. PICK k2, e2, i2 : z = <<k2, e2, i2>> /\ Has(Now, k2, e2, i2, c)
      BY <2>1
    <3> QED BY <3>1, <3>2 DEF Placed, Sound, Once
  <2>4. Cardinality(R) <= IF c \in alive THEN 1 ELSE 0
    <3>1. CASE R = {}
      BY <3>1, FS_EmptySet
    <3>2. CASE R # {}
      <4>1. PICK z : R = {z}
        BY <2>3, <3>2
      <4>2. Cardinality({z}) = 1
        BY Zenon, FS_Singleton
      <4> QED BY <2>2, <3>2, <4>1, <4>2
    <3> QED BY <3>1, <3>2
  <2>5. ASSUME c \in alive, \A e \in Executor : active[e]
        PROVE  R # {}
    <3>1. Listening = Executor
      BY Zenon, <2>5 DEF Placed, Seen, Listening
    <3>2. Somewhere(Now, c)
      BY <2>5, <3>1, NowIs DEF Placed, Sound, Waiting
    <3> QED BY ZenonT(30), <2>1, <3>2 DEF Somewhere
  <2> QED BY <2>4, <2>5 DEF R
<1> QED BY <1>1, InitCounted, StepCounted, InitPlaced, StepPlaced, PTL DEF Spec
=============================================================================
