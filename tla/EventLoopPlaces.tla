----------------------------- MODULE EventLoopPlaces ---------------------------
(***************************************************************************)
(* Where the coroutines of EventLoop wait: a coroutine that is suspended is *)
(* in exactly one submission queue, list of entries still to be queued,    *)
(* running operation or completion queue.  Every way in which the code and *)
(* the kernel move coroutines between these places keeps that, whatever    *)
(* the places hold; EventLoopProofs applies it to the steps.               *)
(***************************************************************************)
EXTENDS EventLoop, SequenceTheorems, NaturalsInduction, WellFoundedInduction, TLAPS

Entry ==
  [op : {"io"}, coroutine : Coroutine]
  \cup [op : {"msg"}, coroutine : Coroutine, to : Executor, submit : BOOLEAN]

-----------------------------------------------------------------------------
(* Where coroutines wait *)

\* The executors whose thread still takes completions.
Listening == {e \in Executor : ~(pc[e] = "exited" \/ (pc[e] = "top" /\ ~active[e]))}

\* The places of coroutines, as a value.
Now == [sq |-> sq, entries |-> entries, running |-> running, cq |-> cq, head |-> head,
        listening |-> Listening]

\* In a, coroutine c waits at position i of the queue of kind k of executor e.
Has(a, k, e, i, c) ==
  \/ k = "submission" /\ e \in Executor /\ i \in 1 .. Len(a.sq[e]) /\ a.sq[e][i].coroutine = c
  \/ k = "entry" /\ e \in Executor /\ i \in 1 .. Len(a.entries[e]) /\ a.entries[e][i].coroutine = c
  \/ k = "operation" /\ e \in Executor /\ i = 0 /\ <<e, c>> \in a.running
  \/ k = "completion" /\ e \in a.listening /\ i \in a.head[e] + 1 .. Len(a.cq[e]) /\ a.cq[e][i] = c

Somewhere(a, c) == \E k, e, i : Has(a, k, e, i, c)

\* No coroutine waits in two places.
Once(a) ==
  \A c \in Coroutine : \A k1, e1, i1, k2, e2, i2 :
    Has(a, k1, e1, i1, c) /\ Has(a, k2, e2, i2, c) => k1 = k2 /\ e1 = e2 /\ i1 = i2

\* Only the coroutines l wait, and while every executor listens all of them do.
Waiting(a, l) ==
  \A c \in Coroutine : /\ Somewhere(a, c) => c \in l
                       /\ a.listening = Executor /\ c \in l => Somewhere(a, c)

Shape(a) ==
  /\ a.sq \in [Executor -> Seq(Entry)] /\ a.entries \in [Executor -> Seq(Entry)]
  /\ a.running \subseteq Executor \X Coroutine
  /\ a.cq \in [Executor -> Seq(Coroutine \cup {Wake})]
  /\ a.head \in [Executor -> Nat] /\ a.listening \subseteq Executor
  /\ \A e \in Executor : a.head[e] <= Len(a.cq[e])

Sound(a, l) == Shape(a) /\ Once(a) /\ Waiting(a, l)

\* The fields of an entry.
LEMMA EntryIs ==
  ASSUME NEW x \in Entry
  PROVE  /\ x.coroutine \in Coroutine
         /\ \/ x.op = "io"
            \/ x.op = "msg" /\ x.to \in Executor
BY DEF Entry

\* Appending to a sequence.
LEMMA Appended ==
  ASSUME NEW S, NEW s \in Seq(S), NEW v \in S
  PROVE  /\ Append(s, v) \in Seq(S) /\ Len(s) \in Nat /\ Len(Append(s, v)) = Len(s) + 1
         /\ Append(s, v)[Len(s) + 1] = v
         /\ \A i \in 1 .. Len(s) : Append(s, v)[i] = s[i]
OBVIOUS

\* The kernel takes the first entry of the queue of e.
Takes(a, b, e) ==
  /\ a.sq[e] # <<>>
  /\ b.sq = [a.sq EXCEPT ![e] = Tail(a.sq[e])]
  /\ b.cq = Taken(e, Head(a.sq[e]), [cq |-> a.cq, running |-> a.running]).cq
  /\ b.running = Taken(e, Head(a.sq[e]), [cq |-> a.cq, running |-> a.running]).running
  /\ b.entries = a.entries
  /\ b.head = a.head
  /\ b.listening = a.listening

\* The places stay sound when the kernel takes the head of the queue of e.
LEMMA TakeSound ==
  ASSUME NEW a, NEW b, NEW l, NEW e \in Executor,
         Sound(a, l), Takes(a, b, e)
  PROVE  Sound(b, l)
<1>a. b.entries = a.entries /\ b.head = a.head /\ b.listening = a.listening
  BY DEF Takes
<1> DEFINE x == Head(a.sq[e])
           New(k, y, i) == IF x.op = "io" THEN k = "operation" /\ y = e /\ i = 0
                           ELSE k = "completion" /\ y = x.to /\ y \in a.listening /\ i = Len(a.cq[y]) + 1
<1>1. /\ a.sq[e] \in Seq(Entry) /\ x \in Entry /\ x = a.sq[e][1]
      /\ Len(a.sq[e]) \in Nat \ {0} /\ Len(b.sq[e]) = Len(a.sq[e]) - 1
      /\ \A i \in 1 .. Len(b.sq[e]) : b.sq[e][i] = a.sq[e][i + 1]
      /\ b.sq[e] \in Seq(Entry)
      /\ \A y \in Executor \ {e} : b.sq[y] = a.sq[y]
  BY DEF Sound, Shape, Takes
<1>2. /\ x.coroutine \in Coroutine
      /\ \/ x.op = "io"
         \/ x.op = "msg" /\ x.to \in Executor
  BY <1>1, EntryIs
<1> HIDE DEF x
<1>3. ASSUME NEW y \in Executor
      PROVE  /\ b.cq[y] \in Seq(Coroutine \cup {Wake}) /\ Len(a.cq[y]) \in Nat
             /\ x.op = "msg" /\ x.to = y =>
                  /\ Len(b.cq[y]) = Len(a.cq[y]) + 1
                  /\ b.cq[y][Len(a.cq[y]) + 1] = x.coroutine
                  /\ \A i \in 1 .. Len(a.cq[y]) : b.cq[y][i] = a.cq[y][i]
             /\ ~(x.op = "msg" /\ x.to = y) => b.cq[y] = a.cq[y]
  <2>1. a.cq[y] \in Seq(Coroutine \cup {Wake})
    BY <1>a DEF Sound, Shape
  <2>2. b.cq[y] = IF x.op = "msg" /\ x.to = y THEN Append(a.cq[y], x.coroutine) ELSE a.cq[y]
    BY DEF Taken, Takes, x
  <2>3. x.coroutine \in Coroutine \cup {Wake}
    BY <1>2
  <2>4. CASE x.op = "msg" /\ x.to = y
    <3>1. b.cq[y] = Append(a.cq[y], x.coroutine)
      BY <2>2, <2>4
    <3> DEFINE S == Coroutine \cup {Wake}
               s == a.cq[y]
               v == x.coroutine
    <3>2. s \in Seq(S) /\ v \in S
      BY <2>1, <2>3
    <3> HIDE DEF S, s, v
    <3>3. /\ Append(s, v) \in Seq(S) /\ Len(s) \in Nat /\ Len(Append(s, v)) = Len(s) + 1
          /\ Append(s, v)[Len(s) + 1] = v
          /\ \A i \in 1 .. Len(s) : Append(s, v)[i] = s[i]
      BY <3>2, Appended
    <3> QED BY <2>4, <3>1, <3>3 DEF S, s, v
  <2>5. CASE ~(x.op = "msg" /\ x.to = y)
    <3>1. b.cq[y] = a.cq[y]
      BY <2>2, <2>5
    <3> QED BY <2>1, <2>5, <3>1
  <2> QED BY <2>4, <2>5
<1>4. b.running = IF x.op = "io" THEN a.running \cup {<<e, x.coroutine>>} ELSE a.running
  BY DEF Taken, Takes, x
<1>5. Shape(b)
  <2>1. b.sq \in [Executor -> Seq(Entry)]
    BY <1>1 DEF Sound, Shape, Takes
  <2>2. b.cq \in [Executor -> Seq(Coroutine \cup {Wake})]
    <3>1. b.cq = [y \in Executor |-> b.cq[y]]
      BY DEF Taken, Takes
    <3> QED BY <1>3, <3>1
  <2>3. b.running \subseteq Executor \X Coroutine
    BY <1>a, <1>2, <1>4 DEF Sound, Shape
  <2>4. \A y \in Executor : b.head[y] <= Len(b.cq[y])
    <3> SUFFICES ASSUME NEW y \in Executor
                 PROVE  b.head[y] <= Len(b.cq[y])
      OBVIOUS
    <3>1. a.head[y] \in Nat /\ a.head[y] <= Len(a.cq[y]) /\ b.head[y] = a.head[y]
      BY <1>a DEF Sound, Shape
    <3>2. Len(a.cq[y]) \in Nat /\ (Len(b.cq[y]) = Len(a.cq[y]) \/ Len(b.cq[y]) = Len(a.cq[y]) + 1)
      BY <1>3
    <3> QED BY <3>1, <3>2
  <2> QED BY <1>a, <2>1, <2>2, <2>3, <2>4 DEF Sound, Shape
<1>6. Has(a, "submission", e, 1, x.coroutine)
  BY <1>a, <1>1 DEF Has
<1>7. ASSUME NEW c \in Coroutine, NEW k, NEW y, NEW i, Has(b, k, y, i, c)
      PROVE  \/ Has(a, k, y, i, c) /\ ~(k = "submission" /\ y = e)
             \/ k = "submission" /\ y = e /\ i \in Nat \ {0} /\ Has(a, k, y, i + 1, c)
             \/ New(k, y, i) /\ c = x.coroutine
  <2>1. CASE k = "submission" /\ y = e
    <3>1. i \in 1 .. Len(b.sq[e]) /\ b.sq[e][i].coroutine = c
      BY <1>7, <2>1 DEF Has
    <3>2. i \in Nat \ {0} /\ i + 1 \in 1 .. Len(a.sq[e]) /\ b.sq[e][i] = a.sq[e][i + 1]
      BY <1>1, <3>1
    <3> QED BY <2>1, <3>1, <3>2 DEF Has
  <2>2. CASE k = "submission" /\ y # e
    BY <1>a, <1>1, <1>7, <2>2 DEF Has
  <2>3. CASE k = "entry"
    BY <1>a, <1>7, <2>3 DEF Has
  <2>4. CASE k = "operation"
    BY <1>a, <1>4, <1>7, <2>4 DEF Has
  <2>5. CASE k = "completion"
    <3>1. y \in Executor /\ y \in a.listening /\ i \in a.head[y] + 1 .. Len(b.cq[y]) /\ b.cq[y][i] = c
          /\ a.head[y] \in Nat
      BY <1>a, <1>5, <1>7, <2>5 DEF Has, Shape
    <3>2. CASE x.op = "msg" /\ x.to = y /\ i = Len(a.cq[y]) + 1
      BY <1>3, <2>5, <3>1, <3>2
    <3>3. CASE ~(x.op = "msg" /\ x.to = y /\ i = Len(a.cq[y]) + 1)
      <4>1. i \in a.head[y] + 1 .. Len(a.cq[y]) /\ a.cq[y][i] = c
        BY <1>3, <3>1, <3>3
      <4> QED BY <1>a, <2>5, <3>1, <4>1 DEF Has
    <3> QED BY <3>2, <3>3
  <2> QED BY Zenon, <1>a, <1>7, <2>1, <2>2, <2>3, <2>4, <2>5 DEF Has
<1>8. ASSUME NEW c \in Coroutine, NEW k, NEW y, NEW i, Has(a, k, y, i, c), a.listening = Executor
      PROVE  Somewhere(b, c)
  <2>1. CASE k = "submission" /\ y = e /\ i = 1
    <3>1. c = x.coroutine
      BY <1>a, <1>1, <1>8, <2>1 DEF Has
    <3>2. CASE x.op = "io"
      <4>1. Has(b, "operation", e, 0, c)
        <5>1. <<e, c>> \in b.running
          BY <1>4, <3>1, <3>2
        <5> QED BY <1>a, <5>1 DEF Has
      <4> QED BY <4>1 DEF Somewhere
    <3>3. CASE x.op = "msg"
      <4> DEFINE z == x.to
      <4>1. /\ z \in Executor /\ Len(a.cq[z]) \in Nat /\ Len(b.cq[z]) = Len(a.cq[z]) + 1
            /\ b.cq[z][Len(a.cq[z]) + 1] = c
        BY <1>2, <1>3, <3>1, <3>3
      <4>2. Has(b, "completion", z, Len(a.cq[z]) + 1, c)
        <5>1. a.head[z] \in Nat /\ a.head[z] <= Len(a.cq[z]) /\ z \in b.listening /\ b.head[z] = a.head[z]
          BY <1>a, <1>8, <4>1 DEF Sound, Shape
        <5>2. Len(a.cq[z]) + 1 \in b.head[z] + 1 .. Len(b.cq[z])
          BY <4>1, <5>1
        <5> QED BY <1>a, <4>1, <5>1, <5>2 DEF Has
      <4> QED BY <4>2 DEF Somewhere
    <3> QED BY <1>2, <3>2, <3>3
  <2>2. CASE k = "submission" /\ y = e /\ i # 1
    <3>1. i \in 1 .. Len(a.sq[e]) /\ a.sq[e][i].coroutine = c
      BY <1>8, <2>2 DEF Has
    <3>2. i - 1 \in 1 .. Len(b.sq[e]) /\ b.sq[e][i - 1] = a.sq[e][i]
      BY <1>1, <2>2, <3>1
    <3>3. Has(b, k, y, i - 1, c)
      BY <2>2, <3>1, <3>2 DEF Has
    <3> QED BY <3>3 DEF Somewhere
  <2>3. CASE ~(k = "submission" /\ y = e)
    <3>1. Has(b, k, y, i, c)
      <4>1. CASE k = "submission"
        BY <1>a, <1>1, <1>8, <2>3, <4>1 DEF Has
      <4>2. CASE k = "entry"
        BY <1>a, <1>8, <4>2 DEF Has
      <4>3. CASE k = "operation"
        BY <1>a, <1>4, <1>8, <4>3 DEF Has
      <4>4. CASE k = "completion"
        <5>1. /\ y \in Executor /\ y \in a.listening /\ i \in a.head[y] + 1 .. Len(a.cq[y])
              /\ a.cq[y][i] = c /\ a.head[y] \in Nat
          BY <1>a, <1>5, <1>8, <4>4 DEF Has, Shape
        <5>2. i \in a.head[y] + 1 .. Len(b.cq[y]) /\ b.cq[y][i] = c
          <6>1. CASE x.op = "msg" /\ x.to = y
            <7>1. /\ Len(a.cq[y]) \in Nat /\ Len(b.cq[y]) = Len(a.cq[y]) + 1
                  /\ \A h \in 1 .. Len(a.cq[y]) : b.cq[y][h] = a.cq[y][h]
              BY <1>3, <5>1, <6>1
            <7>2. i \in 1 .. Len(a.cq[y]) /\ i \in a.head[y] + 1 .. Len(b.cq[y])
              BY <5>1, <7>1
            <7> QED BY <5>1, <7>1, <7>2
          <6>2. CASE ~(x.op = "msg" /\ x.to = y)
            <7>1. b.cq[y] = a.cq[y]
              BY <1>3, <5>1, <6>2
            <7> QED BY <5>1, <7>1
          <6> QED BY <6>1, <6>2
        <5> QED BY <1>a, <4>4, <5>1, <5>2 DEF Has
      <4> QED BY <1>a, <1>8, <4>1, <4>2, <4>3, <4>4 DEF Has
    <3> QED BY Zenon, <3>1 DEF Somewhere
  <2> QED BY <2>1, <2>2, <2>3
<1>11. \A k1, e1, i1, k2, e2, i2 :
         New(k1, e1, i1) /\ New(k2, e2, i2) => k1 = k2 /\ e1 = e2 /\ i1 = i2
  OBVIOUS
<1> HIDE DEF New
<1>9. Once(b)
  <2> SUFFICES ASSUME NEW c \in Coroutine, NEW k1, NEW e1, NEW i1, NEW k2, NEW e2, NEW i2,
                      Has(b, k1, e1, i1, c), Has(b, k2, e2, i2, c)
               PROVE  k1 = k2 /\ e1 = e2 /\ i1 = i2
    BY DEF Once
  <2>1. ASSUME NEW k3, NEW e3, NEW i3, NEW k4, NEW e4, NEW i4, Has(a, k3, e3, i3, c), Has(a, k4, e4, i4, c)
        PROVE  k3 = k4 /\ e3 = e4 /\ i3 = i4
    BY <2>1 DEF Sound, Once
  <2>2. CASE New(k1, e1, i1) /\ c = x.coroutine
    BY <1>6, <1>7, <1>11, <2>1, <2>2
  <2>3. CASE New(k2, e2, i2) /\ c = x.coroutine
    BY <1>6, <1>7, <1>11, <2>1, <2>3
  <2>4. CASE k1 = "submission" /\ e1 = e /\ i1 \in Nat \ {0} /\ Has(a, k1, e1, i1 + 1, c)
    BY <1>7, <2>1, <2>3, <2>4
  <2>5. CASE Has(a, k1, e1, i1, c) /\ ~(k1 = "submission" /\ e1 = e)
    BY <1>7, <2>1, <2>3, <2>5
  <2> QED BY <1>7, <2>2, <2>4, <2>5
<1>10. Waiting(b, l)
  BY Zenon, <1>a, <1>6, <1>7, <1>8 DEF Sound, Waiting, Somewhere
<1> QED BY <1>5, <1>9, <1>10 DEF Sound

\* Only the fields matter.
Same(a, b) ==
  /\ b.sq = a.sq
  /\ b.entries = a.entries
  /\ b.running = a.running
  /\ b.cq = a.cq
  /\ b.head = a.head
  /\ b.listening = a.listening

\* Soundness only depends on what the places hold.
LEMMA SameSound ==
  ASSUME NEW a, NEW b, NEW l,
         Sound(a, l), Same(a, b)
  PROVE  Sound(b, l)
<1>1. \A k, e, i, c : Has(b, k, e, i, c) <=> Has(a, k, e, i, c)
  BY DEF Has, Same
<1> QED BY <1>1 DEF Sound, Shape, Once, Waiting, Somewhere, Same

\* Induction on the natural numbers: a set of numbers that has 0, and n + 1
\* with every n, has all of them.
LEMMA Inductive ==
  \A S : 0 \in S /\ (\A n \in Nat : n \in S => n + 1 \in S) => \A n \in Nat : n \in S
<1> SUFFICES ASSUME NEW S, 0 \in S, \A n \in Nat : n \in S => n + 1 \in S,
                    NEW m \in Nat, m \notin S
             PROVE  FALSE
  OBVIOUS
<1> DEFINE Bad == {n \in Nat : n \notin S}
<1>1. PICK n \in Bad : \A j \in Bad : ~(<<j, n>> \in OpToRel(<, Nat))
  <2>1. Bad \subseteq Nat /\ Bad # {}
    OBVIOUS
  <2> QED BY Zenon, <2>1, WFMin, NatLessThanWellFounded
<1>2. n - 1 \in Nat /\ n - 1 < n
  OBVIOUS
<1>3. <<n - 1, n>> \in OpToRel(<, Nat)
  BY <1>2, Zenon DEF OpToRel
<1>4. n - 1 \in S
  BY <1>1, <1>2, <1>3, Zenon
<1>5. n - 1 + 1 \in S /\ n - 1 + 1 = n
  BY <1>2, <1>4
<1> QED BY <1>5

IsTaken(f, e, q, k, n) ==
  f = [i \in 0 .. n |-> IF i = 0 THEN k ELSE Taken(e, q[i], f[i - 1])]

\* The recursive function of AllTaken exists for every number of entries.
LEMMA TakenExists == \A e, q, k : \A n \in Nat : \E f : IsTaken(f, e, q, k, n)
<1> SUFFICES ASSUME NEW e, NEW q, NEW k
             PROVE  \A n \in Nat : \E f : IsTaken(f, e, q, k, n)
  OBVIOUS
<1> DEFINE S == {n \in Nat : \E f : IsTaken(f, e, q, k, n)}
<1>1. 0 \in S
  <2>1. IsTaken([i \in 0 .. 0 |-> k], e, q, k, 0)
    BY DEF IsTaken
  <2> QED BY <2>1
<1>2. ASSUME NEW n \in Nat, n \in S
      PROVE  n + 1 \in S
  <2>1. PICK f : IsTaken(f, e, q, k, n)
    BY <1>2
  <2> DEFINE g == [i \in 0 .. n + 1 |-> IF i = n + 1 THEN Taken(e, q[n + 1], f[n]) ELSE f[i]]
  <2>2. IsTaken(g, e, q, k, n + 1)
    BY <2>1 DEF IsTaken
  <2> QED BY <2>2
<1>3. \A n \in Nat : n \in S
  <2> HIDE DEF S
  <2> QED BY <1>1, <1>2, Inductive
<1> QED BY <1>3

\* The first of them, and the next.
LEMMA TakenStep ==
  ASSUME NEW f, NEW e, NEW q, NEW k, NEW m \in Nat, IsTaken(f, e, q, k, m)
  PROVE  /\ f[0] = k
         /\ \A n \in Nat : n + 1 <= m => f[n + 1] = Taken(e, q[n + 1], f[n])
<1>1. f[0] = k
  BY DEF IsTaken
<1>2. ASSUME NEW n \in Nat, n + 1 <= m
      PROVE  f[n + 1] = Taken(e, q[n + 1], f[n])
  <2>1. n + 1 \in 0 .. m /\ n + 1 # 0 /\ (n + 1) - 1 = n
    BY <1>2
  <2> QED BY <2>1 DEF IsTaken
<1> QED BY <1>1, <1>2

\* The kernel takes all entries of the queue of e.
TakesAll(a, b, e) ==
  /\ b.sq = [a.sq EXCEPT ![e] = <<>>]
  /\ b.cq = AllTaken(e, a.sq[e], [cq |-> a.cq, running |-> a.running]).cq
  /\ b.running = AllTaken(e, a.sq[e], [cq |-> a.cq, running |-> a.running]).running
  /\ b.entries = a.entries
  /\ b.head = a.head
  /\ b.listening = a.listening

\* The places stay sound when the kernel takes all the entries of e, one after the
\* other (io_uring_submit).
LEMMA AllSound ==
  ASSUME NEW a, NEW b, NEW l, NEW e \in Executor,
         Sound(a, l), TakesAll(a, b, e)
  PROVE  Sound(b, l)
<1>a. b.entries = a.entries /\ b.head = a.head /\ b.listening = a.listening
  BY DEF TakesAll
<1> DEFINE q == a.sq[e]
           k == [cq |-> a.cq, running |-> a.running]
           N1 == Len(q)
<1>1. q \in Seq(Entry) /\ N1 \in Nat /\ a.sq \in [Executor -> Seq(Entry)]
  BY <1>a DEF Sound, Shape
<1>2. PICK f : IsTaken(f, e, q, k, N1) /\ AllTaken(e, q, k) = f[N1]
  <2>1. \E f : IsTaken(f, e, q, k, N1)
    BY Zenon, <1>1, TakenExists
  <2>2. AllTaken(e, q, k) = (CHOOSE f : IsTaken(f, e, q, k, N1))[N1]
    BY DEF AllTaken, IsTaken
  <2> QED BY Zenon, <2>1, <2>2
<1> DEFINE Rest(n) == [j \in 1 .. N1 - n |-> q[n + j]]
           St(n) == [sq |-> [a.sq EXCEPT ![e] = Rest(n)], entries |-> a.entries,
                     running |-> f[n].running, cq |-> f[n].cq, head |-> a.head,
                     listening |-> a.listening]
           S == {n \in Nat : n <= N1 => Sound(St(n), l)}
<1>3. 0 \in S
  <2>1. f[0] = k
    BY <1>1, <1>2, TakenStep
  <2>2. Rest(0) = q
    BY <1>1
  <2>3. [a.sq EXCEPT ![e] = Rest(0)] = a.sq
    BY Zenon, <1>1, <2>2
  <2>4. Sound(St(0), l)
    <3> DEFINE s0 == St(0)
    <3>1. /\ s0.sq = a.sq /\ s0.entries = a.entries /\ s0.running = a.running /\ s0.cq = a.cq
          /\ s0.head = a.head /\ s0.listening = a.listening
      BY <2>1, <2>3
    <3> HIDE DEF s0
    <3>2. Sound(s0, l)
      BY Zenon, <3>1, SameSound DEF Same
    <3> QED BY Zenon, <3>2 DEF s0
  <2> QED BY <2>4
<1>4. ASSUME NEW n \in Nat, n \in S
      PROVE  n + 1 \in S
  <2> SUFFICES ASSUME n + 1 <= N1
               PROVE  Sound(St(n + 1), l)
    OBVIOUS
  <2> DEFINE s == St(n)
             t == St(n + 1)
  <2>1. Sound(s, l)
    <3>1. n <= N1
      BY <1>1
    <3> HIDE DEF St
    <3> QED BY <1>4, <3>1
  <2>2. f[n + 1] = Taken(e, q[n + 1], f[n])
    BY ZenonT(30), <1>1, <1>2, TakenStep
  <2>3. /\ Rest(n) \in Seq(Entry) /\ Rest(n) # <<>> /\ Head(Rest(n)) = q[n + 1]
        /\ Tail(Rest(n)) = Rest(n + 1)
    <3>1. N1 - n \in Nat \ {0} /\ N1 - (n + 1) \in Nat
      BY <1>1
    <3>2. Rest(n) \in Seq(Entry) /\ Len(Rest(n)) = N1 - n
      BY <1>1, <3>1
    <3>3. Rest(n) # <<>> /\ Head(Rest(n)) = q[n + 1]
      <4>1. 1 \in 1 .. N1 - n /\ Rest(n)[1] = q[n + 1]
        BY <3>1
      <4> HIDE DEF Rest
      <4> QED BY <3>1, <3>2, <4>1
    <3>4. Tail(Rest(n)) = Rest(n + 1)
      <4>1. Tail(Rest(n)) = [j \in 1 .. N1 - (n + 1) |-> Rest(n)[j + 1]]
        <5> DEFINE r == Rest(n)
                   m == N1 - (n + 1)
        <5>1. r \in Seq(Entry) /\ Len(r) - 1 = m /\ r # <<>>
          BY <1>1, <3>2, <3>3
        <5> HIDE DEF r, m
        <5>2. /\ Tail(r) \in Seq(Entry) /\ Len(Tail(r)) = m
              /\ \A j \in 1 .. Len(Tail(r)) : Tail(r)[j] = r[j + 1]
          BY <5>1, HeadTailProperties
        <5>3. Tail(r) = [j \in 1 .. m |-> Tail(r)[j]]
          <6> DEFINE z == Tail(r)
          <6> HIDE DEF z
          <6>1. z \in Seq(Entry) /\ Len(z) = m
            BY <5>2 DEF z
          <6>2. z = [j \in 1 .. m |-> z[j]]
            BY <6>1
          <6> QED BY Zenon, <6>2 DEF z
        <5>4. Tail(r) = [j \in 1 .. m |-> r[j + 1]]
          BY <5>2, <5>3
        <5> QED BY Zenon, <5>4 DEF r, m
      <4>2. \A j \in 1 .. N1 - (n + 1) : Rest(n)[j + 1] = q[n + 1 + j]
        <5> SUFFICES ASSUME NEW j \in 1 .. N1 - (n + 1)
                     PROVE  Rest(n)[j + 1] = q[n + 1 + j]
          BY Zenon
        <5>1. j + 1 \in 1 .. N1 - n /\ n + (j + 1) = n + 1 + j
          <6> HIDE DEF N1, Rest
          <6> QED BY <1>1, <3>1
        <5> QED BY <5>1
      <4> QED BY Zenon, <4>1, <4>2
    <3> QED BY Zenon, <3>2, <3>3, <3>4
  <2> HIDE DEF Rest
  <2>4. /\ s.sq = [a.sq EXCEPT ![e] = Rest(n)] /\ t.sq = [a.sq EXCEPT ![e] = Rest(n + 1)]
        /\ s.sq[e] = Rest(n)
    BY <1>1
  <2>5. t.sq = [s.sq EXCEPT ![e] = Tail(s.sq[e])] /\ s.sq[e] # <<>>
    BY SMTT(30), <1>1, <2>3, <2>4
  <2>6. Taken(e, q[n + 1], f[n]) = Taken(e, Head(s.sq[e]), [cq |-> s.cq, running |-> s.running])
    BY Zenon, <1>a, <2>3, <2>4 DEF Taken
  <2>7. /\ t.cq = Taken(e, Head(s.sq[e]), [cq |-> s.cq, running |-> s.running]).cq
        /\ t.running = Taken(e, Head(s.sq[e]), [cq |-> s.cq, running |-> s.running]).running
    BY <2>2, <2>6
  <2>8. t.entries = s.entries /\ t.head = s.head /\ t.listening = s.listening
    OBVIOUS
  <2> HIDE DEF s, t
  <2>9. Sound(t, l)
    BY Zenon, <2>1, <2>5, <2>7, <2>8, TakeSound DEF Takes
  <2> QED BY Zenon, <2>9 DEF t
<1>5. \A n \in Nat : n \in S
  <2> HIDE DEF S
  <2> QED BY <1>3, <1>4, Inductive
<1>6. Sound(St(N1), l)
  <2> HIDE DEF St
  <2> QED BY <1>1, <1>5
<1>7. Rest(N1) = <<>>
  BY <1>1
<1> DEFINE z == St(N1)
<1>8. /\ b.sq = z.sq /\ b.entries = z.entries /\ b.running = z.running /\ b.cq = z.cq
      /\ b.head = z.head /\ b.listening = z.listening
  BY Zenon, <1>2, <1>7 DEF TakesAll
<1> HIDE DEF z
<1>9. Sound(z, l)
  BY <1>6 DEF z
<1> QED BY <1>8, <1>9, SameSound DEF Same

\* The first of the entries that the thread of e is about to submit is queued.
Pushes(a, b, e) ==
  /\ a.entries[e] # <<>>
  /\ b.sq = [a.sq EXCEPT ![e] = Append(a.sq[e], Head(a.entries[e]))]
  /\ b.entries = [a.entries EXCEPT ![e] = Tail(a.entries[e])]
  /\ b.running = a.running
  /\ b.cq = a.cq
  /\ b.head = a.head
  /\ b.listening = a.listening

\* The places stay sound when the thread of e moves a prepared entry to its
\* submission queue.
LEMMA PushSound ==
  ASSUME NEW a, NEW b, NEW l, NEW e \in Executor,
         Sound(a, l), Pushes(a, b, e)
  PROVE  Sound(b, l)
<1>a. b.running = a.running /\ b.cq = a.cq /\ b.head = a.head /\ b.listening = a.listening
  BY Zenon DEF Pushes
<1> DEFINE x == Head(a.entries[e])
           n == Len(a.sq[e])
<1>1. /\ a.entries[e] \in Seq(Entry) /\ x \in Entry /\ x = a.entries[e][1]
      /\ Len(a.entries[e]) \in Nat \ {0} /\ Len(b.entries[e]) = Len(a.entries[e]) - 1
      /\ \A i \in 1 .. Len(b.entries[e]) : b.entries[e][i] = a.entries[e][i + 1]
      /\ b.entries[e] \in Seq(Entry)
      /\ \A y \in Executor \ {e} : b.entries[y] = a.entries[y]
  BY DEF Sound, Shape, Pushes
<1>2. a.sq \in [Executor -> Seq(Entry)] /\ b.sq[e] = Append(a.sq[e], x) /\ a.sq[e] \in Seq(Entry)
      /\ \A y \in Executor \ {e} : b.sq[y] = a.sq[y]
  BY Zenon DEF Sound, Shape, Pushes
<1> HIDE DEF x
<1>3. /\ b.sq[e] \in Seq(Entry) /\ n \in Nat /\ Len(b.sq[e]) = n + 1
      /\ b.sq[e][n + 1] = x /\ \A i \in 1 .. n : b.sq[e][i] = a.sq[e][i]
  BY <1>1, <1>2, Appended
<1> HIDE DEF n
<1>4. Shape(b)
  <2>1. b.sq \in [Executor -> Seq(Entry)] /\ b.entries \in [Executor -> Seq(Entry)]
    BY <1>1, <1>3 DEF Sound, Shape, Pushes
  <2> QED BY Zenon, <1>a, <2>1 DEF Sound, Shape
<1>5. Has(a, "entry", e, 1, x.coroutine)
  BY <1>a, <1>1 DEF Has
<1>6. ASSUME NEW c \in Coroutine, NEW k, NEW y, NEW i, Has(b, k, y, i, c)
      PROVE  \/ Has(a, k, y, i, c) /\ ~(k = "entry" /\ y = e)
             \/ k = "entry" /\ y = e /\ i \in Nat \ {0} /\ Has(a, k, y, i + 1, c)
             \/ k = "submission" /\ y = e /\ i = n + 1 /\ c = x.coroutine
  <2>1. CASE k = "entry" /\ y = e
    BY SMTT(30), <1>a, <1>1, <1>6, <2>1 DEF Has
  <2>2. CASE k = "entry" /\ y # e
    BY <1>a, <1>1, <1>6, <2>2 DEF Has
  <2>3. CASE k = "submission" /\ y = e
    <3>1. i \in 1 .. n + 1 /\ b.sq[e][i].coroutine = c
      BY <1>a, <1>3, <1>6, <2>3 DEF Has
    <3>2. CASE i = n + 1
      BY Zenon, <1>3, <2>3, <3>1, <3>2
    <3>3. CASE i # n + 1
      <4>1. i \in 1 .. n
        BY <1>3, <3>1, <3>3
      <4> QED BY <1>a, <1>3, <2>3, <3>1, <4>1 DEF Has, n
    <3> QED BY Zenon, <3>2, <3>3
  <2>4. CASE k = "submission" /\ y # e
    BY Zenon, <1>a, <1>2, <1>6, <2>4 DEF Has
  <2>5. CASE k = "operation" \/ k = "completion"
    BY <1>a, <1>6, <2>5 DEF Has
  <2> QED BY Zenon, <1>a, <1>6, <2>1, <2>2, <2>3, <2>4, <2>5 DEF Has
<1>7. ASSUME NEW c \in Coroutine, NEW k, NEW y, NEW i, Has(a, k, y, i, c)
      PROVE  Somewhere(b, c)
  <2>1. CASE k = "entry" /\ y = e /\ i = 1
    <3>1. c = x.coroutine
      BY <1>a, <1>1, <1>7, <2>1 DEF Has
    <3>2. Has(b, "submission", e, n + 1, c)
      BY <1>a, <1>3, <3>1 DEF Has
    <3> QED BY <3>2 DEF Somewhere
  <2>2. CASE k = "entry" /\ y = e /\ i # 1
    <3>1. i \in 1 .. Len(a.entries[e]) /\ a.entries[e][i].coroutine = c
      BY <1>7, <2>2 DEF Has
    <3>2. i - 1 \in 1 .. Len(b.entries[e]) /\ b.entries[e][i - 1] = a.entries[e][i]
      BY <1>1, <2>2, <3>1
    <3>3. Has(b, k, y, i - 1, c)
      BY <2>2, <3>1, <3>2 DEF Has
    <3> QED BY <3>3 DEF Somewhere
  <2>3. CASE k = "submission" /\ y = e
    <3>1. i \in 1 .. n /\ a.sq[e][i].coroutine = c
      BY <1>a, <1>3, <1>7, <2>3 DEF Has, n
    <3>2. i \in 1 .. n + 1 /\ b.sq[e][i].coroutine = c
      BY <1>3, <3>1
    <3>3. Has(b, k, y, i, c)
      BY Zenon, <1>a, <1>3, <2>3, <3>2 DEF Has
    <3> QED BY <3>3 DEF Somewhere
  <2>4. CASE ~(k = "entry" /\ y = e) /\ ~(k = "submission" /\ y = e)
    <3>1. Has(b, k, y, i, c)
      BY Zenon, <1>a, <1>1, <1>2, <1>7, <2>4 DEF Has
    <3> QED BY <3>1 DEF Somewhere
  <2> QED BY <2>1, <2>2, <2>3, <2>4
<1>8. Once(b)
  <2> SUFFICES ASSUME NEW c \in Coroutine, NEW k1, NEW e1, NEW i1, NEW k2, NEW e2, NEW i2,
                      Has(b, k1, e1, i1, c), Has(b, k2, e2, i2, c)
               PROVE  k1 = k2 /\ e1 = e2 /\ i1 = i2
    BY DEF Once
  <2>1. ASSUME NEW k3, NEW e3, NEW i3, NEW k4, NEW e4, NEW i4, Has(a, k3, e3, i3, c), Has(a, k4, e4, i4, c)
        PROVE  k3 = k4 /\ e3 = e4 /\ i3 = i4
    BY <2>1 DEF Sound, Once
  <2>2. CASE k1 = "submission" /\ e1 = e /\ i1 = n + 1 /\ c = x.coroutine
    BY <1>5, <1>6, <2>1, <2>2
  <2>3. CASE k2 = "submission" /\ e2 = e /\ i2 = n + 1 /\ c = x.coroutine
    BY <1>5, <1>6, <2>1, <2>3
  <2>4. CASE k1 = "entry" /\ e1 = e /\ i1 \in Nat \ {0} /\ Has(a, k1, e1, i1 + 1, c)
    BY <1>6, <2>1, <2>3, <2>4
  <2>5. CASE Has(a, k1, e1, i1, c) /\ ~(k1 = "entry" /\ e1 = e)
    BY <1>6, <2>1, <2>3, <2>5
  <2> QED BY <1>6, <2>2, <2>4, <2>5
<1>9. Waiting(b, l)
  BY <1>a, <1>5, <1>6, <1>7 DEF Sound, Waiting, Somewhere
<1> QED BY <1>4, <1>8, <1>9 DEF Sound

\* A completion v is put into the queue of e: the result of an operation, or of a
\* task that the main thread starts, or the message of Deactivate.
Completes(a, b, l, e, v) ==
  /\ v \in Coroutine => (<<e, v>> \in a.running \/ v \notin l)
  /\ b.running = a.running \ {<<e, v>>}
  /\ b.cq = [a.cq EXCEPT ![e] = Append(a.cq[e], v)]
  /\ b.sq = a.sq
  /\ b.entries = a.entries
  /\ b.head = a.head
  /\ b.listening = a.listening

\* The places stay sound when a completion is added to the queue of e.
LEMMA CompletedSound ==
  ASSUME NEW a, NEW b, NEW l, NEW e \in Executor, NEW v \in Coroutine \cup {Wake},
         Sound(a, l), Completes(a, b, l, e, v)
  PROVE  Sound(b, l \cup {v})
<1>a. b.sq = a.sq /\ b.entries = a.entries /\ b.head = a.head /\ b.listening = a.listening
  BY DEF Completes
<1>b. /\ b.running = a.running \ {<<e, v>>}
      /\ v \in Coroutine => (<<e, v>> \in a.running \/ v \notin l)
  BY DEF Completes
<1> DEFINE n == Len(a.cq[e])
           l2 == l \cup {v}
<1>0. \A c \in Coroutine : c \in l2 <=> (c \in l \/ c = v)
  BY Zenon
<1> HIDE DEF l2
<1>1. /\ b.cq[e] \in Seq(Coroutine \cup {Wake}) /\ n \in Nat /\ Len(b.cq[e]) = n + 1
      /\ b.cq[e][n + 1] = v /\ \A i \in 1 .. n : b.cq[e][i] = a.cq[e][i]
  <2> DEFINE S == Coroutine \cup {Wake}
             s == a.cq[e]
  <2>1. s \in Seq(S) /\ v \in S /\ b.cq[e] = Append(s, v)
    BY Zenon DEF Sound, Shape, Completes
  <2> HIDE DEF S, s
  <2>2. /\ Append(s, v) \in Seq(S) /\ Len(s) \in Nat /\ Len(Append(s, v)) = Len(s) + 1
        /\ Append(s, v)[Len(s) + 1] = v
        /\ \A i \in 1 .. Len(s) : Append(s, v)[i] = s[i]
    BY <2>1, Appended
  <2> QED BY Zenon, <2>1, <2>2 DEF S, s
<1>2. \A y \in Executor \ {e} : b.cq[y] = a.cq[y]
  BY DEF Sound, Shape, Completes
<1>3. n = Len(a.cq[e]) /\ a.head[e] \in Nat /\ a.head[e] <= n
  BY Zenon, <1>a DEF Sound, Shape
<1> HIDE DEF n
<1>4. Shape(b)
  <2>1. b.cq \in [Executor -> Seq(Coroutine \cup {Wake})]
    BY Zenon, <1>1 DEF Sound, Shape, Completes
  <2>2. \A y \in Executor : b.head[y] <= Len(b.cq[y])
    <3> SUFFICES ASSUME NEW y \in Executor
                 PROVE  b.head[y] <= Len(b.cq[y])
      OBVIOUS
    <3>1. a.head[y] \in Nat /\ a.head[y] <= Len(a.cq[y]) /\ b.head[y] = a.head[y]
      BY <1>a DEF Sound, Shape
    <3>2. CASE y = e
      <4>1. Len(b.cq[e]) = n + 1
        BY Zenon, <1>1
      <4> QED BY <1>3, <3>1, <3>2, <4>1
    <3>3. CASE y # e
      BY Zenon, <1>2, <3>1, <3>3
    <3> QED BY <3>2, <3>3
  <2>3. b.running \subseteq Executor \X Coroutine
    BY <1>b DEF Sound, Shape
  <2> QED BY Zenon, <1>a, <2>1, <2>2, <2>3 DEF Sound, Shape
<1>5. ASSUME NEW c \in Coroutine, NEW k, NEW y, NEW i, Has(b, k, y, i, c)
      PROVE  \/ Has(a, k, y, i, c) /\ ~(k = "operation" /\ y = e /\ c = v)
             \/ k = "completion" /\ y = e /\ i = n + 1 /\ c = v
  <2>1. CASE k = "submission" \/ k = "entry"
    BY Zenon, <1>a, <1>5, <2>1 DEF Has
  <2>2. CASE k = "operation"
    BY <1>b, <1>5, <2>2 DEF Has
  <2>3. CASE k = "completion" /\ y = e
    <3>1. i \in a.head[e] + 1 .. n + 1 /\ b.cq[e][i] = c /\ e \in a.listening
      BY Zenon, <1>a, <1>1, <1>5, <2>3 DEF Has
    <3>2. CASE i = n + 1
      BY Zenon, <1>1, <2>3, <3>1, <3>2
    <3>3. CASE i # n + 1
      <4>1. i \in 1 .. n /\ i \in a.head[e] + 1 .. n
        BY SMTT(30), <1>1, <1>3, <3>1, <3>3
      <4> QED BY Zenon, <1>a, <1>1, <1>3, <2>3, <3>1, <4>1 DEF Has
    <3> QED BY Zenon, <3>2, <3>3
  <2>4. CASE k = "completion" /\ y # e
    <3>1. y \in Executor
      BY <1>a, <1>4, <1>5, <2>4 DEF Has, Shape
    <3> QED BY Zenon, <1>a, <1>2, <1>5, <2>4, <3>1 DEF Has
  <2> QED BY Zenon, <1>a, <1>5, <2>1, <2>2, <2>3, <2>4 DEF Has
<1>6. ASSUME NEW k, NEW y, NEW i, v \in Coroutine, Has(a, k, y, i, v)
      PROVE  k = "operation" /\ y = e
  <2>1. v \in l
    BY Zenon, <1>6 DEF Sound, Waiting, Somewhere
  <2>2. Has(a, "operation", e, 0, v)
    BY SMTT(30), <1>b, <1>6, <2>1 DEF Has
  <2> QED BY Zenon, <1>6, <2>2 DEF Sound, Once
<1>7. ASSUME NEW c \in Coroutine, NEW k, NEW y, NEW i, Has(a, k, y, i, c), c # v
      PROVE  Has(b, k, y, i, c)
  <2>1. CASE k = "submission" \/ k = "entry"
    BY Zenon, <1>a, <1>7, <2>1 DEF Has
  <2>2. CASE k = "operation"
    <3>1. <<y, c>> # <<e, v>>
      BY Zenon, <1>7
    <3> QED BY <1>b, <1>7, <2>2, <3>1 DEF Has
  <2>3. CASE k = "completion" /\ y = e
    <3>1. i \in a.head[e] + 1 .. n /\ a.cq[e][i] = c /\ e \in a.listening
      BY Zenon, <1>a, <1>3, <1>7, <2>3 DEF Has
    <3>2. i \in 1 .. n /\ i \in a.head[e] + 1 .. n + 1
      BY <1>1, <1>3, <3>1
    <3> QED BY Zenon, <1>a, <1>1, <1>3, <2>3, <3>1, <3>2 DEF Has
  <2>4. CASE k = "completion" /\ y # e
    <3>1. y \in Executor
      BY <1>a, <1>4, <1>7, <2>4 DEF Has, Shape
    <3> QED BY Zenon, <1>a, <1>2, <1>7, <2>4, <3>1 DEF Has
  <2> QED BY Zenon, <1>a, <1>7, <2>1, <2>2, <2>3, <2>4 DEF Has
<1>8. Once(b)
  <2> SUFFICES ASSUME NEW c \in Coroutine, NEW k1, NEW e1, NEW i1, NEW k2, NEW e2, NEW i2,
                      Has(b, k1, e1, i1, c), Has(b, k2, e2, i2, c)
               PROVE  k1 = k2 /\ e1 = e2 /\ i1 = i2
    BY DEF Once
  <2>1. CASE c = v
    BY <1>5, <1>6, <2>1
  <2>2. CASE c # v
    BY Zenon, <1>5, <2>2 DEF Sound, Once
  <2> QED BY <2>1, <2>2
<1>9. Waiting(b, l2)
  <2> SUFFICES ASSUME NEW c \in Coroutine
               PROVE  /\ Somewhere(b, c) => c \in l2
                      /\ b.listening = Executor /\ c \in l2 => Somewhere(b, c)
    BY Zenon DEF Waiting
  <2>1. Somewhere(b, c) => c \in l2
    BY <1>0, <1>5 DEF Sound, Waiting, Somewhere
  <2>2. CASE c = v
    <3>1. b.listening = Executor => Has(b, "completion", e, n + 1, c)
      BY SMTT(30), <1>a, <1>1, <1>3, <2>2 DEF Has
    <3> QED BY Zenon, <2>1, <3>1 DEF Somewhere
  <2>3. CASE c # v
    BY Zenon, <1>a, <1>0, <1>7, <2>1, <2>3 DEF Sound, Waiting, Somewhere
  <2> QED BY <2>2, <2>3
<1> QED BY <1>4, <1>8, <1>9 DEF Sound, l2

\* Of the coroutines l only those matter that there are.
LEMMA SameAlive ==
  ASSUME NEW a, NEW l, NEW l2, Sound(a, l), \A c \in Coroutine : c \in l2 <=> c \in l
  PROVE  Sound(a, l2)
BY DEF Sound, Waiting

\* The places of all completions of e that were handled are given back.
Advances(a, b, e) ==
  /\ b.cq = [a.cq EXCEPT ![e] = SubSeq(a.cq[e], a.head[e] + 1, Len(a.cq[e]))]
  /\ b.head = [a.head EXCEPT ![e] = 0]
  /\ b.sq = a.sq
  /\ b.entries = a.entries
  /\ b.running = a.running
  /\ b.listening = a.listening

\* The places stay sound when e advances its completion queue past what it handled.
LEMMA AdvancedSound ==
  ASSUME NEW a, NEW b, NEW l, NEW e \in Executor,
         Sound(a, l), Advances(a, b, e)
  PROVE  Sound(b, l)
<1>a. b.sq = a.sq /\ b.entries = a.entries /\ b.running = a.running /\ b.listening = a.listening
  BY Zenon DEF Advances
<1>0. /\ a.cq \in [Executor -> Seq(Coroutine \cup {Wake})] /\ a.head \in [Executor -> Nat]
      /\ \A y \in Executor : a.head[y] <= Len(a.cq[y])
  BY DEF Sound, Shape
<1> DEFINE n == Len(a.cq[e])
           h == a.head[e]
           r == SubSeq(a.cq[e], h + 1, n)
<1>2. /\ n = Len(a.cq[e]) /\ h = a.head[e]
      /\ b.cq = [a.cq EXCEPT ![e] = r] /\ b.head = [a.head EXCEPT ![e] = 0]
  BY DEF Advances
<1>20. r = SubSeq(a.cq[e], h + 1, n)
  BY Zenon
<1> HIDE DEF n, h, r
<1>1. /\ a.cq[e] \in Seq(Coroutine \cup {Wake}) /\ n \in Nat /\ h \in Nat /\ h <= n
      /\ b.cq[e] = r /\ b.head[e] = 0
      /\ \A y \in Executor \ {e} : b.cq[y] = a.cq[y] /\ b.head[y] = a.head[y]
  BY <1>0, <1>2
<1>3. /\ b.cq[e] \in Seq(Coroutine \cup {Wake}) /\ Len(b.cq[e]) = n - h
      /\ \A i \in 1 .. n - h : b.cq[e][i] = a.cq[e][h + i]
  <2> DEFINE S == Coroutine \cup {Wake}
             s == a.cq[e]
  <2>1. s \in Seq(S) /\ n = Len(s)
    BY <1>1, <1>2
  <2> HIDE DEF S, s
  <2>2. SubSeq(s, h + 1, n) \in Seq(S) /\ Len(SubSeq(s, h + 1, n)) = n - h
    BY <1>1, <2>1
  <2>3. \A i \in 1 .. n - h : SubSeq(s, h + 1, n)[i] = s[h + i]
    BY <1>1, <2>1
  <2>4. b.cq[e] = SubSeq(s, h + 1, n)
    BY <1>1, <1>20 DEF s
  <2>5. /\ b.cq[e] \in Seq(S) /\ Len(b.cq[e]) = n - h
        /\ \A i \in 1 .. n - h : b.cq[e][i] = s[h + i]
    BY Zenon, <2>2, <2>3, <2>4
  <2> QED BY <2>5 DEF S, s
<1>4. Shape(b)
  <2>1. b.cq \in [Executor -> Seq(Coroutine \cup {Wake})] /\ b.head \in [Executor -> Nat]
    <3> DEFINE S == Seq(Coroutine \cup {Wake})
    <3>1. a.cq \in [Executor -> S] /\ b.cq[e] \in S /\ b.cq[e] = r
      BY <1>0, <1>1, <1>3
    <3> HIDE DEF S
    <3>2. b.cq \in [Executor -> S]
      BY Zenon, <1>2, <3>1
    <3>3. b.head \in [Executor -> Nat]
      BY <1>0, <1>2
    <3> QED BY <3>2, <3>3 DEF S
  <2>2. \A y \in Executor : b.head[y] <= Len(b.cq[y])
    <3> SUFFICES ASSUME NEW y \in Executor
                 PROVE  b.head[y] <= Len(b.cq[y])
      OBVIOUS
    <3>1. CASE y = e
      <4>1. n - h \in Nat
        BY <1>1
      <4> QED BY <1>1, <1>3, <3>1, <4>1
    <3>2. CASE y # e
      BY <1>0, <1>1, <3>2
    <3> QED BY Zenon, <3>1, <3>2
  <2> QED BY SMTT(30), <1>a, <2>1, <2>2 DEF Sound, Shape
<1>5. ASSUME NEW c \in Coroutine, NEW k, NEW y, NEW i, Has(b, k, y, i, c)
      PROVE  \/ Has(a, k, y, i, c) /\ ~(k = "completion" /\ y = e)
             \/ k = "completion" /\ y = e /\ i \in Nat /\ Has(a, k, y, h + i, c)
  <2>1. CASE k # "completion"
    BY Zenon, <1>a, <1>5, <2>1 DEF Has
  <2>2. CASE k = "completion" /\ y = e
    <3>1. i \in 1 .. n - h /\ b.cq[e][i] = c /\ e \in a.listening
      <4>1. i \in b.head[e] + 1 .. Len(b.cq[e]) /\ b.cq[e][i] = c /\ e \in b.listening
        BY <1>a, <1>5, <2>2 DEF Has
      <4>2. b.head[e] + 1 = 1
        BY <1>1
      <4> QED BY Zenon, <1>a, <1>3, <4>1, <4>2
    <3>2. i \in Nat /\ h + i \in h + 1 .. n /\ a.cq[e][h + i] = c
      <4>1. n \in Nat /\ h \in Nat /\ h <= n /\ i \in 1 .. n - h
        BY <1>1, <3>1
      <4>2. i \in Nat /\ h + i \in h + 1 .. n
        BY <4>1
      <4> QED BY <1>3, <3>1, <4>2
    <3> QED BY <1>a, <1>2, <2>2, <3>1, <3>2 DEF Has
  <2>3. CASE k = "completion" /\ y # e
    <3>1. y \in Executor /\ b.cq[y] = a.cq[y] /\ b.head[y] = a.head[y]
      BY <1>a, <1>1, <1>4, <1>5, <2>3 DEF Has, Shape
    <3> QED BY Zenon, <1>a, <1>5, <2>3, <3>1 DEF Has
  <2> QED BY Zenon, <2>1, <2>2, <2>3
<1>6. ASSUME NEW c \in Coroutine, NEW k, NEW y, NEW i, Has(a, k, y, i, c)
      PROVE  Somewhere(b, c)
  <2>1. CASE k # "completion"
    <3>1. Has(b, k, y, i, c)
      BY <1>a, <1>6, <2>1 DEF Has
    <3> QED BY <3>1 DEF Somewhere
  <2>2. CASE k = "completion" /\ y = e
    <3>1. i \in h + 1 .. n /\ a.cq[e][i] = c /\ e \in a.listening
      BY Zenon, <1>a, <1>2, <1>6, <2>2 DEF Has
    <3>2. i - h \in 1 .. n - h /\ h + (i - h) = i
      BY <1>1, <3>1
    <3>3. b.cq[e][i - h] = c
      BY Zenon, <1>3, <3>1, <3>2
    <3>4. i - h \in b.head[e] + 1 .. Len(b.cq[e])
      BY <1>1, <1>3, <3>2
    <3>5. Has(b, "completion", e, i - h, c)
      BY Zenon, <1>a, <3>1, <3>3, <3>4 DEF Has
    <3> QED BY Zenon, <3>5 DEF Somewhere
  <2>3. CASE k = "completion" /\ y # e
    <3>1. y \in Executor
      BY Zenon, <1>a, <1>4, <1>6, <2>3 DEF Has, Shape
    <3>2. Has(b, k, y, i, c)
      BY <1>a, <1>1, <1>6, <2>3, <3>1 DEF Has
    <3> QED BY <3>2 DEF Somewhere
  <2> QED BY Zenon, <2>1, <2>2, <2>3
<1>7. Once(b)
  <2> SUFFICES ASSUME NEW c \in Coroutine, NEW k1, NEW e1, NEW i1, NEW k2, NEW e2, NEW i2,
                      Has(b, k1, e1, i1, c), Has(b, k2, e2, i2, c)
               PROVE  k1 = k2 /\ e1 = e2 /\ i1 = i2
    BY DEF Once
  <2>1. ASSUME NEW k3, NEW e3, NEW i3, NEW k4, NEW e4, NEW i4, Has(a, k3, e3, i3, c), Has(a, k4, e4, i4, c)
        PROVE  k3 = k4 /\ e3 = e4 /\ i3 = i4
    BY <2>1 DEF Sound, Once
  <2>2. CASE k1 = "completion" /\ e1 = e /\ i1 \in Nat /\ Has(a, k1, e1, h + i1, c)
    BY <1>1, <1>5, <2>1, <2>2
  <2>3. CASE Has(a, k1, e1, i1, c) /\ ~(k1 = "completion" /\ e1 = e)
    BY SMTT(30), <1>5, <2>1, <2>3
  <2> QED BY <1>5, <2>2, <2>3
<1>8. Waiting(b, l)
  BY <1>a, <1>5, <1>6 DEF Sound, Waiting, Somewhere
<1> QED BY <1>4, <1>7, <1>8 DEF Sound

\* Executors stop listening; what their queues of completions hold no longer
\* counts.
Deafens(a, b) ==
  /\ Shape(b)
  /\ b.listening \subseteq a.listening
  /\ b.listening # a.listening
  /\ \A y \in b.listening : b.cq[y] = a.cq[y] /\ b.head[y] = a.head[y]
  /\ b.sq = a.sq
  /\ b.entries = a.entries
  /\ b.running = a.running

\* The places stay sound when an executor stops listening.
LEMMA DeafSound ==
  ASSUME NEW a, NEW b, NEW l,
         Sound(a, l), Deafens(a, b)
  PROVE  Sound(b, l)
<1>1. ASSUME NEW k, NEW y, NEW i, NEW c, Has(b, k, y, i, c)
      PROVE  Has(a, k, y, i, c)
  BY <1>1 DEF Has, Deafens
<1>2. b.listening # Executor
  BY Zenon DEF Sound, Shape, Deafens
<1>3. Once(b)
  BY <1>1 DEF Sound, Once
<1>4. Waiting(b, l)
  BY <1>1, <1>2 DEF Sound, Waiting, Somewhere
<1> QED BY <1>3, <1>4 DEF Sound, Deafens

\* The entries s of coroutines that ran when c was resumed: each one is of c or of
\* a new one.
Fresh(l, c, s) ==
  /\ \A i \in 1 .. Len(s) : s[i].coroutine = c \/ s[i].coroutine \notin l
  /\ \A i, j \in 1 .. Len(s) : s[i].coroutine = s[j].coroutine => i = j

\* The coroutines that wait then.
Left(l, c, s) == (l \ {c}) \cup {s[i].coroutine : i \in 1 .. Len(s)}

\* The thread of e handles its next completion, of c, and the coroutines that ran
\* leave the entries s.
Handles(a, b, l, e, c, s) ==
  /\ e \in a.listening
  /\ a.head[e] < Len(a.cq[e])
  /\ c = a.cq[e][a.head[e] + 1]
  /\ a.entries[e] = <<>>
  /\ Fresh(l, c, s)
  /\ b.head = [a.head EXCEPT ![e] = a.head[e] + 1]
  /\ b.entries = [a.entries EXCEPT ![e] = s]
  /\ b.sq = a.sq
  /\ b.cq = a.cq
  /\ b.running = a.running
  /\ b.listening = a.listening

\* The places stay sound when e resumes the coroutine at the head and the coroutine
\* prepares the entries s.
LEMMA HandledSound ==
  ASSUME NEW a, NEW b, NEW l, NEW e \in Executor, NEW s \in Seq(Entry), NEW c \in Coroutine,
         Sound(a, l), Handles(a, b, l, e, c, s)
  PROVE  Sound(b, Left(l, c, s))
<1>a. b.sq = a.sq /\ b.cq = a.cq /\ b.running = a.running /\ b.listening = a.listening
  BY Zenon DEF Handles
<1>b. /\ e \in a.listening /\ a.head[e] < Len(a.cq[e]) /\ c = a.cq[e][a.head[e] + 1]
      /\ a.entries[e] = <<>>
  BY DEF Handles
<1> DEFINE l2 == Left(l, c, s)
<1>0. \A d \in Coroutine : d \in l2 <=> \/ d \in l /\ d # c
                                      \/ \E i \in 1 .. Len(s) : s[i].coroutine = d
  BY SMTT(30) DEF Left
<1> HIDE DEF l2
<1>1. /\ a.head[e] \in Nat /\ Len(a.cq[e]) \in Nat
      /\ b.head[e] = a.head[e] + 1 /\ b.entries[e] = s
      /\ \A y \in Executor \ {e} : b.head[y] = a.head[y] /\ b.entries[y] = a.entries[y]
  BY SMTT(30) DEF Sound, Shape, Handles
<1>2. Shape(b)
  <2>1. b.entries \in [Executor -> Seq(Entry)] /\ b.head \in [Executor -> Nat]
    BY SMTT(30) DEF Sound, Shape, Handles
  <2>2. \A y \in Executor : b.head[y] <= Len(b.cq[y])
    <3> SUFFICES ASSUME NEW y \in Executor
                 PROVE  b.head[y] <= Len(b.cq[y])
      BY Zenon
    <3>1. a.head[y] \in Nat /\ a.head[y] <= Len(a.cq[y]) /\ b.cq[y] = a.cq[y]
      BY Zenon, <1>a DEF Sound, Shape
    <3> QED BY <1>b, <1>1, <3>1
  <2> QED BY Zenon, <1>a, <2>1, <2>2 DEF Sound, Shape
<1>3. Has(a, "completion", e, a.head[e] + 1, c)
  BY <1>b, <1>1 DEF Has
<1>4. c \in l
  BY <1>3 DEF Sound, Waiting, Somewhere
<1>5. ASSUME NEW d \in Coroutine, NEW k, NEW y, NEW i, Has(b, k, y, i, d)
      PROVE  \/ k = "entry" /\ y = e /\ i \in 1 .. Len(s) /\ s[i].coroutine = d
             \/ Has(a, k, y, i, d) /\ d # c /\ ~(k = "entry" /\ y = e)
  <2>1. CASE k = "entry" /\ y = e
    BY Zenon, <1>a, <1>1, <1>5, <2>1 DEF Has
  <2>2. CASE ~(k = "entry" /\ y = e)
    <3>1. Has(a, k, y, i, d) /\ ~(k = "completion" /\ y = e /\ i = a.head[e] + 1)
      <4>1. CASE k = "submission" \/ k = "operation"
        BY Zenon, <1>a, <1>5, <4>1 DEF Has
      <4>2. CASE k = "entry"
        BY Zenon, <1>a, <1>1, <1>5, <2>2, <4>2 DEF Has
      <4>3. CASE k = "completion" /\ y = e
        <5>1. i \in a.head[e] + 1 + 1 .. Len(a.cq[e]) /\ a.cq[e][i] = d
          BY Zenon, <1>a, <1>1, <1>5, <4>3 DEF Has
        <5>2. i \in a.head[e] + 1 .. Len(a.cq[e]) /\ i # a.head[e] + 1
          BY SMTT(30), <1>1, <5>1
        <5> QED BY Zenon, <1>b, <4>3, <5>1, <5>2 DEF Has
      <4>4. CASE k = "completion" /\ y # e
        <5>1. y \in Executor
          BY Zenon, <1>a, <1>2, <1>5, <4>4 DEF Has, Shape
        <5> QED BY Zenon, <1>a, <1>1, <1>5, <4>4, <5>1 DEF Has
      <4> QED BY ZenonT(30), <1>a, <1>5, <4>1, <4>2, <4>3, <4>4 DEF Has
    <3>2. d # c
      <4>1. ASSUME d = c
            PROVE  k = "completion" /\ y = e /\ i = a.head[e] + 1
        <5>1. Has(a, k, y, i, c)
          BY <3>1, <4>1
        <5> QED BY <1>3, <5>1 DEF Sound, Once
      <4> QED BY Zenon, <3>1, <4>1
    <3> QED BY Zenon, <2>2, <3>1, <3>2
  <2> QED BY <2>1, <2>2
<1>6. ASSUME NEW d \in Coroutine, NEW k, NEW y, NEW i, Has(a, k, y, i, d), d # c
      PROVE  Has(b, k, y, i, d)
  <2>1. CASE k = "submission" \/ k = "operation"
    BY Zenon, <1>a, <1>6, <2>1 DEF Has
  <2>2. CASE k = "entry" /\ y = e
    <3>1. Len(a.entries[e]) = 0
      BY <1>b
    <3> QED BY <1>a, <1>6, <2>2, <3>1 DEF Has
  <2>3. CASE k = "entry" /\ y # e
    BY Zenon, <1>a, <1>1, <1>6, <2>3 DEF Has
  <2>4. CASE k = "completion" /\ y = e
    <3>1. i \in a.head[e] + 1 .. Len(a.cq[e]) /\ a.cq[e][i] = d
      BY <1>a, <1>6, <2>4 DEF Has
    <3>2. i # a.head[e] + 1
      BY Zenon, <1>b, <1>6, <3>1
    <3>3. i \in b.head[e] + 1 .. Len(b.cq[e])
      BY <1>a, <1>1, <3>1, <3>2
    <3> QED BY Zenon, <1>a, <1>b, <2>4, <3>1, <3>3 DEF Has
  <2>5. CASE k = "completion" /\ y # e
    <3>1. y \in Executor
      BY <1>a, <1>2, <1>6, <2>5 DEF Has, Shape
    <3> QED BY Zenon, <1>a, <1>1, <1>6, <2>5, <3>1 DEF Has
  <2> QED BY Zenon, <1>a, <1>6, <2>1, <2>2, <2>3, <2>4, <2>5 DEF Has
<1>7. \A d \in Coroutine : Somewhere(a, d) => d \in l
  BY DEF Sound, Waiting
<1>8. Once(b)
  <2> SUFFICES ASSUME NEW d \in Coroutine, NEW k1, NEW e1, NEW i1, NEW k2, NEW e2, NEW i2,
                      Has(b, k1, e1, i1, d), Has(b, k2, e2, i2, d)
               PROVE  k1 = k2 /\ e1 = e2 /\ i1 = i2
    BY DEF Once
  <2>1. CASE \E i \in 1 .. Len(s) : s[i].coroutine = d
    <3>1. \A k, y, i : Has(a, k, y, i, d) => d = c
      BY <1>7, <2>1 DEF Somewhere, Handles, Fresh
    <3>2. /\ k1 = "entry" /\ e1 = e /\ i1 \in 1 .. Len(s) /\ s[i1].coroutine = d
          /\ k2 = "entry" /\ e2 = e /\ i2 \in 1 .. Len(s) /\ s[i2].coroutine = d
      BY <1>5, <3>1
    <3> QED BY SMTT(30), <3>2 DEF Handles, Fresh
  <2>2. CASE ~\E i \in 1 .. Len(s) : s[i].coroutine = d
    <3>1. Has(a, k1, e1, i1, d) /\ Has(a, k2, e2, i2, d)
      BY <1>5, <2>2
    <3> QED BY <3>1 DEF Sound, Once
  <2> QED BY <2>1, <2>2
<1>9. Waiting(b, l2)
  <2> SUFFICES ASSUME NEW d \in Coroutine
               PROVE  /\ Somewhere(b, d) => d \in l2
                      /\ b.listening = Executor /\ d \in l2 => Somewhere(b, d)
    BY DEF Waiting
  <2>1. Somewhere(b, d) => d \in l2
    BY Zenon, <1>0, <1>5, <1>7 DEF Somewhere
  <2>2. ASSUME b.listening = Executor, d \in l2
        PROVE  Somewhere(b, d)
    <3>1. CASE \E i \in 1 .. Len(s) : s[i].coroutine = d
      <4>1. PICK i \in 1 .. Len(s) : s[i].coroutine = d
        BY <3>1
      <4>2. Has(b, "entry", e, i, d)
        BY Zenon, <1>a, <1>1, <4>1 DEF Has
      <4> QED BY <4>2 DEF Somewhere
    <3>2. CASE d \in l /\ d # c
      BY <1>a, <1>6, <2>2, <3>2 DEF Sound, Waiting, Somewhere
    <3> QED BY <1>0, <2>2, <3>1, <3>2
  <2> QED BY <2>1, <2>2
<1> QED BY Zenon, <1>2, <1>8, <1>9 DEF Sound, l2
=============================================================================
