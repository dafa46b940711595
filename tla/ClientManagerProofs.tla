-------------------------- MODULE ClientManagerProofs --------------------------
(***************************************************************************)
(* The invariants of ClientManager for any number of executors, any range  *)
(* of descriptors, any limit and any set of slots.                         *)
(***************************************************************************)
EXTENDS ClientManager, FiniteSetTheorems, TLAPS

ClientArray == [size : Nat, cap : Nat, held : SUBSET Index]

Types ==
  /\ conn \in [Index -> Stage] /\ owner \in [Index -> Executor]
  /\ direct \in [Index -> DirectFds \cup {-1}] /\ free \in [Executor -> SUBSET DirectFds]
  /\ armed \in BOOLEAN /\ client_executors \in 1 .. N /\ turn \in 0 .. client_executors - 1
  /\ pc \in [Executor -> Step] /\ cur \in [Executor -> Index]
  /\ copied \in [Executor -> SUBSET Index]
  /\ clients \in ClientArray /\ active \in Int
  /\ phase \in {"running", "stopping", "done"}

Adding == {"check", "resize", "install", "count", "store"}

\* An executor works on a connection of its own, in the stage that its step
\* belongs to; only clients that are served are in the array or in a copy of
\* it; one executor at a time reallocates the array.
Stages ==
  /\ \A e \in Executor :
       /\ pc[e] \notin {"idle", "exited"} => owner[cur[e]] = e
       /\ pc[e] \in Adding => conn[cur[e]] = "adding"
       /\ pc[e] = "close" => conn[cur[e]] = "removed"
       /\ pc[e] = "install" => copied[e] \subseteq Serving
  /\ clients.held \subseteq Serving
  /\ \A e, f \in Executor : pc[e] = "install" /\ pc[f] = "install" => e = f
  /\ phase = "done" => \A e \in Executor : pc[e] = "exited"

\* A slot is taken with the registration and given back with the close.
Slots ==
  /\ DirectFdsExclusive
  /\ \A i \in Index : direct[i] # -1 => conn[i] \in {"adding", "serving", "removed"}

Storing == {e \in Executor : pc[e] = "store"}

Count == active \in Nat /\ CountIsExact

\* With one client executor: only executor 0 runs, so that the limit and the
\* size of the array that it has tested still hold when it uses them, and every
\* client that is served is in the array.
One ==
  client_executors = 1 =>
    /\ turn = 0
    /\ \A e \in Executor \ {0} : pc[e] = "exited"
    /\ \A i \in Index : conn[i] # "sent"
    /\ active <= MaxClients
    /\ pc[0] \in {"check", "resize", "install", "count"} => active < MaxClients
    /\ pc[0] \in {"resize", "install"} => cur[0] >= clients.size
    /\ pc[0] = "install" => copied[0] = clients.held
    /\ pc[0] \in {"count", "store"} => cur[0] < clients.size
    /\ \A i \in Index : conn[i] = "serving" => i < clients.size /\ i \in clients.held
    /\ phase = "done" => active = 0 /\ Serving = {}

IInv == Types /\ Stages /\ Slots /\ Count /\ One

\* The descriptors, and so any set of connections, are finitely many.
LEMMA FiniteIndex ==
  ASSUME NEW S \in SUBSET Index
  PROVE  IsFiniteSet(S) /\ Cardinality(S) \in Nat
<1>1. IsFiniteSet(Index)
  BY FS_Interval, ClientManagerAssumption DEF Index
<1>2. IsFiniteSet(S)
  BY <1>1, FS_Subset
<1> QED
  BY <1>2, FS_CardinalityType

\* The task that sets a connection up has the types (Connection::Setup).
LEMMA StartTypes ==
  ASSUME Types, NEW e \in Executor, NEW i \in Index, StartClient(e, i)
  PROVE  /\ conn' \in [Index -> Stage] /\ pc' \in [Executor -> Step]
         /\ cur' \in [Executor -> Index]
         /\ direct' \in [Index -> DirectFds \cup {-1}]
         /\ free' \in [Executor -> SUBSET DirectFds]
<1>1. /\ conn' \in [Index -> Stage] /\ pc' \in [Executor -> Step]
      /\ cur' \in [Executor -> Index]
  BY DEF StartClient, Types, Stage, Step
<1>2. CASE free[e] = {}
  BY <1>1, <1>2 DEF StartClient, Setup, Types
<1>3. CASE free[e] # {}
  <2>1. PICK s \in free[e] : /\ direct' = [direct EXCEPT ![i] = s]
                             /\ free' = [free EXCEPT ![e] = @ \ {s}]
    BY <1>3 DEF StartClient, Setup
  <2>2. free[e] \subseteq DirectFds
    BY DEF Types
  <2> QED
    BY <1>1, <2>1, <2>2 DEF Types
<1> QED
  BY <1>2, <1>3

\* The initial state has the types (Server's constructor).
LEMMA InitTypes == Init => Types
BY ClientManagerAssumption DEF Init, Types, ClientArray, Stage, Step, Executor, Index

\* Every step keeps the types.
LEMMA StepTypes == Types /\ [Next]_vars => Types'
<1> SUFFICES ASSUME Types, [Next]_vars PROVE Types'
  OBVIOUS
<1> USE DEF Types, Stage, Step
<1>1. CASE UNCHANGED vars
  BY <1>1 DEF vars
<1>2. ASSUME KernelAccepts PROVE Types'
  <2>1. PICK i \in Index : conn' = [conn EXCEPT ![i] = "accepted"]
    BY <1>2, Zenon DEF KernelAccepts
  <2>2. conn' \in [Index -> Stage]
    BY <2>1
  <2> QED
    BY <1>2, <2>2, Zenon DEF KernelAccepts
<1>3. ASSUME NEW i \in Index, Reject(i) PROVE Types'
  BY <1>3 DEF Reject
<1>4. ASSUME NEW i \in Index, Dispatch(i) PROVE Types'
  <2>1. /\ owner' = [owner EXCEPT ![i] = turn] /\ turn' = (turn + 1) % client_executors
        /\ UNCHANGED <<client_executors, copied, clients, active, phase>>
    BY <1>4 DEF Dispatch, NextTurn
  <2>2. /\ client_executors \in Nat \ {0} /\ turn \in Executor
        /\ (turn + 1) % client_executors \in 0 .. client_executors - 1
    BY ClientManagerAssumption DEF Types, Executor
  <2>3. CASE turn = 0 /\ StartClient(0, i) /\ UNCHANGED armed
    BY <2>1, <2>2, <2>3, StartTypes DEF Types
  <2>4. CASE /\ conn' = [conn EXCEPT ![i] = "sent"] /\ armed' = TRUE
             /\ UNCHANGED <<direct, free, pc, cur>>
    BY <2>1, <2>2, <2>4 DEF Types, Stage
  <2> QED
    BY <1>4, <2>3, <2>4, Zenon DEF Dispatch
<1>5. ASSUME NEW e \in Executor, NEW i \in Index, Receive(e, i) PROVE Types'
  <2>1. StartClient(e, i) /\ UNCHANGED <<client_executors, owner, armed, turn, copied, clients, active, phase>>
    BY <1>5 DEF Receive
  <2> QED
    BY <2>1, StartTypes, Zenon
<1>6. ASSUME NEW e \in Executor, Check(e) PROVE Types'
  BY <1>6 DEF Check
<1>7. ASSUME NEW e \in Executor, Resize(e) PROVE Types'
  <2> DEFINE n == NewSize(cur[e])
  <2>1. n \in Nat
    BY ClientManagerAssumption DEF Types, NewSize, Index
  <2>2. CASE pc' = [pc EXCEPT ![e] = "count"] /\ UNCHANGED copied
             /\ clients' = [clients EXCEPT !.size = n,
                                           !.held = {i \in @ : i < clients.size \/ i >= n}]
    <3>1. clients' \in ClientArray
      BY Zenon, <2>1, <2>2 DEF Types, ClientArray
    <3> QED
      BY <1>7, <2>2, <3>1 DEF Resize, Types, Step
  <2>3. CASE /\ copied' = [copied EXCEPT ![e] = {i \in clients.held : i < clients.size}]
             /\ pc' = [pc EXCEPT ![e] = "install"] /\ UNCHANGED clients
    BY <1>7, <2>3 DEF Resize, Types, ClientArray, Step
  <2> QED
    BY <1>7, <2>2, <2>3 DEF Resize
<1>8. ASSUME NEW e \in Executor, Install(e) PROVE Types'
  <2> DEFINE n == NewSize(cur[e])
  <2>1. n \in Nat /\ clients.size \in Nat /\ copied[e] \in SUBSET Index
    BY ClientManagerAssumption DEF Types, NewSize, Index, ClientArray
  <2>2. clients' = [size |-> n,
                    cap  |-> IF n > 2 * clients.size THEN n ELSE 2 * clients.size,
                    held |-> copied[e]]
    BY <1>8 DEF Install
  <2>3. clients' \in ClientArray
    BY <2>1, <2>2 DEF ClientArray
  <2> QED
    BY <1>8, <2>3 DEF Install, Types, Step
<1>9. ASSUME NEW e \in Executor, CountClient(e) PROVE Types'
  BY <1>9 DEF CountClient
<1>10. ASSUME NEW e \in Executor, Store(e) PROVE Types'
  <2>1. clients' \in ClientArray
    <3>1. clients \in ClientArray /\ clients.held \cup {cur[e]} \in SUBSET Index
      BY Zenon DEF ClientArray
    <3>2. clients' = [clients EXCEPT !.held = clients.held \cup {cur[e]}]
      BY <1>10, Zenon DEF Store
    <3> QED BY <3>1, <3>2, Zenon DEF ClientArray
  <2>2. conn' \in [Index -> Stage] /\ pc' \in [Executor -> Step] /\ armed' \in BOOLEAN
    BY <1>10, Zenon DEF Store, Stage, Step
  <2> QED BY <1>10, <2>1, <2>2, Zenon DEF Store, Types
<1>11. ASSUME NEW e \in Executor, NEW i \in Index, RemoveClient(e, i) PROVE Types'
  BY <1>11 DEF RemoveClient, ClientArray
<1>12. ASSUME NEW e \in Executor, Close(e) PROVE Types'
  BY <1>12 DEF Close, CloseConnections
<1>13. ASSUME Deactivate PROVE Types'
  BY <1>13 DEF Deactivate
<1>14. ASSUME NEW e \in Executor, Exit(e) PROVE Types'
  BY <1>14 DEF Exit
<1>15. ASSUME CloseClients PROVE Types'
  <2>1. GetClients \in SUBSET Index
    BY DEF GetClients, Types, ClientArray
  <2>2. Cardinality(GetClients) \in Nat
    BY <2>1, FiniteIndex
  <2>3. CloseConnections(GetClients)
    BY <1>15 DEF CloseClients
  <2>4. /\ conn' \in [Index -> Stage] /\ direct' \in [Index -> DirectFds \cup {-1}]
        /\ free' \in [Executor -> SUBSET DirectFds]
    BY <2>1, <2>3 DEF CloseConnections, Types, Stage
  <2>5. clients' \in ClientArray
    BY <1>15 DEF CloseClients, Types, ClientArray
  <2>6. active' \in Int
    BY <1>15, <2>2 DEF CloseClients, Types
  <2> QED
    BY <1>15, <2>4, <2>5, <2>6 DEF CloseClients, Types
<1> QED
  BY <1>1, <1>2, <1>3, <1>4, <1>5, <1>6, <1>7, <1>8, <1>9, <1>10, <1>11, <1>12, <1>13, <1>14, <1>15, Zenon DEF Next, Work

\* No executor works and no client is there at first (Server's constructor).
LEMMA InitStages == Init => Stages
BY ClientManagerAssumption DEF Init, Stages, Adding, Serving, Executor, Index

\* Every step keeps executors, connections and the array in step with each other.
LEMMA StepStages == Types /\ Stages /\ [Next]_vars => Stages'
<1> SUFFICES ASSUME Types, Stages, [Next]_vars PROVE Stages'
  OBVIOUS
<1> USE DEF Types, ClientArray, Stage, Step, Stages, Adding, Serving
<1>1. CASE UNCHANGED vars
  BY <1>1 DEF vars
<1>2. ASSUME KernelAccepts PROVE Stages'
  BY <1>2 DEF KernelAccepts
<1>3. ASSUME NEW i \in Index, Reject(i) PROVE Stages'
  BY <1>3 DEF Reject
<1>4. ASSUME NEW i \in Index, Dispatch(i) PROVE Stages'
  <2>1. CASE turn = 0 /\ StartClient(0, i)
    BY <1>4, <2>1 DEF Dispatch, StartClient
  <2>2. CASE conn' = [conn EXCEPT ![i] = "sent"] /\ UNCHANGED <<pc, cur>>
    BY <1>4, <2>2 DEF Dispatch
  <2> QED
    BY <1>4, <2>1, <2>2 DEF Dispatch
<1>5. ASSUME NEW e \in Executor, NEW i \in Index, Receive(e, i) PROVE Stages'
  BY <1>5 DEF Receive, StartClient
<1>6. ASSUME NEW e \in Executor, Check(e) PROVE Stages'
  BY <1>6 DEF Check
<1>7. ASSUME NEW e \in Executor, Resize(e) PROVE Stages'
  <2>1. CASE /\ clients' = [clients EXCEPT !.size = NewSize(cur[e]),
                                           !.held = {i \in @ : \/ i < clients.size
                                                               \/ i >= NewSize(cur[e])}]
             /\ pc' = [pc EXCEPT ![e] = "count"] /\ UNCHANGED copied
    <3>1. clients'.held \subseteq clients.held
      BY <2>1
    <3> QED
      BY <1>7, <2>1, <3>1 DEF Resize
  <2>2. CASE /\ copied' = [copied EXCEPT ![e] = {i \in clients.held : i < clients.size}]
             /\ pc' = [pc EXCEPT ![e] = "install"] /\ UNCHANGED clients
    BY <1>7, <2>2 DEF Resize, Unlocked
  <2> QED
    BY <1>7, <2>1, <2>2 DEF Resize
<1>8. ASSUME NEW e \in Executor, Install(e) PROVE Stages'
  BY <1>8 DEF Install, Unlocked
<1>9. ASSUME NEW e \in Executor, CountClient(e) PROVE Stages'
  BY <1>9 DEF CountClient
<1>10. ASSUME NEW e \in Executor, Store(e) PROVE Stages'
  BY <1>10 DEF Store
<1>11. ASSUME NEW e \in Executor, NEW i \in Index, RemoveClient(e, i) PROVE Stages'
  BY <1>11 DEF RemoveClient, Unlocked
<1>12. ASSUME NEW e \in Executor, Close(e) PROVE Stages'
  BY <1>12 DEF Close, CloseConnections
<1>13. ASSUME Deactivate PROVE Stages'
  BY <1>13 DEF Deactivate
<1>14. ASSUME NEW e \in Executor, Exit(e) PROVE Stages'
  BY <1>14 DEF Exit
<1>15. ASSUME CloseClients PROVE Stages'
  BY <1>15 DEF CloseClients, CloseConnections, GetClients
<1> QED
  BY Zenon, <1>1, <1>2, <1>3, <1>4, <1>5, <1>6, <1>7, <1>8, <1>9, <1>10, <1>11, <1>12, <1>13, <1>14, <1>15 DEF Next, Work

\* No slot is taken at first (RingExecutor's constructor).
LEMMA InitSlots == Init => Slots
BY DEF Init, Slots, DirectFdsExclusive

\* RegisterFd takes a slot that no open connection of the executor has.
LEMMA StartSlots ==
  ASSUME Types, Slots, NEW e \in Executor, NEW i \in Index, StartClient(e, i),
         direct[i] = -1, owner' = [owner EXCEPT ![i] = e]
  PROVE  Slots'
<1> USE DEF Types, Slots, DirectFdsExclusive
<1>1. conn' = [conn EXCEPT ![i] = "adding"]
  BY DEF StartClient
<1>2. CASE UNCHANGED <<direct, free>>
  BY <1>1, <1>2
<1>3. ASSUME NEW s \in free[e], direct' = [direct EXCEPT ![i] = s],
             free' = [free EXCEPT ![e] = @ \ {s}]
      PROVE  Slots'
  <2>1. s # -1
    BY ClientManagerAssumption
  <2>2. ASSUME NEW j \in Index, direct'[j] # -1
        PROVE  /\ direct'[j] \notin free'[owner'[j]]
               /\ \A k \in Index \ {j} : owner'[k] = owner'[j] => direct'[k] # direct'[j]
    <3>1. CASE j = i
      BY <1>3, <2>1, <3>1
    <3>2. CASE j # i
      BY <1>3, <2>1, <2>2, <3>2
    <3> QED
      BY <3>1, <3>2
  <2> QED
    BY <1>1, <1>3, <2>2
<1> QED
  BY <1>2, <1>3 DEF StartClient, Setup

\* UnregisterFd gives back slots that no other open connection has.
LEMMA CloseSlots ==
  ASSUME Types, Slots, NEW S \in SUBSET Index, CloseConnections(S), UNCHANGED owner
  PROVE  Slots'
<1> USE DEF Types, Slots, DirectFdsExclusive
<1>1. \A i \in Index : direct'[i] = IF i \in S THEN -1 ELSE direct[i]
  BY DEF CloseConnections
<1>2. \A i \in Index : conn'[i] = IF i \in S THEN "closed" ELSE conn[i]
  BY DEF CloseConnections
<1>3. ASSUME NEW i \in Index \ S, direct[i] # -1
      PROVE  direct[i] \notin free'[owner[i]]
  BY <1>3 DEF CloseConnections
<1> QED
  BY <1>1, <1>2, <1>3

\* Every step keeps the slots exclusive: RegisterFd takes one off the list and
\* UnregisterFd puts it back.
LEMMA StepSlots == Types /\ Stages /\ Slots /\ [Next]_vars => Slots'
<1> SUFFICES ASSUME Types, Stages, Slots, [Next]_vars PROVE Slots'
  OBVIOUS
<1> USE DEF Types, Stage, Step, Stages, Slots, DirectFdsExclusive, Adding
<1>1. CASE UNCHANGED vars
  BY <1>1 DEF vars
<1>2. ASSUME KernelAccepts PROVE Slots'
  BY <1>2 DEF KernelAccepts
<1>3. ASSUME NEW i \in Index, Reject(i) PROVE Slots'
  BY <1>3 DEF Reject
<1>4. ASSUME NEW i \in Index, Dispatch(i) PROVE Slots'
  <2>1. direct[i] = -1
    BY <1>4 DEF Dispatch
  <2>2. CASE turn = 0 /\ StartClient(0, i)
    <3>1. owner' = [owner EXCEPT ![i] = 0] /\ 0 \in Executor
      BY <1>4, <2>2, ClientManagerAssumption DEF Dispatch, Executor
    <3> HIDE DEF Types, Slots
    <3> QED
      BY <2>1, <2>2, <3>1, StartSlots, Zenon
  <2>3. CASE conn' = [conn EXCEPT ![i] = "sent"] /\ UNCHANGED <<direct, free>>
    BY <1>4, <2>1, <2>3 DEF Dispatch
  <2> QED
    BY <1>4, <2>2, <2>3 DEF Dispatch
<1>5. ASSUME NEW e \in Executor, NEW i \in Index, Receive(e, i) PROVE Slots'
  <2>1. direct[i] = -1 /\ owner' = [owner EXCEPT ![i] = e] /\ StartClient(e, i)
    BY <1>5 DEF Receive
  <2> HIDE DEF Types, Slots
  <2> QED
    BY <2>1, StartSlots, Zenon
<1>6. ASSUME NEW e \in Executor, Check(e) PROVE Slots'
  BY <1>6 DEF Check
<1>7. ASSUME NEW e \in Executor, Resize(e) PROVE Slots'
  BY <1>7 DEF Resize, Unlocked
<1>8. ASSUME NEW e \in Executor, Install(e) PROVE Slots'
  BY <1>8 DEF Install, Unlocked
<1>9. ASSUME NEW e \in Executor, CountClient(e) PROVE Slots'
  BY <1>9 DEF CountClient
<1>10. ASSUME NEW e \in Executor, Store(e) PROVE Slots'
  BY <1>10 DEF Store
<1>11. ASSUME NEW e \in Executor, NEW i \in Index, RemoveClient(e, i) PROVE Slots'
  BY <1>11 DEF RemoveClient, Unlocked
<1>12. ASSUME NEW e \in Executor, Close(e) PROVE Slots'
  <2>1. CloseConnections({cur[e]}) /\ {cur[e]} \in SUBSET Index /\ UNCHANGED owner
    BY <1>12 DEF Close
  <2> HIDE DEF Types, Slots
  <2> QED
    BY <2>1, CloseSlots
<1>13. ASSUME Deactivate PROVE Slots'
  BY <1>13 DEF Deactivate
<1>14. ASSUME NEW e \in Executor, Exit(e) PROVE Slots'
  BY <1>14 DEF Exit
<1>15. ASSUME CloseClients PROVE Slots'
  <2>1. CloseConnections(GetClients) /\ GetClients \in SUBSET Index /\ UNCHANGED owner
    BY <1>15 DEF CloseClients, GetClients, ClientArray
  <2> HIDE DEF Types, Slots
  <2> QED
    BY <2>1, CloseSlots
<1> QED
  BY Zenon, <1>1, <1>2, <1>3, <1>4, <1>5, <1>6, <1>7, <1>8, <1>9, <1>10, <1>11, <1>12, <1>13, <1>14, <1>15 DEF Next, Work

\* Nobody is counted at first (ClientManager's constructor).
LEMMA InitCount == Init => Count
<1> SUFFICES ASSUME Init PROVE Count
  OBVIOUS
<1>1. Serving = {} /\ Storing = {} /\ active = 0
  BY DEF Init, Serving, Storing
<1> QED
  BY <1>1, FS_EmptySet DEF Count, CountIsExact, Storing

\* The sets that are counted are finite.
LEMMA FiniteCounts ==
  /\ IsFiniteSet(Serving) /\ Cardinality(Serving) \in Nat
  /\ IsFiniteSet(Storing) /\ Cardinality(Storing) \in Nat
<1>1. Serving \in SUBSET Index /\ Storing \in SUBSET Executor
  BY DEF Serving, Storing
<1>2. IsFiniteSet(Executor)
  BY FS_Interval, ClientManagerAssumption DEF Executor
<1>3. IsFiniteSet(Storing)
  BY <1>1, <1>2, FS_Subset
<1> QED
  BY <1>1, <1>3, FiniteIndex, FS_CardinalityType

\* A step that neither counts, stores nor removes a client keeps the count.
LEMMA CountKept ==
  ASSUME Types, Stages, Count, UNCHANGED <<active, Serving, Storing>>, phase # "done"
  PROVE  Count'
BY Zenon DEF Count, CountIsExact, Storing

\* Every step keeps the count exact: AddClient counts before it stores, and
\* RemoveClient counts down for a client that the array has lost as well.
LEMMA StepCount == Types /\ Stages /\ Count /\ [Next]_vars => Count'
<1> SUFFICES ASSUME Types, Stages, Count, [Next]_vars PROVE Count'
  OBVIOUS
<1> USE DEF Types, Stages, Adding, Serving, Storing
<1>1. CASE UNCHANGED vars
  BY <1>1 DEF vars, Count, CountIsExact
<1>2. ASSUME KernelAccepts PROVE Count'
  <2>1. UNCHANGED <<active, Serving, Storing, phase>>
    BY <1>2 DEF KernelAccepts
  <2> QED
    BY <2>1, Zenon DEF Count, CountIsExact
<1>3. ASSUME NEW i \in Index, Reject(i) PROVE Count'
  <2>1. UNCHANGED <<active, Serving, Storing>>
    BY <1>3 DEF Reject
  <2>2. phase # "done"
    BY <1>3, ClientManagerAssumption DEF Reject, Executor
  <2> HIDE DEF Types, Stages
  <2> QED
    BY <2>1, <2>2, CountKept
<1>4. ASSUME NEW i \in Index, Dispatch(i) PROVE Count'
  <2>1. UNCHANGED <<active, Serving, Storing>>
    <3>1. CASE turn = 0 /\ StartClient(0, i)
      BY <1>4, <3>1 DEF Dispatch, StartClient
    <3>2. CASE conn' = [conn EXCEPT ![i] = "sent"] /\ UNCHANGED pc
      BY <1>4, <3>2 DEF Dispatch
    <3> QED
      BY <1>4, <3>1, <3>2 DEF Dispatch
  <2>2. phase # "done"
    BY <1>4, ClientManagerAssumption DEF Dispatch, Executor
  <2> HIDE DEF Types, Stages
  <2> QED
    BY <2>1, <2>2, CountKept
<1>5. ASSUME NEW e \in Executor, NEW i \in Index, Receive(e, i) PROVE Count'
  <2>1. UNCHANGED <<active, Serving, Storing>>
    BY <1>5 DEF Receive, StartClient
  <2>2. phase # "done"
    BY <1>5 DEF Receive
  <2> HIDE DEF Types, Stages
  <2> QED
    BY <2>1, <2>2, CountKept
<1>6. ASSUME NEW e \in Executor, Check(e) PROVE Count'
  <2>1. UNCHANGED <<active, Serving, Storing>>
    BY <1>6 DEF Check
  <2>2. phase # "done"
    BY <1>6 DEF Check
  <2> HIDE DEF Types, Stages
  <2> QED
    BY <2>1, <2>2, CountKept
<1>7. ASSUME NEW e \in Executor, Resize(e) PROVE Count'
  <2>1. UNCHANGED <<active, Serving, Storing>>
    BY <1>7 DEF Resize
  <2>2. phase # "done"
    BY <1>7 DEF Resize
  <2> HIDE DEF Types, Stages
  <2> QED
    BY <2>1, <2>2, CountKept
<1>8. ASSUME NEW e \in Executor, Install(e) PROVE Count'
  <2>1. UNCHANGED <<active, Serving, Storing>>
    BY <1>8 DEF Install
  <2>2. phase # "done"
    BY <1>8 DEF Install
  <2> HIDE DEF Types, Stages
  <2> QED
    BY <2>1, <2>2, CountKept
<1>9. ASSUME NEW e \in Executor, CountClient(e) PROVE Count'
  <2>1. Serving' = Serving /\ Storing' = Storing \cup {e} /\ e \notin Storing
    BY <1>9 DEF CountClient
  <2> HIDE DEF Serving, Storing, Types, Stages
  <2>2. Cardinality(Storing') = Cardinality(Storing) + 1
    BY <2>1, FiniteCounts, FS_AddElement, Zenon
  <2>3. active' = active + 1 /\ phase' = phase
    BY <1>9 DEF CountClient
  <2> QED
    BY <2>1, <2>2, <2>3, FiniteCounts DEF Count, CountIsExact, Storing
<1>10. ASSUME NEW e \in Executor, Store(e) PROVE Count'
  <2>1. /\ Serving' = Serving \cup {cur[e]} /\ cur[e] \notin Serving
        /\ Storing' = Storing \ {e} /\ e \in Storing
    BY <1>10 DEF Store
  <2> HIDE DEF Serving, Storing, Types, Stages
  <2>2. Cardinality(Serving') = Cardinality(Serving) + 1
    BY <2>1, FiniteCounts, FS_AddElement, Zenon
  <2>3. Cardinality(Storing') = Cardinality(Storing) - 1
    BY <2>1, FiniteCounts, FS_RemoveElement, Zenon
  <2>4. active' = active /\ phase' = phase
    BY <1>10 DEF Store
  <2> QED
    BY <2>2, <2>3, <2>4, FiniteCounts DEF Count, CountIsExact, Storing
<1>11. ASSUME NEW e \in Executor, NEW i \in Index, RemoveClient(e, i) PROVE Count'
  <2>1. Serving' = Serving \ {i} /\ i \in Serving /\ Storing' = Storing /\ phase # "done"
    BY <1>11 DEF RemoveClient
  <2> HIDE DEF Serving, Storing, Types, Stages
  <2>2. Cardinality(Serving') = Cardinality(Serving) - 1 /\ Cardinality(Serving') \in Nat
    BY <2>1, FiniteCounts, FS_RemoveElement, FS_CardinalityType
  <2>3. active' = active - 1 /\ phase' = phase
    BY <1>11 DEF RemoveClient
  <2>4. phase # "done" => active' \in Nat
    BY <2>2, <2>3, FiniteCounts DEF Count, CountIsExact, Storing
  <2>5. active = Cardinality(Serving) + Cardinality(Storing)
    BY <2>1 DEF Count, CountIsExact, Storing
  <2>6. active' = Cardinality(Serving') + Cardinality(Storing')
    BY <2>1, <2>2, <2>3, <2>5, FiniteCounts
  <2> QED
    BY <2>1, <2>3, <2>4, <2>6 DEF Count, CountIsExact, Storing
<1>12. ASSUME NEW e \in Executor, Close(e) PROVE Count'
  <2>1. UNCHANGED <<active, Serving, Storing>>
    BY <1>12 DEF Close, CloseConnections
  <2>2. phase # "done"
    BY <1>12 DEF Close
  <2> HIDE DEF Types, Stages
  <2> QED
    BY <2>1, <2>2, CountKept
<1>13. ASSUME Deactivate PROVE Count'
  <2>1. UNCHANGED <<active, Serving, Storing>>
    BY <1>13 DEF Deactivate
  <2>2. phase # "done"
    BY <1>13 DEF Deactivate
  <2> HIDE DEF Types, Stages
  <2> QED
    BY <2>1, <2>2, CountKept
<1>14. ASSUME NEW e \in Executor, Exit(e) PROVE Count'
  <2>1. UNCHANGED <<active, Serving, Storing>>
    BY <1>14 DEF Exit
  <2>2. phase # "done"
    BY <1>14 DEF Exit
  <2> HIDE DEF Types, Stages
  <2> QED
    BY <2>1, <2>2, CountKept
<1>15. ASSUME CloseClients PROVE Count'
  <2>1. GetClients \subseteq Serving /\ phase # "done"
    BY <1>15 DEF CloseClients, GetClients
  <2>2. /\ Cardinality(GetClients) \in Nat
        /\ Cardinality(GetClients) <= Cardinality(Serving)
    BY <2>1, FiniteCounts, FS_Subset, FS_CardinalityType
  <2>3. active' = active - Cardinality(GetClients) /\ phase' = "done"
    BY <1>15 DEF CloseClients
  <2> HIDE DEF Serving, Storing, Types, Stages
  <2> QED
    BY <2>1, <2>2, <2>3, FiniteCounts DEF Count, CountIsExact, Storing
<1> QED
  BY <1>1, <1>2, <1>3, <1>4, <1>5, <1>6, <1>7, <1>8, <1>9, <1>10, <1>11, <1>12, <1>13, <1>14, <1>15 DEF Next, Work

\* Executor 0 exists, and descriptors start above zero.
LEMMA ZeroExecutor == 0 \in Executor /\ \A i \in Index : i \in Nat /\ i > 0
BY ClientManagerAssumption DEF Executor, Index

\* At first nobody is connected (Server's constructor).
LEMMA InitOne == Init => One
BY ClientManagerAssumption, ZeroExecutor DEF Init, One, Serving, Executor

\* Every step of a server with one client executor keeps the limit and the array.
LEMMA StepOne == Types /\ Stages /\ Count /\ One /\ [Next]_vars => One'
<1> SUFFICES ASSUME Types, Stages, Count, One, [Next]_vars PROVE One'
  OBVIOUS
<1> USE DEF Types, ClientArray, Stages, Serving, One
<1>1. CASE UNCHANGED vars
  BY <1>1 DEF vars
<1>2. ASSUME KernelAccepts PROVE One'
  BY <1>2, ZeroExecutor DEF KernelAccepts
<1>3. ASSUME NEW i \in Index, Reject(i) PROVE One'
  BY <1>3, ZeroExecutor DEF Reject
<1>4. ASSUME NEW i \in Index, Dispatch(i) PROVE One'
  <2>1. CASE turn = 0 /\ StartClient(0, i)
    BY <1>4, <2>1, ZeroExecutor, ClientManagerAssumption DEF Dispatch, StartClient, NextTurn, AtLimit, Count
  <2>2. CASE turn # 0
    BY <1>4, <2>2 DEF Dispatch
  <2> QED
    BY <1>4, <2>1, <2>2 DEF Dispatch
<1>5. ASSUME NEW e \in Executor, NEW i \in Index, Receive(e, i) PROVE One'
  BY <1>5, ZeroExecutor DEF Receive, StartClient
<1>6. ASSUME NEW e \in Executor, Check(e) PROVE One'
  BY <1>6, ZeroExecutor DEF Check
<1>7. ASSUME NEW e \in Executor, Resize(e) PROVE One'
  <2> DEFINE n == NewSize(cur[e])
  <2> SUFFICES ASSUME client_executors = 1 PROVE One'
    BY <1>7 DEF Resize
  <2>1. /\ e = 0 /\ cur[0] \in Nat /\ cur[0] > 0 /\ cur[0] >= clients.size /\ clients.size \in Nat
        /\ n = 2 * cur[0]
    <3>1. e = 0 /\ pc[0] = "resize" /\ cur[0] \in Index /\ clients.size \in Nat
      BY <1>7, ZeroExecutor DEF Resize
    <3>2. cur[0] >= clients.size
      BY <3>1
    <3> HIDE DEF Types, ClientArray, Stages, Serving, One
    <3> QED
      BY <3>1, <3>2, ZeroExecutor DEF NewSize
  <2>2. n >= clients.size /\ cur[0] < n /\ n \in Nat
    BY <2>1
  <2>3. CASE /\ clients' = [clients EXCEPT !.size = n,
                                          !.held = {i \in @ : i < clients.size \/ i >= n}]
             /\ pc' = [pc EXCEPT ![e] = "count"] /\ UNCHANGED copied
    <3>1. /\ clients'.size = n
          /\ \A i \in clients.held : i < clients.size => i \in clients'.held
      BY <2>3
    <3>2. \A i \in Index : conn[i] = "serving" => i < n /\ i \in clients'.held
      BY <2>1, <2>2, <3>1, ZeroExecutor
    <3> QED
      BY <1>7, <2>1, <2>2, <2>3, <3>1, <3>2, ZeroExecutor DEF Resize
  <2>4. CASE /\ copied' = [copied EXCEPT ![e] = {i \in clients.held : i < clients.size}]
             /\ pc' = [pc EXCEPT ![e] = "install"] /\ UNCHANGED clients
    <3>1. copied'[0] = clients.held
      BY <2>1, <2>4
    <3> QED
      BY <1>7, <2>1, <2>4, <3>1 DEF Resize
  <2> QED
    BY <1>7, <2>3, <2>4 DEF Resize
<1>8. ASSUME NEW e \in Executor, Install(e) PROVE One'
  <2> DEFINE n == NewSize(cur[e])
  <2> SUFFICES ASSUME client_executors = 1 PROVE One'
    BY <1>8 DEF Install
  <2>1. /\ e = 0 /\ cur[0] \in Nat /\ cur[0] > 0 /\ cur[0] >= clients.size /\ clients.size \in Nat
        /\ n = 2 * cur[0] /\ copied[0] = clients.held
    <3>1. e = 0 /\ pc[0] = "install" /\ cur[0] \in Index /\ clients.size \in Nat
      BY <1>8, ZeroExecutor DEF Install
    <3>2. cur[0] >= clients.size /\ copied[0] = clients.held
      BY <3>1
    <3> HIDE DEF Types, ClientArray, Stages, Serving, One
    <3> QED
      BY <3>1, <3>2, ZeroExecutor DEF NewSize
  <2>2. n >= clients.size /\ cur[0] < n /\ n \in Nat
    BY <2>1
  <2>3. clients'.size = n /\ clients'.held = clients.held
    BY <1>8, <2>1 DEF Install
  <2>4. \A i \in Index : conn[i] = "serving" => i < n /\ i \in clients'.held
    BY <2>1, <2>2, <2>3, ZeroExecutor
  <2>5. /\ pc' = [pc EXCEPT ![0] = "count"]
        /\ UNCHANGED <<client_executors, conn, turn, cur, active, phase>>
    BY <1>8, <2>1 DEF Install
  <2>6. /\ pc'[0] = "count" /\ \A f \in Executor \ {0} : pc'[f] = pc[f]
        /\ phase # "done" /\ active < MaxClients /\ active <= MaxClients
    BY <1>8, <2>1, <2>5, ZeroExecutor DEF Install
  <2>7. /\ turn' = 0 /\ \A f \in Executor \ {0} : pc'[f] = "exited"
        /\ \A i \in Index : conn'[i] # "sent"
    BY <2>5, <2>6
  <2>8. cur'[0] < clients'.size
    BY <2>2, <2>3, <2>5
  <2>9. \A i \in Index : conn'[i] = "serving" => i < clients'.size /\ i \in clients'.held
    BY <2>3, <2>4, <2>5
  <2> HIDE DEF Types, ClientArray, Stages, Serving
  <2> QED
    BY Zenon, <2>5, <2>6, <2>7, <2>8, <2>9
<1>9. ASSUME NEW e \in Executor, CountClient(e) PROVE One'
  <2> SUFFICES ASSUME client_executors = 1 PROVE One'
    BY <1>9 DEF CountClient
  <2>1. e = 0 /\ pc[0] = "count" /\ phase # "done"
    BY <1>9, ZeroExecutor DEF CountClient
  <2>2. active < MaxClients /\ cur[0] < clients.size
    BY <2>1
  <2>3. /\ pc' = [pc EXCEPT ![0] = "store"] /\ active' = active + 1
        /\ UNCHANGED <<conn, turn, cur, copied, clients, phase>>
    BY <1>9, <2>1 DEF CountClient
  <2>4. active' <= MaxClients
    BY <2>2, <2>3, ClientManagerAssumption
  <2> QED
    BY <2>1, <2>2, <2>3, <2>4, ZeroExecutor
<1>10. ASSUME NEW e \in Executor, Store(e) PROVE One'
  BY <1>10, ZeroExecutor DEF Store
<1>11. ASSUME NEW e \in Executor, NEW i \in Index, RemoveClient(e, i) PROVE One'
  <2> SUFFICES ASSUME client_executors = 1 PROVE One'
    BY <1>11 DEF RemoveClient
  <2>1. /\ e = 0 /\ phase # "done" /\ active' = active - 1
        /\ pc' = [pc EXCEPT ![0] = "close"] /\ conn' = [conn EXCEPT ![i] = "removed"]
        /\ clients' = [clients EXCEPT !.held = @ \ {i}]
        /\ UNCHANGED <<turn, copied, phase>>
    BY Zenon, <1>11, ZeroExecutor DEF RemoveClient
  <2>2. active' <= MaxClients
    BY <2>1, ClientManagerAssumption
  <2>3. /\ clients'.size = clients.size
        /\ \A j \in clients.held : j # i => j \in clients'.held
    BY <2>1
  <2>4. \A j \in Index : conn'[j] = "serving" => j < clients'.size /\ j \in clients'.held
    BY <2>1, <2>3
  <2> QED
    BY <2>1, <2>2, <2>4, ZeroExecutor
<1>12. ASSUME NEW e \in Executor, Close(e) PROVE One'
  <2> SUFFICES ASSUME client_executors = 1 PROVE One'
    BY <1>12 DEF Close
  <2>1. /\ e = 0 /\ phase # "done" /\ pc' = [pc EXCEPT ![e] = "idle"]
        /\ UNCHANGED <<turn, cur, copied, clients, active, phase>>
    BY <1>12, ZeroExecutor DEF Close
  <2>2. \A i \in Index : conn'[i] \in {conn[i], "closed"}
    BY <1>12 DEF Close, CloseConnections
  <2> HIDE DEF ClientArray, Stages, Serving
  <2> QED
    BY <2>1, <2>2, ZeroExecutor
<1>13. ASSUME Deactivate PROVE One'
  BY <1>13, ZeroExecutor DEF Deactivate
<1>14. ASSUME NEW e \in Executor, Exit(e) PROVE One'
  BY <1>14, ZeroExecutor DEF Exit
<1>15. ASSUME CloseClients PROVE One'
  <2> SUFFICES ASSUME client_executors = 1 PROVE One'
    BY <1>15 DEF CloseClients
  <2>1. GetClients = Serving /\ Storing = {} /\ phase # "done"
    BY <1>15 DEF CloseClients, GetClients, Storing
  <2>2. active = Cardinality(Serving)
    <3> HIDE DEF Serving, Stages, Types, One
    <3>1. active = Cardinality(Serving) + Cardinality(Storing)
      BY <2>1 DEF Storing, Count, CountIsExact
    <3>2. Cardinality(Storing) = 0
      BY <2>1, FS_EmptySet
    <3> QED
      BY <3>1, <3>2, FiniteCounts
  <2>3. active' = 0
    BY <1>15, <2>1, <2>2 DEF CloseClients
  <2>4. Serving' = {}
    BY <1>15, <2>1 DEF CloseClients, CloseConnections
  <2>5. /\ \A i \in Index : conn'[i] # "sent" /\ conn'[i] # "serving"
        /\ UNCHANGED <<client_executors, turn, pc, cur, copied>>
        /\ pc[0] = "exited"
    BY <1>15, <2>4, ZeroExecutor, Zenon DEF CloseClients, CloseConnections
  <2>6. active' <= MaxClients
    BY <2>3, ClientManagerAssumption
  <2> HIDE DEF Types, ClientArray, Stages, Serving
  <2> QED
    BY <2>3, <2>4, <2>5, <2>6
<1> QED
  BY Zenon, <1>1, <1>2, <1>3, <1>4, <1>5, <1>6, <1>7, <1>8, <1>9, <1>10, <1>11, <1>12, <1>13, <1>14, <1>15 DEF Next, Work

\* The inductive invariant holds in every state of the server.
THEOREM Invariance == Spec => []IInv
<1>1. Init => IInv
  BY InitTypes, InitStages, InitSlots, InitCount, InitOne DEF IInv
<1>2. IInv /\ [Next]_vars => IInv'
  BY StepTypes, StepStages, StepSlots, StepCount, StepOne DEF IInv
<1> QED
  BY <1>1, <1>2, PTL DEF Spec

\* Types, and that an executor works on a connection of its own.
THEOREM TypeCorrect == Spec => []TypeOK
<1>1. IInv => TypeOK
  BY DEF IInv, Types, Stages, Count, TypeOK, ClientArray
<1> QED
  BY <1>1, Invariance, PTL

\* The assertion of AddClient, that the element for a new client is empty, holds.
THEOREM SlotCorrect == Spec => []SlotIsFree
<1>1. IInv => SlotIsFree
  BY DEF IInv, Types, Stages, Adding, Serving, SlotIsFree
<1> QED
  BY <1>1, Invariance, PTL

\* active_clients_ counts the clients that are served.
THEOREM CountCorrect == Spec => []CountIsExact
<1>1. IInv => CountIsExact
  BY DEF IInv, Count
<1> QED
  BY <1>1, Invariance, PTL

\* RegisterFd and UnregisterFd never let two connections share a slot.
THEOREM DirectFdsCorrect == Spec => []DirectFdsExclusive
<1>1. IInv => DirectFdsExclusive
  BY DEF IInv, Slots
<1> QED
  BY <1>1, Invariance, PTL

\* With one client executor AcceptLoop keeps the limit on connections.
THEOREM MaxClientsCorrect == Spec => []OneExecutorRespectsMaxClients
<1>1. IInv => OneExecutorRespectsMaxClients
  BY DEF IInv, One, OneExecutorRespectsMaxClients, MaxClientsRespected
<1> QED
  BY <1>1, Invariance, PTL

\* With one client executor the assertion of RemoveClient, that the client is in
\* the array, holds.
THEOREM RemoveCorrect == Spec => []RemoveFindsClient
<1>1. IInv => RemoveFindsClient
  BY DEF IInv, One, RemoveFindsClient
<1> QED
  BY <1>1, Invariance, PTL

\* With one client executor the assertion at the end of Shutdown, that no client
\* is active, holds.
THEOREM ShutdownCorrect == Spec => []ShutdownReleasesAll
<1>1. IInv => ShutdownReleasesAll
  BY DEF IInv, One, ShutdownReleasesAll
<1> QED
  BY <1>1, Invariance, PTL
=============================================================================
