---------------------------- MODULE ClientManager ----------------------------
(***************************************************************************)
(* The life of a connection: Server::AcceptLoop (src/server.cc) accepts it *)
(* and hands it to a client executor, which sets it up, registers a client *)
(* with the ClientManager (src/client_manager.cc), serves it, removes the  *)
(* client and closes the connection; Server::Shutdown closes the clients   *)
(* that are left.                                                          *)
(*                                                                         *)
(* Client executors are threads; the accept loop runs on executor 0.  A    *)
(* thread runs until it awaits, so the steps of AddClient, and the removal *)
(* and the close of a connection, interleave with those of other threads   *)
(* only.  A connection is named by its index into clients_ (its            *)
(* descriptor minus one); the kernel hands out the lowest free descriptor. *)
(***************************************************************************)
EXTENDS Integers, FiniteSets

CONSTANTS
  N,           \* bound on the number of client executors
  FirstIndex,  \* index of the lowest descriptor a connection can get
  LastIndex,   \* bound on the index of a connection
  MaxClients,  \* config_.maxclients
  DirectFds    \* the slots of an executor for registered descriptors

ASSUME ClientManagerAssumption ==
  /\ N \in Nat \ {0}
  /\ FirstIndex \in Nat \ {0} /\ LastIndex \in Nat /\ FirstIndex <= LastIndex
  /\ MaxClients \in Nat /\ IsFiniteSet(DirectFds) /\ -1 \notin DirectFds

Executor == 0 .. N - 1
Index == FirstIndex .. LastIndex

VARIABLES
  client_executors,  \* config_.client_executors
  conn,      \* where each connection is, see Stage
  owner,     \* the executor a connection was handed to
  direct,    \* the slot of its registered descriptor, or -1
  free,      \* fd_slot_indices_ of each executor
  armed,     \* whether an accept operation is pending
  turn,      \* ce_index
  pc,        \* what each executor is doing
  cur,       \* the connection it is doing it for
  copied,    \* the elements a reallocation of clients_ has copied
  clients,   \* clients_: its size, its capacity and the indices that hold a client
  active,    \* active_clients_
  phase      \* of the server

vars == <<client_executors, conn, owner, direct, free, armed, turn, pc, cur, copied, clients, active, phase>>

Stage == {"closed", "accepted", "sent", "adding", "serving", "removed"}
Step  == {"idle", "check", "resize", "install", "count", "store", "close", "exited"}

Init ==
  /\ client_executors \in 1 .. N
  /\ conn = [i \in Index |-> "closed"]
  /\ owner = [i \in Index |-> 0]
  /\ direct = [i \in Index |-> -1]
  /\ free = [e \in Executor |-> DirectFds]
  /\ armed = TRUE
  /\ turn = 0
  /\ pc = [e \in Executor |-> IF e < client_executors THEN "idle" ELSE "exited"]
  /\ cur = [e \in Executor |-> FirstIndex]
  /\ copied = [e \in Executor |-> {}]
  /\ clients = [size |-> 0, cap |-> 0, held |-> {}]
  /\ active = 0
  /\ phase = "running"

\* mu_ is held across the two steps of a reallocation.
Unlocked == \A e \in Executor : pc[e] # "install"

-----------------------------------------------------------------------------
(* Server::AcceptLoop *)

\* The kernel completes the pending accept.
KernelAccepts ==
  /\ armed
  /\ \E i \in Index :
       /\ conn[i] = "closed"
       /\ \A j \in Index : j < i => conn[j] # "closed"
       /\ conn' = [conn EXCEPT ![i] = "accepted"]
  /\ armed' = FALSE
  /\ UNCHANGED <<client_executors, owner, direct, free, turn, pc, cur, copied, clients, active, phase>>

Bug_OffByOne == active > MaxClients

\* The test of the limit.
AtLimit == active = MaxClients

Reject(i) ==
  /\ conn[i] = "accepted" /\ pc[0] = "idle"
  /\ AtLimit
  /\ conn' = [conn EXCEPT ![i] = "closed"]
  /\ armed' = TRUE
  /\ UNCHANGED <<client_executors, owner, direct, free, turn, pc, cur, copied, clients, active, phase>>

Bug_KeepsSlotListed(e, i) ==
  IF free[e] = {} THEN UNCHANGED <<direct, free>>
  ELSE \E s \in free[e] : direct' = [direct EXCEPT ![i] = s] /\ UNCHANGED free

\* Connection::Setup: RegisterFd takes a slot, if one is left.
Setup(e, i) ==
  IF free[e] = {} THEN UNCHANGED <<direct, free>>
  ELSE \E s \in free[e] : /\ direct' = [direct EXCEPT ![i] = s]
                          /\ free' = [free EXCEPT ![e] = @ \ {s}]

\* The task of the accept loop starts on executor e.
StartClient(e, i) ==
  /\ Setup(e, i)
  /\ conn' = [conn EXCEPT ![i] = "adding"]
  /\ pc' = [pc EXCEPT ![e] = "check"]
  /\ cur' = [cur EXCEPT ![e] = i]

NextTurn(t) == (t + 1) % client_executors

\* Schedule runs the task inline on executor 0, and sends it to another one.
Dispatch(i) ==
  /\ conn[i] = "accepted" /\ pc[0] = "idle"
  /\ ~AtLimit
  /\ owner' = [owner EXCEPT ![i] = turn]
  /\ turn' = NextTurn(turn)
  /\ \/ turn = 0 /\ StartClient(0, i) /\ UNCHANGED armed
     \/ turn # 0 /\ conn' = [conn EXCEPT ![i] = "sent"] /\ armed' = TRUE
        /\ UNCHANGED <<direct, free, pc, cur>>
  /\ UNCHANGED <<client_executors, copied, clients, active, phase>>

Receive(e, i) ==
  /\ conn[i] = "sent" /\ owner[i] = e /\ pc[e] = "idle"
  /\ StartClient(e, i)
  /\ UNCHANGED <<client_executors, owner, armed, turn, copied, clients, active, phase>>

-----------------------------------------------------------------------------
(* ClientManager::AddClient *)

Check(e) ==
  /\ pc[e] = "check"
  /\ pc' = [pc EXCEPT ![e] = IF cur[e] >= clients.size THEN "resize" ELSE "count"]
  /\ UNCHANGED <<client_executors, conn, owner, direct, free, armed, turn, cur, copied, clients, active, phase>>

Bug_OneShort(i) == i

NewSize(i) == 2 * i

\* resize(2 * index): within the capacity elements are only added, cleared, or
\* cut off; beyond it the elements are copied and the copy is installed.
Resize(e) ==
  LET n == NewSize(cur[e])
  IN  /\ pc[e] = "resize" /\ Unlocked
      /\ \/ /\ n <= clients.cap
            /\ clients' = [clients EXCEPT !.size = n,
                                          !.held = {i \in @ : i < clients.size \/ i >= n}]
            /\ pc' = [pc EXCEPT ![e] = "count"]
            /\ UNCHANGED copied
         \/ /\ n > clients.cap
            /\ copied' = [copied EXCEPT ![e] = {i \in clients.held : i < clients.size}]
            /\ pc' = [pc EXCEPT ![e] = "install"]
            /\ UNCHANGED clients
      /\ UNCHANGED <<client_executors, conn, owner, direct, free, armed, turn, cur, active, phase>>

Install(e) ==
  LET n == NewSize(cur[e])
  IN  /\ pc[e] = "install"
      /\ clients' = [size |-> n,
                     cap  |-> IF n > 2 * clients.size THEN n ELSE 2 * clients.size,
                     held |-> copied[e]]
      /\ copied' = [copied EXCEPT ![e] = {}]
      /\ pc' = [pc EXCEPT ![e] = "count"]
      /\ UNCHANGED <<client_executors, conn, owner, direct, free, armed, turn, cur, active, phase>>

CountClient(e) ==
  /\ pc[e] = "count"
  /\ active' = active + 1
  /\ pc' = [pc EXCEPT ![e] = "store"]
  /\ UNCHANGED <<client_executors, conn, owner, direct, free, armed, turn, cur, copied, clients, phase>>

\* The client is stored and starts Process, which awaits its first Recv.  The
\* accept loop resumes after a client of executor 0.
Store(e) ==
  /\ pc[e] = "store"
  /\ clients' = [clients EXCEPT !.held = @ \cup {cur[e]}]
  /\ conn' = [conn EXCEPT ![cur[e]] = "serving"]
  /\ pc' = [pc EXCEPT ![e] = "idle"]
  /\ armed' = (armed \/ e = 0)
  /\ UNCHANGED <<client_executors, owner, direct, free, turn, cur, copied, active, phase>>

-----------------------------------------------------------------------------
(* The end of Client::Process *)

Bug_KeepsClient(e, i) ==
  /\ conn[i] = "serving" /\ owner[i] = e /\ pc[e] = "idle"
  /\ Unlocked
  /\ active' = active - 1
  /\ conn' = [conn EXCEPT ![i] = "removed"]
  /\ pc' = [pc EXCEPT ![e] = "close"]
  /\ cur' = [cur EXCEPT ![e] = i]
  /\ UNCHANGED <<client_executors, owner, direct, free, armed, turn, copied, clients, phase>>

Bug_IgnoresLost(e, i) ==
  /\ conn[i] = "serving" /\ owner[i] = e /\ pc[e] = "idle"
  /\ Unlocked
  /\ clients' = [clients EXCEPT !.held = @ \ {i}]
  /\ active' = IF i \in clients.held THEN active - 1 ELSE active
  /\ conn' = [conn EXCEPT ![i] = "removed"]
  /\ pc' = [pc EXCEPT ![e] = "close"]
  /\ cur' = [cur EXCEPT ![e] = i]
  /\ UNCHANGED <<client_executors, owner, direct, free, armed, turn, copied, phase>>

\* The peer closes or fails: RemoveClient, which takes mu_.
RemoveClient(e, i) ==
  /\ conn[i] = "serving" /\ owner[i] = e /\ pc[e] = "idle"
  /\ Unlocked
  /\ clients' = [clients EXCEPT !.held = @ \ {i}]
  /\ active' = active - 1
  /\ conn' = [conn EXCEPT ![i] = "removed"]
  /\ pc' = [pc EXCEPT ![e] = "close"]
  /\ cur' = [cur EXCEPT ![e] = i]
  /\ UNCHANGED <<client_executors, owner, direct, free, armed, turn, copied, phase>>

\* Close and the destructor of the connections of S, which gives the slots back.
CloseConnections(S) ==
  /\ conn' = [i \in Index |-> IF i \in S THEN "closed" ELSE conn[i]]
  /\ direct' = [i \in Index |-> IF i \in S THEN -1 ELSE direct[i]]
  /\ free' = [e \in Executor |->
                free[e] \cup {direct[i] : i \in {j \in S : owner[j] = e /\ direct[j] # -1}}]

Close(e) ==
  /\ pc[e] = "close"
  /\ CloseConnections({cur[e]})
  /\ pc' = [pc EXCEPT ![e] = "idle"]
  /\ UNCHANGED <<client_executors, owner, armed, turn, cur, copied, clients, active, phase>>

-----------------------------------------------------------------------------
(* Server::Shutdown *)

Deactivate ==
  /\ phase = "running"
  /\ phase' = "stopping"
  /\ UNCHANGED <<client_executors, conn, owner, direct, free, armed, turn, pc, cur, copied, clients, active>>

Bug_WaitsForClients(e) ==
  /\ phase = "stopping" /\ pc[e] = "idle"
  /\ \A i \in Index : owner[i] = e => conn[i] # "serving"
  /\ pc' = [pc EXCEPT ![e] = "exited"]
  /\ UNCHANGED <<client_executors, conn, owner, direct, free, armed, turn, cur, copied, clients, active, phase>>

\* EventLoop returns between two tasks.
Exit(e) ==
  /\ phase = "stopping" /\ pc[e] = "idle"
  /\ pc' = [pc EXCEPT ![e] = "exited"]
  /\ UNCHANGED <<client_executors, conn, owner, direct, free, armed, turn, cur, copied, clients, active, phase>>

Bug_SkipsLast == {i \in clients.held : i < clients.size - 1}

\* The clients that GetClients lists.
GetClients == {i \in clients.held : i < clients.size}

\* After the threads are joined, every client in clients_ is closed.
CloseClients ==
  LET S == GetClients
  IN  /\ phase = "stopping" /\ \A e \in Executor : pc[e] = "exited"
      /\ CloseConnections(S)
      /\ clients' = [clients EXCEPT !.held = @ \ S]
      /\ active' = active - Cardinality(S)
      /\ phase' = "done"
      /\ UNCHANGED <<client_executors, owner, armed, turn, pc, cur, copied>>

-----------------------------------------------------------------------------
Work(e) ==
  \/ Check(e) \/ Resize(e) \/ Install(e) \/ CountClient(e) \/ Store(e) \/ Close(e)
  \/ \E i \in Index : Receive(e, i)

Next ==
  \/ KernelAccepts \/ (\E i \in Index : Reject(i) \/ Dispatch(i))
  \/ \E e \in Executor : Work(e) \/ Exit(e) \/ (\E i \in Index : RemoveClient(e, i))
  \/ Deactivate \/ CloseClients

Spec == Init /\ [][Next]_vars

\* A thread that has something to do goes on, and looks at its active_ flag
\* after every batch of completions.  A client may stay connected for ever.
FairSpec ==
  Spec /\ (\A e \in Executor : WF_vars(Work(e)) /\ SF_vars(Exit(e))) /\ WF_vars(CloseClients)

-----------------------------------------------------------------------------
(* Properties *)

Serving == {i \in Index : conn[i] = "serving"}

\* Types; an executor works on a connection of its own.
TypeOK ==
  /\ conn \in [Index -> Stage] /\ owner \in [Index -> Executor]
  /\ direct \in [Index -> DirectFds \cup {-1}] /\ free \in [Executor -> SUBSET DirectFds]
  /\ armed \in BOOLEAN /\ client_executors \in 1 .. N /\ turn \in 0 .. client_executors - 1
  /\ pc \in [Executor -> Step] /\ cur \in [Executor -> Index]
  /\ copied \in [Executor -> SUBSET Index]
  /\ clients.size \in Nat /\ clients.cap \in Nat /\ clients.held \subseteq Index
  /\ active \in Nat /\ phase \in {"running", "stopping", "done"}
  /\ \A e \in Executor : pc[e] \notin {"idle", "exited"} => owner[cur[e]] = e

\* The assertion of AddClient: the element for a new client is empty, although
\* descriptors are reused at once and other threads resize the array.  It rests
\* on Process removing the client before it closes the descriptor.
SlotIsFree == \A e \in Executor : pc[e] = "count" => cur[e] \notin clients.held

\* The count of clients is that of the clients being served, one more for each
\* that is counted and not yet stored, even when the array has lost a client.
CountIsExact ==
  phase # "done" =>
    active = Cardinality(Serving) + Cardinality({e \in Executor : pc[e] = "store"})

\* No two open connections of an executor use the same registered descriptor,
\* and no connection uses one that RegisterFd may hand out (UnregisterFd).
DirectFdsExclusive ==
  \A i \in Index : direct[i] # -1 =>
    /\ direct[i] \notin free[owner[i]]
    /\ \A j \in Index \ {i} : owner[j] = owner[i] => direct[j] # direct[i]

\* AcceptLoop: a connection that would exceed the configured limit of active
\* connections is declined.
MaxClientsRespected == active <= MaxClients

\* With one client executor it is: AddClient counts a client before the accept
\* loop, on the same thread, can test the limit again.
OneExecutorRespectsMaxClients == client_executors = 1 => MaxClientsRespected

\* The assertion of RemoveClient: the client is in the array, which resize never
\* cuts below an index in use.  With more executors a resize of one thread may
\* undo the store of another.
RemoveFindsClient ==
  client_executors = 1 =>
    \A i \in Index : conn[i] = "serving" => i < clients.size /\ i \in clients.held

\* Shutdown releases all the active clients: with one executor, so that no
\* client is lost from the array, its assertion at the end holds.
ShutdownReleasesAll ==
  (client_executors = 1 /\ phase = "done") => active = 0 /\ Serving = {}

\* Shutdown terminates: the executors stop, whatever the clients do.
ShutdownEnds == (phase = "stopping") ~> (phase = "done")
=============================================================================
