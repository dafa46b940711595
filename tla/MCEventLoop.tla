------------------------------ MODULE MCEventLoop ------------------------------
(* Two executors, the accept loop, a task of the main thread and a client; a    *)
(* submission queue of two entries has room for batches of one, not of two.     *)
EXTENDS EventLoop

CONSTANTS acc, task, client

MCCoroutines == {acc, task, client}
MCTasks == {acc, task}
MCSettings == {<<FALSE, 1>>, <<FALSE, 2>>, <<TRUE, 1>>}
=============================================================================
