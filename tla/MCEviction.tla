------------------------------ MODULE MCEviction ------------------------------
(* Eviction for TLC: three keys, a pool of two candidates.                   *)
EXTENDS Eviction

CONSTANTS k1, k2, k3, c1, c2

MCKeys == {k1, k2, k3}
MCWrites == {[key |-> k, ex |-> k = k1] : k \in MCKeys}
MCOneClient == {c1}
MCTwoClients == {c1, c2}
MCPolicies == {"noeviction", "allkeys-random", "allkeys-lru"}
MCRefuse == {"noeviction"}
=============================================================================
