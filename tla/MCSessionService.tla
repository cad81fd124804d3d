-------------------------- MODULE MCSessionService --------------------------
(* Finite instances of SessionService for TLC.                             *)
EXTENDS SessionService, TLC

MCQuota == [memoryMiB |-> 2, cpuShares |-> 1, pids |-> 1]

\* Memory is the resource that runs out first: two sessions fit, a third does not.
MCHostCapacity == [maximumSessions |-> 3, memoryMiB |-> 5, cpuShares |-> 3, pids |-> 3]

\* For the quota and the containers: expiry and relays have no part in either.
NoExpiryNorRelay == expired = {} /\ \A s \in SessionIds : relays[s] = {}

\* The properties do not name an element of these sets.
Symmetry ==
    Permutations(Tenants) \union Permutations(SessionIds)
        \union Permutations(Credentials) \union Permutations(Requests)
=============================================================================
