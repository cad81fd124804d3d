--------------------------- MODULE SessionService ---------------------------
(***************************************************************************)
(* The control plane's session service (src/src/domain/session-service.ts):*)
(* session records, quota reservations, one-use pairing tickets and        *)
(* signaling tokens, and the relays that the service can revoke.           *)
(*                                                                         *)
(* Node.js runs the service on one thread, so everything between two       *)
(* awaits is one step.  An API call is a process: its Start action runs up *)
(* to the first await on the runtime adapter, RuntimeAnswers is the        *)
(* adapter's answer, and its Resume action runs from there to the next     *)
(* await or to the end of the call.  Any number of other steps may come    *)
(* between the three.                                                      *)
(*                                                                         *)
(* Random identifiers (randomUUID, randomBytes) are drawn from finite      *)
(* sets.  A name is fresh when nothing in the state refers to it, so names *)
(* that everybody has forgotten are used again and runs have no last       *)
(* session.  The credential that a call may mint is drawn when it starts.  *)
(***************************************************************************)
EXTENDS Naturals, FiniteSets

CONSTANTS
    Tenants,                    \* context.tenantId of the callers
    SessionIds,                 \* values of randomUUID()
    Credentials,                \* hashes of tickets and tokens
    Requests,                   \* API calls that can be in progress together
    None,                       \* null / undefined
    MaximumSessionsPerTenant,
    Quota,                      \* memoryMiB, cpuShares and pids of one session
    HostCapacity                \* the same, and maximumSessions

Positive == Nat \ {0}

validateQuota(quota) ==
    quota.memoryMiB \in Positive /\ quota.cpuShares \in Positive /\ quota.pids \in Positive

validateHostCapacity(capacity) ==
    capacity.maximumSessions \in Positive /\ validateQuota(capacity)

fitsWithin(quota, capacity) ==
    /\ quota.memoryMiB <= capacity.memoryMiB
    /\ quota.cpuShares <= capacity.cpuShares
    /\ quota.pids <= capacity.pids

\* Other options make the constructor throw.
OptionsAreAccepted ==
    /\ MaximumSessionsPerTenant \in Positive
    /\ validateQuota(Quota) /\ validateHostCapacity(HostCapacity)
    /\ fitsWithin(Quota, HostCapacity)

ASSUME QuotaAssumption == OptionsAreAccepted

ASSUME FiniteAssumption == IsFiniteSet(SessionIds)

ASSUME NoneAssumption ==
    None \notin Tenants \union SessionIds \union Credentials

VARIABLES
    sessions,        \* phase of each record, "absent" without a record
    tenantOf,        \* tenantId of each record and reservation
    reservations,    \* ids of the creations in progress
    pairingTickets,  \* ticket hash -> session, None when not in the map
    signalingTokens, \* token hash -> session, None when not in the map
    credentialed,    \* keys of credentialsBySession
    ticketHash,      \* credentials.pairingTicketHash of each session
    tokenHashes,     \* credentials.signalingTokenHashes of each session
    expired,         \* outstanding credentials whose expiresAt has passed
    relays,          \* the tokens whose relays the registry holds, by session
    container,       \* external: the browser container behind each session
    abandoned,       \* external: failed creations that may have left a container,
                     \* or whose request the engine may still execute
    calls,           \* the calls in progress
    burned           \* ids whose burn has been answered with success

records     == <<sessions, tenantOf, reservations>>
credentials == <<pairingTickets, signalingTokens, credentialed, ticketHash,
                 tokenHashes, expired>>
runtime     == <<container, abandoned>>
vars        == <<records, credentials, relays, runtime, calls, burned>>

Phases  == {"absent", "active", "burning", "failed"}
Ops     == {"none", "create", "get", "issue", "tab", "tabCall", "exchange",
            "authorize", "burn"}
Answers == {"none", "ok", "lost", "error", "cut"}
Idle    == [op |-> "none", id |-> None, cred |-> None, answer |-> "none"]

-----------------------------------------------------------------------------
(* Helpers                                                                 *)

InFlight(op, s) == \E r \in Requests : calls[r].op = op /\ calls[r].id = s

\* Calls that carry the credential they mint or, for authorize, present.
Bearers == {"create", "issue", "exchange", "authorize"}

Observers == {"get", "issue", "tab", "exchange", "authorize"}

FreshCredential(c) ==
    /\ pairingTickets[c] = None /\ signalingTokens[c] = None
    /\ \A s \in SessionIds : c # ticketHash[s] /\ c \notin tokenHashes[s] \union relays[s]
    /\ \A r \in Requests : calls[r].cred # c

FreshId(s) ==
    /\ sessions[s] = "absent" /\ s \notin reservations \union abandoned
    /\ container[s] = "none"
    /\ \A r \in Requests : calls[r].id # s

Begin(r, op, s, c) ==
    /\ calls[r] = Idle
    /\ calls' = [calls EXCEPT ![r] = [op |-> op, id |-> s, cred |-> c, answer |-> "none"]]

Return(r) == calls' = [calls EXCEPT ![r] = Idle]

Present == {s \in SessionIds : sessions[s] # "absent"}
OfTenant(S, t) == {s \in S : tenantOf[s] = t}

\* currentAllocation: every record and reservation carries this.quota.
Allocated == Cardinality(Present) + Cardinality(reservations)

\* Defect variant: starts in progress are not counted.
MayReserve_RecordsOnly(t) ==
    /\ Cardinality(OfTenant(Present, t)) < MaximumSessionsPerTenant
    /\ Cardinality(Present) + 1 <= HostCapacity.maximumSessions
    /\ (Cardinality(Present) + 1) * Quota.memoryMiB <= HostCapacity.memoryMiB

MayReserve(t) ==
    /\ Cardinality(OfTenant(Present, t)) + Cardinality(OfTenant(reservations, t))
         < MaximumSessionsPerTenant
    /\ Allocated + 1 <= HostCapacity.maximumSessions
    /\ (Allocated + 1) * Quota.memoryMiB <= HostCapacity.memoryMiB
    /\ (Allocated + 1) * Quota.cpuShares <= HostCapacity.cpuShares
    /\ (Allocated + 1) * Quota.pids <= HostCapacity.pids

\* The maps without the hashes that the session's credentials list.
Forget(s) ==
    /\ pairingTickets' = [c \in Credentials |->
           IF s \in credentialed /\ ticketHash[s] = c THEN None ELSE pairingTickets[c]]
    /\ signalingTokens' = [c \in Credentials |->
           IF s \in credentialed /\ c \in tokenHashes[s] THEN None ELSE signalingTokens[c]]

revokeCredentials(s) ==
    /\ Forget(s)
    /\ credentialed' = credentialed \ {s}
    /\ ticketHash' = [ticketHash EXCEPT ![s] = None]
    /\ tokenHashes' = [tokenHashes EXCEPT ![s] = {}]
    /\ expired' = {c \in expired : pairingTickets'[c] # None \/ signalingTokens'[c] # None}

\* registry.revoke(sessionId): every registered closer runs.
revokeSignalingConnections(s) == relays' = [relays EXCEPT ![s] = {}]

\* rotateSignalingTicket, for a session that has credentials.
rotateSignalingTicket(s, c) ==
    /\ pairingTickets' = [d \in Credentials |->
           IF d = c THEN s ELSE IF d = ticketHash[s] THEN None ELSE pairingTickets[d]]
    /\ signalingTokens' = [d \in Credentials |->
           IF d \in tokenHashes[s] THEN None ELSE signalingTokens[d]]
    /\ ticketHash' = [ticketHash EXCEPT ![s] = c]
    /\ tokenHashes' = [tokenHashes EXCEPT ![s] = {}]
    /\ expired' = {d \in expired : d # c /\ (pairingTickets'[d] # None \/ signalingTokens'[d] # None)}

-----------------------------------------------------------------------------
(* Calls up to their first await                                           *)

\* create: randomUUID and reserve, then await runtime.create.
CreateStart(r, t, s, c) ==
    /\ FreshId(s) /\ FreshCredential(c)
    /\ MayReserve(t)
    /\ Begin(r, "create", s, c)
    /\ reservations' = reservations \union {s}
    /\ tenantOf' = [tenantOf EXCEPT ![s] = t]
    /\ burned' = burned \ {s}
    /\ UNCHANGED <<sessions, credentials, relays, runtime>>

\* get, issueSignalingTicket and activeRuntime (the five tab operations) on an
\* active record, up to the await of runtime.inspect.  Without a record, with
\* the record of another tenant, or in another phase they change nothing.
ObserveStart(r, op, s) ==
    /\ op \in {"get", "tab"}
    /\ sessions[s] = "active"
    /\ Begin(r, op, s, None)
    /\ UNCHANGED <<records, credentials, relays, runtime, burned>>

IssueStart(r, s, c) ==
    /\ sessions[s] = "active"
    /\ FreshCredential(c)
    /\ Begin(r, "issue", s, c)
    /\ UNCHANGED <<records, credentials, relays, runtime, burned>>

\* Defect variant: the ticket stays valid until the exchange succeeds.
ExchangeStart_KeepsTicket(r, k, n) ==
    /\ pairingTickets[k] # None /\ FreshCredential(n)
    /\ k \notin expired /\ sessions[pairingTickets[k]] = "active"
    /\ Begin(r, "exchange", pairingTickets[k], n)
    /\ UNCHANGED <<records, credentials, relays, runtime, burned>>

\* exchangeSignalingTicket: the ticket k is consumed before anything is
\* checked; n is the token that the call may mint.
ExchangeStart(r, k, n) ==
    /\ calls[r] = Idle
    /\ pairingTickets[k] # None /\ FreshCredential(n)
    /\ LET s == pairingTickets[k] IN
       /\ pairingTickets' = [pairingTickets EXCEPT ![k] = None]
       /\ ticketHash' = IF ticketHash[s] = k THEN [ticketHash EXCEPT ![s] = None]
                        ELSE ticketHash
       /\ IF k \in expired \/ sessions[s] # "active" \/ s \notin credentialed
          THEN UNCHANGED calls
          ELSE Begin(r, "exchange", s, n)
    /\ expired' = expired \ {k}
    /\ UNCHANGED <<records, signalingTokens, credentialed, tokenHashes, relays,
                   runtime, burned>>

\* authorizeSignalingToken, called by the gateway with the presented token k.
AuthorizeStart(r, k) ==
    /\ calls[r] = Idle
    /\ signalingTokens[k] # None
    /\ LET s == signalingTokens[k] IN
       /\ signalingTokens' = [signalingTokens EXCEPT ![k] = None]
       /\ tokenHashes' = [tokenHashes EXCEPT ![s] = @ \ {k}]
       /\ IF k \in expired \/ sessions[s] # "active"
          THEN UNCHANGED calls
          ELSE Begin(r, "authorize", s, k)
    /\ expired' = expired \ {k}
    /\ UNCHANGED <<records, pairingTickets, credentialed, ticketHash, relays,
                   runtime, burned>>

\* burn, in any phase: another burn may be in progress.
BurnStart(r, s) ==
    /\ sessions[s] # "absent"
    /\ Begin(r, "burn", s, None)
    /\ revokeCredentials(s)
    /\ revokeSignalingConnections(s)
    /\ sessions' = [sessions EXCEPT ![s] = "burning"]
    /\ UNCHANGED <<tenantOf, reservations, runtime, burned>>

-----------------------------------------------------------------------------
(* The runtime adapter (RuntimeAdapter), as its callers see it             *)

Answer(r, a) == calls' = [calls EXCEPT ![r].answer = a]

\* A create that fails may leave a container: its rollback can fail, and the
\* engine can execute the creation after the adapter has given up (DockerRuntime).
\* No record leads to such a container, so whether it runs is not told apart.
CreateLeaves(s) ==
    /\ container' = [container EXCEPT ![s] = "stopped"] \/ UNCHANGED container
    /\ abandoned' = abandoned \union {s}

CreateAnswers(r) ==
    LET s == calls[r].id IN
    /\ calls[r].op = "create" /\ calls[r].answer = "none"
    /\ \/ /\ Answer(r, "ok")
          /\ container' = [container EXCEPT ![s] = "running"]
          /\ UNCHANGED abandoned
       \/ Answer(r, "error") /\ CreateLeaves(s)
    /\ UNCHANGED <<records, credentials, relays, burned>>

\* inspect reports what the container is at one moment of the call.
InspectAnswers(r) ==
    /\ calls[r].op \in Observers /\ calls[r].answer = "none"
    /\ \/ Answer(r, IF container[calls[r].id] = "running" THEN "ok" ELSE "lost")
       \/ Answer(r, "error")
    /\ UNCHANGED <<records, credentials, relays, runtime, burned>>

TabAnswers(r) ==
    /\ calls[r].op = "tabCall" /\ calls[r].answer = "none"
    /\ \/ Answer(r, "ok")
       \/ Answer(r, "error")
    /\ UNCHANGED <<records, credentials, relays, runtime, burned>>

\* destroy may fail before or after the container is gone.
DestroyAnswers(r) ==
    /\ calls[r].op = "burn" /\ calls[r].answer = "none"
    /\ \/ Answer(r, "ok") /\ container' = [container EXCEPT ![calls[r].id] = "none"]
       \/ /\ Answer(r, "error")
          /\ \/ container' = [container EXCEPT ![calls[r].id] = "none"]
             \/ UNCHANGED container
    /\ UNCHANGED <<records, credentials, relays, abandoned, burned>>

\* The engine closes the connection in the middle of a response.  The transport
\* listens for "data" and "end" of a response only, so the promise of this call
\* is never settled and the call never continues: an observation then holds
\* nothing any more, but a creation keeps its reservation and a burn its phase.  A
\* tab call goes through controlRequest, which also hears of the error.
CutOff(r) ==
    LET s == calls[r].id IN
    /\ calls[r].answer = "none"
    /\ \/ /\ calls[r].op \in Observers
          /\ calls' = [calls EXCEPT ![r] = [Idle EXCEPT !.answer = "cut"]]
          /\ UNCHANGED runtime
       \/ calls[r].op = "create" /\ Answer(r, "cut") /\ CreateLeaves(s)
       \/ /\ calls[r].op = "burn" /\ Answer(r, "cut")
          /\ container' = [container EXCEPT ![s] = "none"] \/ UNCHANGED container
          /\ UNCHANGED abandoned
    /\ UNCHANGED <<records, credentials, relays, burned>>

RuntimeAnswers(r) ==
    \/ CreateAnswers(r)
    \/ InspectAnswers(r)
    \/ TabAnswers(r)
    \/ DestroyAnswers(r)

-----------------------------------------------------------------------------
(* Calls after an await                                                    *)

CreateResume(r) ==
    LET s == calls[r].id IN
    /\ calls[r].op = "create" /\ calls[r].answer = "ok"
    /\ sessions' = [sessions EXCEPT ![s] = "active"]
    /\ credentialed' = credentialed \union {s}
    /\ rotateSignalingTicket(s, calls[r].cred)
    /\ reservations' = reservations \ {s}
    /\ Return(r)
    /\ UNCHANGED <<tenantOf, relays, runtime, burned>>

\* The finally block when runtime.create rejects.
CreateFails(r) ==
    /\ calls[r].op = "create" /\ calls[r].answer = "error"
    /\ reservations' = reservations \ {calls[r].id}
    /\ Return(r)
    /\ UNCHANGED <<sessions, tenantOf, credentials, relays, runtime, burned>>

\* observeRuntime returns the record it was given, or rejects.  The active
\* record of a session is stored once, by create, so the record read before
\* the await is still the current one exactly when the session is active.
StillCurrent(r) == sessions[calls[r].id] = "active"

\* Defect variant: the record is not compared with the one read before the await.
ResumeRuntimeLost_NoRecheck(r) ==
    LET s == calls[r].id IN
    /\ calls[r].op \in Observers /\ calls[r].answer = "lost"
    /\ revokeCredentials(s)
    /\ revokeSignalingConnections(s)
    /\ sessions' = [sessions EXCEPT ![s] = "failed"]
    /\ Return(r)
    /\ UNCHANGED <<tenantOf, reservations, runtime, burned>>

\* observeRuntime finds that the runtime is gone: the session fails.
ResumeRuntimeLost(r) ==
    LET s == calls[r].id IN
    /\ calls[r].op \in Observers /\ calls[r].answer = "lost"
    /\ StillCurrent(r)
    /\ revokeCredentials(s)
    /\ revokeSignalingConnections(s)
    /\ sessions' = [sessions EXCEPT ![s] = "failed"]
    /\ Return(r)
    /\ UNCHANGED <<tenantOf, reservations, runtime, burned>>

\* inspect rejected, or the session was burned or failed during the await:
\* the caller answers without a change.
ResumeRefused(r) ==
    /\ calls[r].op \in Observers
    /\ \/ calls[r].answer = "error"
       \/ calls[r].answer \in {"ok", "lost"} /\ ~StillCurrent(r)
    /\ Return(r)
    /\ UNCHANGED <<records, credentials, relays, runtime, burned>>

GetResume(r) ==
    /\ calls[r].op = "get" /\ calls[r].answer = "ok" /\ StillCurrent(r)
    /\ Return(r)
    /\ UNCHANGED <<records, credentials, relays, runtime, burned>>

\* activeRuntime returned: the second await of a tab operation.
TabResume(r) ==
    /\ calls[r].op = "tab" /\ calls[r].answer = "ok" /\ StillCurrent(r)
    /\ calls' = [calls EXCEPT ![r].op = "tabCall", ![r].answer = "none"]
    /\ UNCHANGED <<records, credentials, relays, runtime, burned>>

TabReturns(r) ==
    /\ calls[r].op = "tabCall" /\ calls[r].answer # "none"
    /\ Return(r)
    /\ UNCHANGED <<records, credentials, relays, runtime, burned>>

\* issueSignalingTicket after the await; rotateSignalingTicket rejects when the
\* session has no credentials.
IssueResume(r) ==
    LET s == calls[r].id IN
    /\ calls[r].op = "issue" /\ calls[r].answer = "ok" /\ StillCurrent(r)
    /\ IF s \in credentialed
       THEN rotateSignalingTicket(s, calls[r].cred)
       ELSE UNCHANGED <<pairingTickets, signalingTokens, ticketHash, tokenHashes, expired>>
    /\ Return(r)
    /\ UNCHANGED <<records, credentialed, relays, runtime, burned>>

\* Defect variant: the session is not looked at again after the await.
ExchangeResume_NoRecheck(r) ==
    LET s == calls[r].id  n == calls[r].cred IN
    /\ calls[r].op = "exchange" /\ calls[r].answer = "ok"
    /\ tokenHashes' = [tokenHashes EXCEPT ![s] = @ \union {n}]
    /\ signalingTokens' = [signalingTokens EXCEPT ![n] = s]
    /\ Return(r)
    /\ UNCHANGED <<records, pairingTickets, credentialed, ticketHash, expired,
                   relays, runtime, burned>>

\* exchangeSignalingTicket after the await.  The credentials object of a
\* session is stored once, by create, and removed by revokeCredentials, so it
\* is the same object exactly when the session still has one.
ExchangeResume(r) ==
    LET s == calls[r].id  n == calls[r].cred IN
    /\ calls[r].op = "exchange" /\ calls[r].answer = "ok" /\ StillCurrent(r)
    /\ IF s \in credentialed
       THEN /\ tokenHashes' = [tokenHashes EXCEPT ![s] = @ \union {n}]
            /\ signalingTokens' = [signalingTokens EXCEPT ![n] = s]
       ELSE UNCHANGED <<tokenHashes, signalingTokens>>
    /\ Return(r)
    /\ UNCHANGED <<records, pairingTickets, credentialed, ticketHash, expired,
                   relays, runtime, burned>>

\* Defect variant: the session is not looked at again after the await.
AuthorizeResume_NoRecheck(r) ==
    LET s == calls[r].id IN
    /\ calls[r].op = "authorize" /\ calls[r].answer = "ok"
    /\ relays' = [relays EXCEPT ![s] = @ \union {calls[r].cred}]
    /\ Return(r)
    /\ UNCHANGED <<records, credentials, runtime, burned>>

\* authorizeSignalingToken returns and connectUpstream registers the relay
\* before any other callback runs.
AuthorizeResume(r) ==
    LET s == calls[r].id IN
    /\ calls[r].op = "authorize" /\ calls[r].answer = "ok" /\ StillCurrent(r)
    /\ relays' = [relays EXCEPT ![s] = @ \union {calls[r].cred}]
    /\ Return(r)
    /\ UNCHANGED <<records, credentials, runtime, burned>>

BurnResume(r) ==
    LET s == calls[r].id IN
    /\ calls[r].op = "burn" /\ calls[r].answer = "ok"
    /\ sessions' = [sessions EXCEPT ![s] = "absent"]
    /\ burned' = burned \union {s}
    /\ Return(r)
    /\ UNCHANGED <<tenantOf, reservations, credentials, relays, runtime>>

\* Defect variant: the record is dropped although the cleanup failed.
BurnFails_DropsRecord(r) ==
    LET s == calls[r].id IN
    /\ calls[r].op = "burn" /\ calls[r].answer = "error"
    /\ sessions' = [sessions EXCEPT ![s] = "absent"]
    /\ Return(r)
    /\ UNCHANGED <<tenantOf, reservations, credentials, relays, runtime, burned>>

\* Defect variant: the phase stays "burning".
BurnFails_KeepsPhase(r) ==
    /\ calls[r].op = "burn" /\ calls[r].answer = "error"
    /\ Return(r)
    /\ UNCHANGED <<records, credentials, relays, runtime, burned>>

\* The catch block stores the record again, whatever happened meanwhile.
BurnFails(r) ==
    LET s == calls[r].id IN
    /\ calls[r].op = "burn" /\ calls[r].answer = "error"
    /\ sessions' = [sessions EXCEPT ![s] = "failed"]
    /\ Return(r)
    /\ UNCHANGED <<tenantOf, reservations, credentials, relays, runtime, burned>>

Resume(r) ==
    \/ CreateResume(r)
    \/ CreateFails(r)
    \/ ResumeRuntimeLost(r)
    \/ ResumeRefused(r)
    \/ GetResume(r)
    \/ TabResume(r)
    \/ TabReturns(r)
    \/ IssueResume(r)
    \/ ExchangeResume(r)
    \/ AuthorizeResume(r)
    \/ BurnResume(r)
    \/ BurnFails(r)

-----------------------------------------------------------------------------
(* The environment                                                         *)

\* The browser container stops by itself.
ContainerStops(s) ==
    /\ container[s] = "running"
    /\ container' = [container EXCEPT ![s] = "stopped"]
    /\ UNCHANGED <<records, credentials, relays, abandoned, calls, burned>>

\* A removal is executed after the adapter has given up, or an operator helps.
\* While the session is active the service sees no difference to ContainerStops.
ContainerVanishes(s) ==
    /\ container[s] # "none"
    /\ sessions[s] \in {"burning", "failed"} \/ s \in abandoned
    /\ container' = [container EXCEPT ![s] = "none"]
    /\ UNCHANGED <<records, credentials, relays, abandoned, calls, burned>>

\* The engine executes the creation of a container that nobody waits for.
CreatedLate(s) ==
    /\ s \in abandoned /\ container[s] = "none"
    /\ container' = [container EXCEPT ![s] = "stopped"]
    /\ UNCHANGED <<records, credentials, relays, abandoned, calls, burned>>

\* Nothing is left of a failed creation, and nothing will come of it.
EngineForgets(s) ==
    /\ s \in abandoned /\ container[s] = "none"
    /\ abandoned' = abandoned \ {s}
    /\ UNCHANGED <<records, credentials, relays, container, calls, burned>>

\* this.now() passes a credential's expiresAt.
Expire(c) ==
    /\ pairingTickets[c] # None \/ signalingTokens[c] # None
    /\ c \notin expired
    /\ expired' = expired \union {c}
    /\ UNCHANGED <<records, pairingTickets, signalingTokens, credentialed,
                   ticketHash, tokenHashes, relays, runtime, calls, burned>>

\* One end of a relay hangs up and the gateway unregisters it.
RelayCloses(s, c) ==
    /\ c \in relays[s]
    /\ relays' = [relays EXCEPT ![s] = @ \ {c}]
    /\ UNCHANGED <<records, credentials, runtime, calls, burned>>

-----------------------------------------------------------------------------
Init ==
    /\ sessions = [s \in SessionIds |-> "absent"]
    /\ tenantOf = [s \in SessionIds |-> None]
    /\ reservations = {}
    /\ pairingTickets = [c \in Credentials |-> None]
    /\ signalingTokens = [c \in Credentials |-> None]
    /\ credentialed = {}
    /\ ticketHash = [s \in SessionIds |-> None]
    /\ tokenHashes = [s \in SessionIds |-> {}]
    /\ expired = {}
    /\ relays = [s \in SessionIds |-> {}]
    /\ container = [s \in SessionIds |-> "none"] /\ abandoned = {}
    /\ calls = [r \in Requests |-> Idle]
    /\ burned = {}

Start(r) ==
    \/ \E t \in Tenants, s \in SessionIds, c \in Credentials : CreateStart(r, t, s, c)
    \/ \E op \in {"get", "tab"}, s \in SessionIds : ObserveStart(r, op, s)
    \/ \E s \in SessionIds, c \in Credentials : IssueStart(r, s, c)
    \/ \E k, n \in Credentials : ExchangeStart(r, k, n)
    \/ \E k \in Credentials : AuthorizeStart(r, k)
    \/ \E s \in SessionIds : BurnStart(r, s)

Environment ==
    \/ \E s \in SessionIds :
          ContainerStops(s) \/ ContainerVanishes(s) \/ CreatedLate(s) \/ EngineForgets(s)
    \/ \E c \in Credentials : Expire(c)
    \/ \E s \in SessionIds, c \in Credentials : RelayCloses(s, c)

Next ==
    \/ \E r \in Requests : Start(r) \/ RuntimeAnswers(r) \/ CutOff(r) \/ Resume(r)
    \/ Environment

Spec == Init /\ [][Next]_vars

\* Every request to the engine is answered, fails, stalls until its timeout or is
\* cut off, and a call that is cut off is disabled for good.  The event loop runs
\* the continuation of every settled promise.
FairSpec ==
    /\ Spec
    /\ \A r \in Requests : WF_vars(RuntimeAnswers(r)) /\ WF_vars(Resume(r))
-----------------------------------------------------------------------------
(* Properties                                                              *)

Calls == [op : Ops, id : SessionIds \union {None},
          cred : Credentials \union {None}, answer : Answers]

\* The state has the types of the service's maps, and a call in progress has
\* the session it works on and the credential it carries.
TypeOK ==
    /\ sessions \in [SessionIds -> Phases]
    /\ tenantOf \in [SessionIds -> Tenants \union {None}]
    /\ reservations \subseteq SessionIds
    /\ pairingTickets \in [Credentials -> SessionIds \union {None}]
    /\ signalingTokens \in [Credentials -> SessionIds \union {None}]
    /\ credentialed \subseteq SessionIds
    /\ ticketHash \in [SessionIds -> Credentials \union {None}]
    /\ tokenHashes \in [SessionIds -> SUBSET Credentials]
    /\ expired \subseteq Credentials
    /\ relays \in [SessionIds -> SUBSET Credentials]
    /\ container \in [SessionIds -> {"none", "running", "stopped"}]
    /\ abandoned \subseteq SessionIds
    /\ calls \in [Requests -> Calls]
    /\ \A r \in Requests :
          /\ calls[r].op # "none" => calls[r].id \in SessionIds
          /\ calls[r].op \in Bearers => calls[r].cred \in Credentials
    /\ burned \subseteq SessionIds

\* Every ticket and token that would be accepted belongs to an active session
\* and is listed in that session's credentials, so that revokeCredentials and
\* rotateSignalingTicket reach it: no sequence of exchanges, rotations, runtime
\* losses and burns leaves one behind that nothing can revoke.
CredentialsRevocable ==
    \A c \in Credentials, s \in SessionIds :
        /\ pairingTickets[c] = s =>
             sessions[s] = "active" /\ s \in credentialed /\ ticketHash[s] = c
        /\ signalingTokens[c] = s =>
             sessions[s] = "active" /\ s \in credentialed /\ c \in tokenHashes[s]

\* A relay is registered only for an active session: an authorization that was
\* waiting for the runtime while the session was burned or failed opens none,
\* and the relays that were open are closed.
RelaysOnlyWhileActive ==
    \A s \in SessionIds : relays[s] # {} => sessions[s] = "active"

\* A session is "burning" only while some burn of it is in progress, whatever
\* the other burns of it did.
BurningHasBurn ==
    \A s \in SessionIds : sessions[s] = "burning" => InFlight("burn", s)

\* What a call relies on when it continues after its await: a creation is the
\* only call on its session, which has a reservation and no record yet, and if it
\* was rejected its container is known to be abandoned; while a burn is in progress
\* its session is never usable, and if its record is gone another burn has
\* succeeded; a burn that the runtime confirmed left no container; and a runtime
\* that was found lost has not come back.
CallsAgreeWithRecords ==
    \A r \in Requests : LET s == calls[r].id IN
        /\ calls[r].op = "create" =>
             /\ sessions[s] = "absent" /\ s \in reservations
             /\ calls[r].answer = "error" => container[s] = "none" \/ s \in abandoned
             /\ \A q \in Requests \ {r} : calls[q].id # s
        /\ calls[r].op = "burn" =>
             /\ sessions[s] # "active"
             /\ sessions[s] = "absent" => s \in burned
             /\ calls[r].answer = "ok" => container[s] = "none"
        /\ calls[r].op \in Observers /\ calls[r].answer = "lost" => container[s] # "running"

BurnsOf(s) == {r \in Requests : calls[r].op = "burn" /\ calls[r].id = s}

\* Why a session may change its phase: its creation completes; a call finds that
\* its runtime is gone, which is still so when the session fails; or a burn of it
\* begins or ends, and none makes it usable.  So an inspection that comes back
\* after its session has failed or was burned changes nothing, and no record comes
\* back by it.
PhasesFollowCalls ==
    [][\A s \in SessionIds : sessions'[s] # sessions[s] =>
          \/ sessions[s] = "absent" /\ sessions'[s] = "active" /\ s \in reservations
          \/ sessions[s] = "active" /\ sessions'[s] = "failed" /\ container[s] # "running"
          \/ sessions'[s] # "active" /\ BurnsOf(s)' # BurnsOf(s)]_vars

\* What reserve has admitted, less the ids whose burn has succeeded.
Held == (Present \union reservations) \ burned

FitsHost(n) ==
    /\ n <= HostCapacity.maximumSessions
    /\ n * Quota.memoryMiB <= HostCapacity.memoryMiB
    /\ n * Quota.cpuShares <= HostCapacity.cpuShares
    /\ n * Quota.pids <= HostCapacity.pids

\* reserve counts the starts in progress, so concurrent creations never take a
\* tenant or the host over its limit.  A record that a late burn put back after
\* another burn had succeeded is not counted: reserve could not know of it.
WithinQuota ==
    /\ \A t \in Tenants : Cardinality(OfTenant(Held, t)) <= MaximumSessionsPerTenant
    /\ FitsHost(Cardinality(Held))

\* The service lets go of a container only when it is gone or when its creation was
\* rejected: every other container has the record or the reservation of its
\* session, however often and wherever its burns have failed.
NoOrphanContainer ==
    \A s \in SessionIds :
        container[s] # "none" => s \in Present \union reservations \union abandoned

WasCutOff(r) == calls[r].answer = "cut"

\* Every call is answered, however the calls interleave, unless the response that
\* it waits for was cut off.
EveryCallReturns ==
    \A r \in Requests : (calls[r] # Idle) ~> (calls[r] = Idle \/ WasCutOff(r))

\* A burn ends: a session that is burning stops burning, with the same exception.
BurnSettles ==
    \A s \in SessionIds : (sessions[s] = "burning") ~>
        (sessions[s] # "burning" \/ \E r \in BurnsOf(s) : WasCutOff(r))

\* Nothing but a response that was cut off makes a caller wait for ever, or keeps a
\* session in a phase in which it cannot be used.
CallsSettle == EveryCallReturns /\ BurnSettles

\* README.md: FIREBALL_DOCKER_REQUEST_TIMEOUT_MS bounds each Docker Engine call, so
\* every call of the service should be answered.
EveryCallIsBounded == \A r \in Requests : (calls[r] # Idle) ~> (calls[r] = Idle)

\* README.md:20: the limits of the host include the starts that are pending.  They
\* bound what the service knows of; a container that a failed creation left behind,
\* or whose start has been given up, is not counted by reserve.
HostWithinQuota == FitsHost(Cardinality({s \in SessionIds : container[s] # "none"}))

\* A session whose burn was answered with success stays gone
\* (test/isolation.test.ts: after the 204 a GET answers 404).
BurnedStaysGone == \A s \in burned : sessions[s] = "absent"

\* A session has one outstanding credential: README.md says that issuing a
\* ticket invalidates every older unexchanged ticket and unused token.
SingleOutstandingCredential ==
    \A s \in SessionIds :
        Cardinality({c \in Credentials : s \in {pairingTickets[c], signalingTokens[c]}}) <= 1
-----------------------------------------------------------------------------
(* The service implements SessionAuthority                                 *)

live == {s \in SessionIds : sessions[s] = "active"}

\* A call that has presented a credential waits for what it is exchanged for.
ClaimOf(call) ==
    IF call.op = "exchange" THEN [kind |-> "ticket", id |-> call.id]
    ELSE IF call.op = "authorize" THEN [kind |-> "token", id |-> call.id]
    ELSE [kind |-> "none", id |-> None]

claims == [r \in Requests |-> ClaimOf(calls[r])]

Authority == INSTANCE SessionAuthority WITH
                 tickets <- pairingTickets, tokens <- signalingTokens

\* The service implements the credential authority: a token answers one
\* presented ticket and a relay one presented token, both only while the session
\* is live at the moment of the answer, and a session that fails or is burned
\* takes its tickets, tokens and relays with it in one step.
ImplementsAuthority == Authority!Spec
=============================================================================
