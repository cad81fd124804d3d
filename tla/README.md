# Fireball Docker in TLA+

Specifications of the control plane (`src/src/`) and of the session supervisor
(`src/session/`) of Fireball Docker, with TLC configurations that check them on
small instances and TLAPS proofs that hold for every instance. Paths below are
relative to the root that holds `src/` and `tla/`.

## The system

An orchestrator asks the **control plane** (a Node.js process) for browser
sessions. The control plane makes a network and a container for each session
through the Docker Engine. In the container a **supervisor** (Node.js) runs the
**native runtime** (C++, GStreamer and WPE), drives its tabs over a pair of pipes
and proxies WebRTC signaling. A client receives a pairing ticket, exchanges it
for a signaling token and connects to the control plane's **signaling gateway**,
which relays its WebSocket to the supervisor's **signaling proxy**.

```
 HTTP API --> session service --> runtime adapter --> Docker Engine --> container
                 |   ^                                                    |
           revoke|   |authorize                        supervisor: tab API, tab controller
                 v   |                                            |          |pipes
 client <--> signaling gateway <--> upstream connector <--> signaling proxy  native runtime
```

| Component | Source | State | Operations | Module |
|---|---|---|---|---|
| Session service | `src/src/domain/session-service.ts` | records, reservations, ticket and token maps, credentials per session | create, get, tab operations, issue and exchange a ticket, authorize a token, burn | `SessionService` |
| HTTP API, tab routes | `src/src/app.ts` | none | validation, authentication, answers and their codes | `TabApi` |
| Authenticators | `src/src/auth/` | none | development, OIDC | `TabApi`, `ControlPlane` |
| Connection registry, gateway | `src/src/signaling/connection-registry.ts`, `signaling-gateway.ts` | closers per session; one closure per client: phase, timer, abort signal, upstream | accept, frames, timer, connect, forward, shutdown, revoke | `SignalingGateway` |
| Upstream connector | `src/src/signaling/upstream-connector.ts` | per connection: promise, listeners, kept events, activation | connect, abort, keep, activate | `UpstreamConnector` |
| Docker runtime, transport | `src/src/runtime/docker-engine-*.ts` | nothing of its own but what a call in progress remembers; the engine has the rest | create with rollback, destroy, reconcile, health poll; tab requests | `DockerRuntime`, `TabApi` |
| In-memory runtime | `src/src/runtime/in-memory-runtime.ts` | tab lists | the tab operations | `TabApi` |
| Start-up, seccomp loader | `src/src/main.ts`, `src/src/runtime/seccomp-profile.ts` | how far the process is, the profile it read | check, load the profile, reconcile, listen | `ControlPlane` |
| Supervisor | `src/session/supervisor.mjs` | stage, exit code, configuration, the runtime it spawned | configure, read ICE servers, spawn, READY, listen, signals, shutdown, kill | `Supervisor` |
| Health check | `src/session/healthcheck.mjs` | none | the two probes | `Supervisor` |
| Signaling proxy | `src/session/supervisor.mjs` | the lease, per connection a phase, a timer and two sockets | connection, frames, socket events, close | `SignalingProxy` |
| Tab API of the supervisor | `src/session/supervisor.mjs` | none | authorization, body, operation, code | `TabApi` |
| Tab controller and driver | `src/session/tab-control.mjs` | tabs, active tab, operation chain, pending command and timer | create, activate, navigate, remove, reply, timeout, exit | `TabControl`; their effect in `TabApi` |
| Native runtime, command loop | `src/session/fireball-session-runtime.cc` | its tabs and the tab it shows | CREATE, ACTIVATE, NAVIGATE, REMOVE | in `TabControl` |
| Nginx deployment | `src/scripts/render-nginx-config.mjs`, `install-nginx-config.mjs` | lock, target, transaction directory | render, stage, validate, reload, roll back, clean up | `InstallNginx` |

Not modelled:

* the bubblewrap wrapper, which rewrites the arguments of one exec, and the
  generated type declarations: they have no state;
* the gates, the image checks and the candidate evidence (`src/scripts/`): linear
  scripts that start the system, probe it and compare text. What they assert was
  read as a statement of what the program promises;
* the GStreamer graph of the native runtime with the audio pads that its other
  threads announce: its behaviour is that of the library, of which the repository
  shows only the calls;
* the verification of a token, which is done by `jose`, and the parsing of HTTP
  responses, which is done by Node.js.

### What is hard in it, and what makes each part correct

* **Session service.** Every operation that matters awaits the runtime between
  reading and writing the maps, so creations, exchanges, authorizations,
  inspections that find the runtime lost, and burns interleave freely. Correct
  means: every credential that would be accepted can still be revoked; relays
  exist only for active sessions; the quota counts what is being created; the only
  containers without a record are those of creations that failed; a failed burn can
  be repeated; a call that is never answered by the engine holds up no other.
* **Gateway.** A client can close, time out, be revoked or send more frames
  between any two steps of its connection. Correct means: as long as the client
  is not shut down, a closer reaches its upstream socket; a shut down client
  stays shut down and leaves nothing; sockets end with their session.
* **Docker runtime.** Each call may fail, be executed after its caller has given up,
  or never return because its response was cut off, and the control plane may crash
  between any two. Correct means:
  rollback, removal and reconciliation leave nothing but what nobody could know.
* **Tabs.** Two processes have a copy of the tab list each; a command that timed
  out is executed later. Correct means: the copies agree when nothing was given
  up; no creation or removal is reported that did not happen; bounds hold anyway;
  every request ends unless the supervisor does, and shutdown too.
* **Proxy.** One controller at a time, two sockets that close at their own pace.
  Correct means: the lease and the connections agree, it is freed when a controller
  is silent, and closed connections stay closed.
* **Connector.** Frames, an end and an abort can come before the gateway takes the
  connection over. Correct means: nothing is lost or reordered, what is kept is
  bounded, and neither end outlives the other.
* **Tab requests.** The port on which a container was published may belong to
  another one, and an answer may be lost. Correct means: what the client is told
  happened in its own session, or it is told that nobody knows.
* **Life of a container.** The runtime may end or hang at any moment, the engine may
  stop or kill, and a start can fail after the spawn. Correct means: a session is
  handed out only when it is ready, an end of one part ends all, and the exit code
  does not hide it.
* **Start of the control plane.** The profile may be replaced while it is read, and
  other processes live on the same host. Correct means: nothing unsafe listens, no
  container runs unconfined, a start whose configuration is refused removes nothing,
  and none removes what another instance has made.
* **Nginx deployment.** Every system call may fail, the installer may be killed, two
  may run. Correct means: the report is true and a working configuration remains.

`PROJECT.json` lists each hazard at its line with the properties that cover it.

## Modules

* `SessionService` — an API call is a process with a Start action (up to its
  first await), an answer of the runtime adapter, and Resume actions (up to the
  next await or the end). `CutOff` is a response of the engine that never ends, with
  which the call never continues. A creation that fails, or is cut off, may leave a
  container, at once or later (`CreateLeaves`, `CreatedLate`); `abandoned` has the ids
  for which this is possible. The actions bear the names of the operations:
  `ExchangeStart`/`ExchangeResume` are the two halves of
  `exchangeSignalingTicket`, and `ResumeRuntimeLost` and `ResumeRefused` are the
  outcomes of `observeRuntime`. The helpers `MayReserve` (`reserve`), `revokeCredentials`,
  `rotateSignalingTicket`, `revokeSignalingConnections` and, for the constructor's checks,
  `validateQuota`, `validateHostCapacity` and `fitsWithin` stand for the methods of
  those names.
* `SessionAuthority` — what the service promises about credentials, without the
  runtime and the maps: claims, grants, and an end of the session that takes
  everything in one step. `SessionService` implements it (`ImplementsAuthority`)
  by the mapping at its end: `live` is the set of active sessions, a call that
  has presented a credential is a claim.
* `SignalingGateway` — one record per client for the variables captured by
  `handle()`, with the attempts to authenticate numbered, since the code can have
  several at once. Its environment is the authority of `SessionAuthority`
  (`Revoke` ends a session, `Authorized` is granted for live ones);
  `FollowsAuthority` checks the gateway's steps against the same module, so the
  two specifications meet there.
* `UpstreamConnector` — one relay, event by event: which listeners a socket has when
  an event comes, the events kept until `activate`, the abort signal, the gateway's
  continuation and the burn. What `SignalingGateway` has as a socket that is
  "connecting", "ready" or "lost" is here the promise, the socket and the kept
  events.
* `DockerRuntime` — each engine call is one step that succeeds, is refused, or
  times out and leaves its request in `late`, from where the engine may execute
  or drop it; or its response is cut off (`CutOff`), and the job stays where it is
  (`createHung`, `destroyHung`). `job` is the position in `create`/`destroy`; `plane` and
  `todo` are `reconcile` and `main`.
* `TabApi` — one request is answered in one step by operators that bear the names
  of the functions it passes: the route in `app.ts`, `authenticate`,
  `activeRuntime`, the control request of `DockerEngineRuntime`, `handleTabRequest`
  of the container that listens on the port, and back. `InMemory` is the adapter
  of the tests on the same lists; `Cleared` is the list without an active tab that it
  leaves when it refuses the URL of a creation.
* `TabControl` — `waiting` is the promise chain of `#serialize`, `current` the
  pending command of the driver, `stdin` and `stdout` the pipes, `native` the
  other process. `Complete` is what an operation does after its command. A write to a
  process that has ended unseen (`WriteFails`) raises an error that nothing listens to,
  and the supervisor has `ended`.
* `SignalingProxy` — the lease, its connections and every socket event; a first frame
  is known by what `parseAuthenticationFrame` looks at. A client that is `refused` has no
  listener but the one its closing brings.
* `Supervisor` — extends `SignalingProxy` with the life of the container around it:
  `stage` is the position in `main` and `shutdown`, `runtime` the child process,
  `health` the engine's verdict on the probes, `created` the control plane that
  waits for it. The proxy's steps take place while the server listens. The failure of
  a refused client is an uncaught error (`RefusedClientFails`).
* `ControlPlane` — `process` is the position of each process in `main.ts`, with the
  two `stat`s and the read of the seccomp loader as steps of their own, `files` and
  `path` what is at the path of the profile, `containers` what the processes of one
  host have made. Of the configuration the model has what a property depends on: mode,
  host, authentication, origins, profile; the other checks of the constructors are a
  start that may be refused in any case.
* `InstallNginx` — `acquireDeploymentLock` begins a deployment; `installer[i].pc` is the
  system call that comes next; each may fail, and the installer may be killed before
  it. `good` is a history variable: the configurations an operator may rely on finding.
* `*Proofs` — the theorems; `SupervisorProofs` also has those of `SignalingProxy`, and
  `SignalingProofs` those of the gateway and of the connector.
* `MC*` — values and symmetry sets for TLC.

Operators whose names have a suffix after an underscore and the comment "Defect
variant" (`MayReserve_RecordsOnly`, `Connected_Unchecked`, ...) are not used by the
specifications. Each is a plausible mistake in the definition it precedes, and
shows that the property which fails with it depends on the code.

Some properties are conjunctions of named parts about one hazard:
`RegistryIsExact` is `UpstreamIsRevocable` and `ClosedLeavesNothing`; `TabsAreSound` is
`OneToMaximumTabs` and `SameTabs`; `CallsSettle` is `EveryCallReturns` and `BurnSettles`;
`RelaysEnd` is `AuthenticationEnds` and `SocketsEndWithSession`; `ConnectionsEnd` is
`LeaseIsFreed` and `SocketsEnd`.

### Assumptions of the models

* Node.js runs what is between two awaits without interruption, so it is one
  step. In the gateway, the connector and the proxy each event handler is one step.
  Two microtasks of one macrotask are separate steps, which allows at least the real
  interleavings.
* Random identifiers come from finite sets; a name is fresh when nothing in the
  state refers to it. A name that is free again stands for a new one, so runs do
  not end. A credential or command number that a call may need is drawn when the
  call starts, which only makes fewer names available to others.
* Time appears as expiry (`Expire`) and as timers that may fire at any moment
  while armed.
* Strings, files, tokens and environments are known by the class that the checks of
  the code tell apart (`Urls`, `Documents`, `OidcOptions`, ...).
* `TabControl` leaves out URLs, which change nothing but the page of a tab; an
  operation may be refused because of its URL. The URLs are in `TabApi`.
* In `SessionService` a `create` that fails may or may not have left a container; when the
  rollback leaves none is the subject of `DockerRuntime`.
* A response can be cut off at every engine call whose response has a body. The tab
  requests to the supervisor go through another function, which hears of it.
* In `Supervisor` a tab request is one whose bytes have all arrived. One that stalls
  half-way would hold the closing server until its connection ends.
* In `SignalingGateway` an abort of a socket in its handshake ends the attempt and
  nothing else. `UpstreamConnector` shows that it ends the process (below), which
  takes every client's relay with it; the gateway's properties are about a
  process that lives.

## Runs

Ten runs must pass. Two check a sentence of the repository that the code does not
keep.

| Run | Instance | What it shows |
|---|---|---|
| `session` | 1 tenant, 1 session, 2 credentials, 3 calls | the credentials and relays of a session, the reason for each change of its phase, the refinement of `SessionAuthority`, and that every call that is not cut off is answered and a burn settles, with burn, exchange, rotation and inspection interleaving |
| `session_quota` | 3 tenants, 3 sessions, 2 calls; memory for two sessions | `WithinQuota` at the tenant's and the host's limit, and that only a creation that failed or was cut off leaves a container behind (`NoOrphanContainer`) |
| `gateway_relay` | 2 clients, 2 sessions, 1 frame each | revocability, no relay after the session, no revival, clean-up, liveness, `FollowsAuthority` |
| `upstream_connector` | 16 events as 6, 7 frames of 1 or 2 units | order and completeness of the frames, the two limits, that an end is noticed on both sides |
| `docker_lifecycle` | 2 sessions, 2 health polls | rollback, destroy, reconciliation with crashes, bounded jobs with the exception of a response that is cut off |
| `tab_control` | 2 callers, 3 ids, 2 command numbers, 2 tabs | agreement of the tab lists, true success, bounds, termination |
| `tab_api` | 2 sessions, 5 ids, 3 tabs | true answers, accepted lists, no access to another session's tabs, agreement of the two adapters but for the list after a refused creation |
| `supervisor` | 2 connections | the lease, finality, readiness, exit code, and that every part's end ends the container |
| `control_plane` | 2 processes, 2 instances, 1 container, 2 files, 1 change | nothing unsafe listens, no container is unconfined, nobody reaps another instance's containers |
| `install_nginx` | 2 installers | true reports, no lost configuration |
| `gateway_frames` | 1 client, 2 sessions, 2 frames | violated: `RelayOnlyWhileLive` |
| `upstream_abort` | as `upstream_connector` | violated: `BurnEnds` |

Why the bounds are enough.

* The rules of credentials and relays concern one session at a time, and sessions
  share no map entry; what interferes are the calls on one session, and three of
  them contain every pair with a bystander (two burns and an authorization, an
  exchange, a rotation and a burn). Two credentials are one that is presented and
  one that is minted meanwhile. The quota is about several tenants and needs a
  third session to refuse.
* Two clients and two sessions make the gateway's registry distinguish both. A
  client sends one well-formed authentication frame; with two the properties about
  sessions fail, which is what `gateway_frames` reports.
* In `upstream_connector` the two limits are scaled down together, so that six small
  frames meet the limit in number and four large ones and a small one the limit in
  bytes; the seventh is the one for which there is no room.
* The Docker jobs of two sessions meet only in `reconcile`, whose loop then has two
  elements.
* With `MaximumTabs` 2 and three tab ids a full list, a free id and a late CREATE
  exist together; two command numbers allow one in the pipe and one pending. The
  limit of `TabApi` is 3 of the code's 4: a list that is empty but for one, one in
  the middle and a full one; two sessions of five ids are one that asks and one
  whose container may listen on its port.
* Two connections of the proxy are one with the lease and one that comes or goes
  beside it; the theorems about the proxy hold for any number.
* Two processes are one that starts and one that serves, of the same instance or of
  two; two files are the one being read and its replacement, and one change in
  place comes before, during or after the read. A second change would only undo
  or repeat it: `ctime` grows with each.
* Two installers are one in its transaction and one that finds its lock or its
  remains.

The session runs do not check for deadlock: when the responses to all calls are cut
off, every caller waits for ever, which is what the code does. `session_quota` leaves
out the states with an expired credential or a relay (`NoExpiryNorRelay`), which have
no part in quotas and containers.

`KeptIsBounded` bounds messages and their bytes; errors and the close are kept besides.
`ContainersAreConfined` rests on the checksum of the text that was read: neither the
check of the file's owner nor the comparison of the two `stat`s is needed for it.
`ExitCodeTells` accepts zero whenever a stop was asked for, also when the runtime had
ended a moment before. `ClosedIsFinal` has a mutant with which the library opens a
socket that was terminated; without such an opening the check in the `open` handler
is redundant.

`tab_control`, `docker_lifecycle`, `supervisor` and `install_nginx` contain give-ups,
crashes, kills and late executions in full; their properties say what is still
true then.

### Fairness

* `SessionService`: each adapter call is answered or cut off, and the event loop runs
  the continuation of what was answered. The transport arms a timeout on every request,
  which ends those whose response has not begun; a response that has begun ends, or is
  cut off (`CutOff`), with which the call's fairness ends: `CallsSettle` promises nothing
  for that call, and everything for the others. Clients, containers and clocks owe
  nothing.
* `SignalingGateway`: the authentication and connect timers fire, authorizations
  are answered, "close" events arrive. Nothing is assumed of clients or runtimes.
* `UpstreamConnector`: the connect timer or an event ends the handshake, the
  continuations run, the library closes a socket that was terminated, the engine
  answers the cleanup. Nothing is assumed of the client or of open sockets.
* `DockerRuntime`: each step of a job ends by the same timeout, or its response is cut
  off and the job takes no further step.
* `TabControl`: the supervisor's loop and timers run as long as it lives. The native
  runtime has no fairness: it may hang, and `OperationsEnd` and `ShutdownCompletes` hold
  by the command timer and the kill timer. A write that comes before the exit of the
  runtime is seen ends the supervisor; the operations of that moment are not answered.
* `Supervisor`: its own continuations and timers run (READY or its timer, the exit
  handler, the kill timer), a socket that is closing is closed within the second
  after which `closeSocket` terminates it, and a tab request that a closing server
  waits for settles, which is what `OperationsEnd` of `TabControl` shows. A process
  that was sent SIGKILL ends. Nothing is assumed of the runtime, the engine or clients.

### Where code and documents differ

Two runs report a sentence of the repository's documents that does not hold:

1. **A socket that no closer reaches** (`gateway_frames`). A second
   authentication frame during the first's authorization starts a second
   connection and overwrites the first's socket and registration; a burn leaves
   the first one open.
2. **A burn that ends the control plane** (`upstream_abort`). `fail()` removes its
   error listener before it terminates the socket. When the socket is still in its
   handshake, the library raises an error event in the next tick, which nobody
   listens to.

Seven more properties are stated in the modules and fail for their own
configurations, which are kept for the reader (`tlc -config X.cfg M`):

3. **A burned session comes back** (`BurnedStaysGone`, `SessionServiceDoubleBurn.cfg`,
   `MCSessionService`). Of two burns of one session one succeeds and deletes the
   record; if the other's `destroy` fails later, its catch block stores the record
   again. The isolation test expects 404 after 204.
4. **Two outstanding credentials** (`SingleOutstandingCredential`,
   `SessionServiceRotation.cfg`, `MCSessionService`). A ticket issued while an exchange
   awaits the runtime does not stop the exchange from minting its token, although the
   README says that issuing invalidates older ones.
5. **A creation that is not transactional** (`CreateTransactional`,
   `DockerRuntimeLostReply.cfg`, `MCDockerRuntime`). When the engine creates the network
   or the container after the control plane has stopped waiting, nothing removes it
   until the next start.
6. **An activation that shows another tab** (`ActivationSelects`,
   `TabControlActivation.cfg`, `MCTabControl`). A CREATE that timed out and is executed
   later changes what the native runtime shows; activating the tab that the
   controller believes active is then answered without a command.

7. **A call that is not bounded** (`EveryCallIsBounded`, `SessionServiceCutOff.cfg`,
   `MCSessionService`). `src/README.md:85` says that the request timeout bounds each Docker
   Engine call. The transport listens for "data" and "end" of a response; when the engine
   closes the connection in between, the promise is never settled, and a creation keeps
   its reservation, a burn its phase.
8. **Containers that no quota counts** (`HostWithinQuota`, `SessionServiceResidue.cfg`,
   `MCSessionService`). `src/README.md:20` says that the limits of the host include starts
   that are pending. A failed creation releases its reservation also when its rollback
   has failed or the engine has yet to execute it, and what is left is not counted.
9. **A start that removes running sessions** (`RunningSessionsSurviveStarts`,
   `ControlPlaneSharedInstance.cfg`, `MCControlPlane`). `main.ts` reconciles before it
   listens, so a second process with the same instance id removes the sessions of the
   first although it then finds its port taken. `src/README.md:85` warns of two processes
   that share an id; a second start by mistake is such a process.

Smaller observations, which the models contain as the code has them:

* The two adapters of `TabApi` differ on the requests that `Plain` excludes: the
  file route of the packaged home page, a URL that normalization makes longer than
  the limit, a URL that fits the API and not the internal body (503 instead of 400),
  and a tab id in upper case or with its urn prefix (503 instead of 404). A
  creation that the in-memory adapter refuses for its URL leaves it without an
  active tab.
* A body that is no JSON is answered with 500 RUNTIME_FAILURE.
* A start of the supervisor that fails after the spawn sets the exit code and lives on
  until the runtime ends.
* The Nginx installer takes a link that leads nowhere for no file; a rendering that
  was refused leaves an empty candidate, which the next line of the document
  installs; a clean-up that fails after a good reload is reported as "rollback
  incomplete" although the new configuration is live; a killed installer leaves a
  lock that an operator must remove.

## Proofs

All theorems hold for every value of the constants that the named assumptions
allow. Each theorem follows the same argument: an inductive invariant, a lemma that the
initial states satisfy it, one that every step keeps it, and the step from it to
the property.

`SessionServiceProofs`, for all sets of tenants, sessions,
credentials and calls, from `NoneAssumption` (null is not an id), `QuotaAssumption`
(what the constructor validates) and, for the quota only, `FiniteAssumption`:

* `TypeCorrect`: the type invariant;
* `CredentialsAreRevocable`, `RelaysEndWithSession`, `BurningIsInProgress`,
  `ContainersAreOwned`: the safety invariants of the session runs;
* `PhasesFollowTheirCalls`: a phase changes only for the call the change belongs to;
* `QuotaIsKept`: the tenant's and the host's limits;
* `ServiceImplementsAuthority`: `Spec` implies `SessionAuthority`'s `Spec`.

The inductive invariant `IInv` is the conjunction of the type invariant, these four
safety invariants, what a call in progress relies on (`CallsAgreeWithRecords`), and that
a creation which left something behind never had a record (`AbandonedNeverBegan`). None
is inductive alone: that a credential belongs to an
active session is lost when a burn deletes the record, unless nothing makes the
session active while a burn is in progress (`CallsAgreeWithRecords`), which needs
that a creation is alone on its session, hence that its id is fresh. A burn that the
runtime has confirmed left no container because none can still come of a failed
creation of that id. Each conjunct
has a lemma with one step for each action that can disturb it. The quota is proved on
top of `IInv`: only `CreateStart` adds to what is held, by one session, after it
has counted records and reservations; the arithmetic is in `Monotone`,
`FewerFit` and `OneMore`. The late burn above is why `Held` leaves out ids
whose burn was answered. The refinement needs three further facts (`RInv`): the hashes
a session lists are in the maps, only active sessions have credentials, and the
credential a call may mint is used nowhere else. With them each action is shown to be
one step of the authority or a stutter, in the table of steps at the end of the module.

`SignalingProofs`, about the gateway, for all sets of clients and sessions (`FramesAssumption`,
`NoSessionAssumption`):

* `SocketsStayRevocable`: `UpstreamIsRevocable`, for any number of authentication
  frames. Its invariant is `Covered`: a client that is not aborted has every attached
  socket in its registry, and a closed one is aborted.
* `RegistryStaysExact`, `RelaysLiveWithSession` and `LateAnswersReviveNobody`:
  `RegistryIsExact`, `RelayOnlyWhileLive` and `NoRevival`, with the hypothesis
  `MaxFrames = 1`, without which they are false (`gateway_frames`). Their invariant
  `SInv` adds what the stage of the attempt tells about its socket and registration
  (`Consistent`), what each phase tells about the rest (`PhaseTells`), and that what is
  registered belongs to a live session (`Granted`). An authorization that arrives
  after a shutdown finds a client that is aborted, whose attempt can only end as
  rejected; so no relay begins for it.
* `GatewayFollowsAuthority`: `FollowsAuthority`, with the same hypothesis. What the
  authority sees of a connection is its token, its claim and its relay (`ClaimOf`,
  `RelayOf`); a step that changes one connection is quiet, or presents, grants or
  denies (`QuietStep`, `PresentedStep`, `GrantedStep`, `DeniedStep`), a shutdown hangs up
  at most (`ShutdownSeen`), and `Revoke` is the authority's `End` (`RevokeSeen`). Together
  with `ServiceImplementsAuthority` both sides of the interface are proved against the
  same module.

The first part of `SupervisorProofs` proves, for every set of connections (`NoConnectionAssumption`:
undefined is not one), the proxy's type invariant (`ProxyTypeCorrect`),
`LeaseIsExclusive`, `OnlyAuthenticatedRelay` and `ClosedStaysClosed`. Its invariant `PInv`
adds to the checked properties that an authenticating connection has no upstream
socket yet and that a closed one has none in its handshake (`Sound`); without the
second a late `open` event could put an open socket under a closed connection.
Each event changes one connection, so `UpdateKeeps` reduces a step to that
connection's soundness and its agreement with the lease.

The second part carries `PInv` through the life of the container
(`ProxyIsSafeInContainer`, `ClosedStaysClosedInContainer`) and proves `ExitCodeIsHonest`
and `OnlyReadySessionsAreUsed`. The invariant relates the stage to the exit code
(`CodeAgrees`), to the configuration the runtime was spawned with
(`ConfigurationAgrees`), and READY to everything that can only follow it
(`ReadinessAgrees`).

`ControlPlaneProofs`, from `ControlPlaneAssumption`: `ControlPlaneListensSafely`,
`ContainersRunConfined`, `OthersKeepTheirContainers`. The invariant says of each
process what has been checked when it has come to its stage (`Checked`); that the
profile is the reviewed one is established by the checksum over what was read, so
nothing needs to be known of the files. `OthersKeepTheirContainers` is about other
instances; within one instance the start of a second process does remove the sessions
of the first (9. above).

`InstallNginxProofs`, for any number of installers, without assumptions:
`InstallerReportsTruly`, `InstallerLosesNothing`. The invariant says that at most one
installer has begun (`Exclusive`), what the target, the running configuration and the
backup are at each of its system calls (`Sound`, with `Placed` and `BackedUp`), and
that each good configuration is somewhere else than at the target whenever the
next call may overwrite it.

`DockerRuntimeProofs`, for any number of sessions and of health polls
(`HealthAssumption`): `RollbackIsComplete`, `DestroyedIsGone`, `ListensOnlyClean`, and the
type invariant. The difficulty is what the engine may still do for a request that
nobody waits for. The invariant says of each session which late requests can exist at
the position of its job and what its `containerCreated` flag tells of them
(`Positions`: a late creation belongs to a job that has given it up, a late start to a
job whose container was created), what the position tells of the resources
(`Leavings`), and that a reconciliation without a failure still has in `todo` what it has
not removed (`Reconciled`). A job's step is reduced by `CallStep` to its own session,
an engine's by `EngineStep`.

`TabControlProofs`, for all callers, tab ids and command numbers and every limit the
native runtime allows (`MaximumTabsAssumption`, `InitialTabAssumption`, `NoTabAssumption`):
`TabsStaySound`, `SuccessIsHonest` and the type invariant. The difficulty is that two
processes change two lists through pipes, and that a command which timed out is
executed, and answered, later. The invariant `IInv` says that

* those who wait for an answer are in the chain or have the pending command, each
  once (`Chained`), with numbers and new ids of their own (`Asked`);
* of the commands that somebody waits for only the pending one is in the pipes, and
  it is the last one written (`Piped`). So when its reply is at the head of `stdout`,
  nothing has been executed since, and what it reports is still so. This is all that
  `SuccessIsHonest` needs, and it does not ask that no command was given up. The theorem
  is about creations, removals and activations that send a command: that of the tab
  which the controller believes active sends none (6. above), and a navigation changes
  nothing that is modelled;
* the checks made before the command was written hold until its reply
  (`Admitted`), which keeps the controller's list within its limits (`ListSound`,
  and `NativeSound` for the other side, by its own checks);
* while no command was given up, the native runtime is where the controller is
  or, between execution and reply, exactly one command ahead (`Together`, `Ahead`).

`IInv` was checked with TLC on the states of `tab_control` before it was proved. The
proof has one lemma for each step (`AskHolds`, `SendCommandHolds`, ...); `Complete`,
which is part of the handling of a reply, is described once by `CompletedIs`.

`TabApiProofs`, for all sessions, ids and limits, from `TabApiAssumption` and
`NoAnswerAssumption` (no answer is null): `ListsStayAccepted`, `AnswersStayTrue`,
`OwnTabsOnly` and `AdaptersStayAgreed`. The only invariant is that the lists are tab
lists (`Listed`); the work is in the operators. `Honest` says of one operation of the
controller that it refuses for a reason that holds and changes nothing, or has the
effect and the status that its name promises. It is shown for each operation
(`CreateHonest`, ...), carried through the supervisor's server (`HandleHonest`) and the
adapter's translation of codes (`AnswerHonest`), and makes the `Outcome` of each route.
For `AdaptersStayAgreed` both implementations of each operation are compared on an
arbitrary list (`CreateAgrees`, ..., `DeleteAgrees`); that of a deletion has to show that
filtering the list of views and raising the first one is the view of the shorter
list with its fallback. The theorem names the one difference: after a creation that
was refused for its URL the in-memory list has lost its active flag.

The last part of `SignalingProofs`, about `UpstreamConnector`, for all limits and any
number of frames (`ConnectorAssumption`): `FramesStayInOrder` and `BufferStaysBounded`. The
invariant `KInv` says that the first kept events, as long as they are messages, are the
first frames; that while nothing but messages is kept they are all the frames; and that
a relay has delivered all of them. So what does not fit cannot leave a gap: the error
that is kept in its place ends the dispatch. That `Bytes` is a sum (`BytesAppend`)
needs an induction, for which the library's theorems cannot be used: it is done
by the least number for which the claim fails (`LeastIs`, `TotalsExist`, `TotalsAgree`).

Only model-checked: all liveness (out of the prover's reach), and `ActivationSelects` and
the other properties that fail.

## Plan

Done in this order: session service, its abstract specification and proofs; gateway;
Docker runtime; tabs; proxy; upstream connector; tab requests; the supervisor's life;
start of the control plane; Nginx deployment; proofs about the last three, the gateway
and the Docker runtime; proofs about the tabs, the tab requests and the
upstream connector.

What could follow:

* `SignalingPath`: gateway, connector and proxy composed, for a client that reconnects
  while its former relay still has the lease.
* `SessionService` over `DockerRuntime`: what a failed or unanswered creation
  means for the host's quota.
* The native runtime's audio pads, once the library's threads are known well
  enough to model them.
* A proof that `UpstreamConnector` is what `SignalingGateway` takes for a socket, as
  long as the process lives.
