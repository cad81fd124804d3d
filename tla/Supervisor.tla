----------------------------- MODULE Supervisor -----------------------------
(***************************************************************************)
(* The life of a session container: the start and the shutdown of          *)
(* src/session/supervisor.mjs around its signaling proxy, the native       *)
(* runtime it spawns, the probes of src/session/healthcheck.mjs that the   *)
(* engine runs, and the control plane that waits for the first good one.   *)
(* The supervisor is process 1 of the container.                           *)
(*                                                                         *)
(* The variables and the steps of the proxy are those of SignalingProxy,   *)
(* which take place once the server listens.  A tab request is here only   *)
(* something that the closing server waits for; what it does is the        *)
(* subject of TabApi and TabControl.                                       *)
(***************************************************************************)
EXTENDS SignalingProxy

VARIABLES
    stage,          \* how far main and shutdown are
    exitCode,       \* process.exitCode, or the code the process ended with
    configuration,  \* what parseConfiguration made of the environment, or None
    runtime,        \* the native runtime process
    announced,      \* it has printed READY
    exitSeen,       \* the exit event of the runtime has been handled
    request,        \* a tab request waits for the runtime
    stopAsked,      \* the engine has sent SIGTERM
    health,         \* the engine's verdict
    created         \* the control plane has seen the container healthy

life == <<stage, exitCode, configuration, runtime, announced, exitSeen, request,
          stopAsked, health, created>>
all  == <<vars, life>>

\* "failed": main has rejected; the process lives on while the runtime does.
Stages == {"configuring", "reading", "configured", "waiting", "serving", "closing",
           "stopping", "failed", "ended"}

\* "signalling": the port of the signaling server is open, READY not yet printed.
Runtimes == {"none", "launching", "signalling", "running", "terminated", "ended"}

Urls == [scheme : {"http", "packaged", "file", "other"}, credentials : BOOLEAN,
         long : BOOLEAN]

Environments == [secret : {"valid", "malformed"}, profile : {"known", "unknown"},
                 url : Urls,
                 ice : {"unset", "mounted", "elsewhere"}]

\* What a file of ICE servers holds: "torn" when it is being written; valid says
\* that every TURN server and the STUN server pass their own checks.
Documents == [fields : {"expected", "other", "torn"}, version : 1..2, turnServers : 0..5,
              unique : BOOLEAN, valid : BOOLEAN, policy : {"all", "relay", "other"}]

Alive   == stage # "ended"
Started == runtime \notin {"none", "ended"}
Listens == stage \in {"serving", "closing", "stopping"}

\* main rejects: its catch sets the code, and nothing ends the runtime.
StartupFails == stage' = "failed" /\ exitCode' = 1

\* The process is gone with its sockets and, being process 1, with the runtime.
Ended(code) ==
    /\ stage' = "ended" /\ exitCode' = code
    /\ runtime' = IF runtime = "none" THEN "none" ELSE "ended"
    /\ health' = "unhealthy" /\ request' = FALSE
    /\ conn' = [k \in Connections |-> Gone] /\ activeLease' = None /\ accepting' = FALSE

-----------------------------------------------------------------------------
(* Start                                                                   *)

\* The one file that may be opened is the packaged home page.
validateStartUrl(url) == ~url.credentials /\ url.scheme \in {"http", "packaged"}

parseConfiguration(env) ==
    /\ env.secret = "valid" /\ env.profile = "known" /\ validateStartUrl(env.url)
    /\ env.ice # "elsewhere"

\* A file of ICE servers that is named is opened, and its metadata looked at.
Configure ==
    /\ stage = "configuring"
    /\ \E env \in Environments, safe \in BOOLEAN :
          IF parseConfiguration(env) /\ (env.ice = "mounted" => safe)
          THEN /\ configuration' = [long |-> env.url.long, ice |-> "none"]
               /\ stage' = IF env.ice = "mounted" THEN "reading" ELSE "configured"
               /\ UNCHANGED exitCode
          ELSE StartupFails /\ UNCHANGED configuration
    /\ UNCHANGED <<vars, runtime, announced, exitSeen, request, stopAsked, health,
                   created>>

parseIceServerConfiguration(document) ==
    /\ document.fields = "expected" /\ document.version = 1
    /\ document.turnServers \in 1..4 /\ document.unique /\ document.valid
    /\ document.policy \in {"all", "relay"}

\* The operator may write the mounted file in place at any time, also between the
\* look at its metadata and the read.
ReadIceServers ==
    /\ stage = "reading"
    /\ \E document \in Documents :
          IF parseIceServerConfiguration(document)
          THEN /\ configuration' = [configuration EXCEPT !.ice = document.policy]
               /\ stage' = "configured"
               /\ UNCHANGED exitCode
          ELSE StartupFails /\ UNCHANGED configuration
    /\ UNCHANGED <<vars, runtime, announced, exitSeen, request, stopAsked, health,
                   created>>

\* The directories, preflight, runtimeArguments (which refuses a URL that is too
\* long) and spawn.
Spawn ==
    /\ stage = "configured"
    /\ \/ ~configuration.long /\ stage' = "waiting" /\ runtime' = "launching"
          /\ UNCHANGED exitCode
       \/ StartupFails /\ UNCHANGED runtime
    /\ UNCHANGED <<vars, configuration, announced, exitSeen, request, stopAsked, health,
                   created>>

RuntimeProgress ==
    /\ \/ runtime = "launching" /\ runtime' = "signalling"
       \/ runtime = "signalling" /\ runtime' = "running"
    /\ announced' = (runtime' = "running")
    /\ UNCHANGED <<vars, stage, exitCode, configuration, exitSeen, request, stopAsked,
                   health, created>>

\* READY has been read: waitUntilReady returns, the server listens, and main
\* registers its handlers, all in one turn of the event loop; or the port is taken.
\* The runtime may have ended by then, if its exit event comes later.
Ready ==
    /\ stage = "waiting" /\ announced /\ ~exitSeen
    /\ \/ stage' = "serving" /\ UNCHANGED exitCode
       \/ StartupFails
    /\ UNCHANGED <<vars, configuration, runtime, announced, exitSeen, request,
                   stopAsked, health, created>>

\* Defect variant: the server listens without READY.
ReadyTimeout_Listens ==
    /\ stage = "waiting" /\ stage' = "serving"
    /\ UNCHANGED <<vars, exitCode, configuration, runtime, announced, exitSeen, request,
                   stopAsked, health, created>>

\* Thirty seconds without READY.
ReadyTimeout ==
    /\ stage = "waiting" /\ StartupFails
    /\ UNCHANGED <<vars, configuration, runtime, announced, exitSeen, request,
                   stopAsked, health, created>>

-----------------------------------------------------------------------------
(* The runtime fails                                                       *)

\* A GStreamer error, the end of the stream, a crash, or a signal has ended it.
RuntimeEnds ==
    /\ Started /\ Alive
    /\ runtime' = "ended"
    /\ UNCHANGED <<vars, stage, exitCode, configuration, announced, exitSeen, request,
                   stopAsked, health, created>>

\* A line that is no reply: #fail of the driver sends SIGTERM.
MalformedOutput ==
    /\ runtime \in {"launching", "signalling", "running"} /\ Alive
    /\ runtime' = "terminated" /\ request' = FALSE
    /\ IF stage = "waiting" THEN StartupFails ELSE UNCHANGED <<stage, exitCode>>
    /\ UNCHANGED <<vars, configuration, announced, exitSeen, stopAsked, health,
                   created>>

\* shutdown, up to proxy.close.
Shutdown == Close /\ stage' = "closing"

\* Defect variant: the end of the runtime is taken for a regular one.
HandleExit_Zero ==
    /\ runtime = "ended" /\ ~exitSeen /\ Alive
    /\ exitSeen' = TRUE /\ request' = FALSE
    /\ CASE stage = "serving" -> Shutdown /\ exitCode' = 0
         [] stage = "waiting" -> StartupFails /\ UNCHANGED vars
         [] OTHER -> UNCHANGED <<vars, stage, exitCode>>
    /\ UNCHANGED <<configuration, runtime, announced, stopAsked, health, created>>

\* "exit", or "error" when it could not be launched: the driver rejects what
\* waits for the runtime, and main shuts down unless it has begun to.  The code
\* that shutdown was given is set here, although it comes to be so at its end.
HandleExit ==
    /\ runtime = "ended" /\ ~exitSeen /\ Alive
    /\ exitSeen' = TRUE /\ request' = FALSE
    /\ CASE stage = "serving" -> Shutdown /\ exitCode' = 1
         [] stage = "waiting" -> StartupFails /\ UNCHANGED vars
         [] OTHER -> UNCHANGED <<vars, stage, exitCode>>
    /\ UNCHANGED <<configuration, runtime, announced, stopAsked, health, created>>

-----------------------------------------------------------------------------
(* Requests, the proxy, and the shutdown                                   *)

\* A tab request is accepted and its command written.
RequestArrives ==
    /\ stage = "serving" /\ accepting /\ ~request
    /\ runtime # "ended"
    /\ request' = TRUE
    /\ UNCHANGED <<vars, stage, exitCode, configuration, runtime, announced, exitSeen,
                   stopAsked, health, created>>

\* A command, SHUTDOWN among them, is written to a runtime whose end has not been
\* seen: nothing listens to the error of its stdin, which ends the process.
WriteFails ==
    /\ stage \in {"serving", "closing"} /\ runtime = "ended" /\ ~exitSeen
    /\ Ended(1)
    /\ UNCHANGED <<configuration, announced, exitSeen, stopAsked, created>>

\* The runtime answers, or the command times out.
RequestSettles ==
    /\ request /\ Alive
    /\ request' = FALSE
    /\ UNCHANGED <<vars, stage, exitCode, configuration, runtime, announced, exitSeen,
                   stopAsked, health, created>>

\* A step of the proxy.
ProxyStep(step) == Listens /\ step /\ UNCHANGED life

\* A client that was refused fails, by a frame against the protocol or a broken
\* connection, before it is closed: the error that nobody listens to ends the
\* process.
RefusedClientFails ==
    /\ Listens /\ \E k \in Connections : conn[k].refused
    /\ Ended(1)
    /\ UNCHANGED <<configuration, announced, exitSeen, stopAsked, created>>

\* The engine sends SIGTERM; process 1 has no default action for it.
Stop ==
    /\ ~stopAsked /\ Alive
    /\ stopAsked' = TRUE
    /\ IF stage = "serving" THEN Shutdown /\ exitCode' = 0 ELSE UNCHANGED <<vars, stage, exitCode>>
    /\ UNCHANGED <<configuration, runtime, announced, exitSeen, request, health,
                   created>>

\* proxy.close returns: no client and no request is left.  The runtime is told to
\* end and, when it has not been seen to, a timer is set.
Closed ==
    /\ stage = "closing"
    /\ ~request /\ \A k \in Connections : conn[k].client = "closed"
    /\ runtime = "ended" => exitSeen
    /\ stage' = "stopping"
    /\ UNCHANGED <<vars, exitCode, configuration, runtime, announced, exitSeen, request,
                   stopAsked, health, created>>

\* Defect variant: the runtime is only asked to end.
KillTimer_Waits ==
    /\ stage = "stopping" /\ Started
    /\ UNCHANGED all

\* The runtime obeys, or three seconds later SIGKILL ends it.
KillTimer ==
    /\ stage = "stopping" /\ Started
    /\ runtime' = "ended"
    /\ UNCHANGED <<vars, stage, exitCode, configuration, announced, exitSeen, request,
                   stopAsked, health, created>>

\* Nothing keeps the event loop alive.
ProcessEnds ==
    /\ stage \in {"failed", "stopping"} /\ runtime \in {"none", "ended"}
    /\ Ended(exitCode)
    /\ UNCHANGED <<configuration, announced, exitSeen, stopAsked, created>>

\* The engine kills the container: its patience with SIGTERM ends, or a rollback,
\* a burn or a reconciliation removes it by force.
Kill ==
    /\ Alive /\ Ended(137)
    /\ UNCHANGED <<configuration, announced, exitSeen, stopAsked, created>>

-----------------------------------------------------------------------------
(* Health                                                                  *)

\* Both ports accept a connection.
probe == accepting /\ Listens /\ runtime \in {"signalling", "running", "terminated"}

\* The engine runs the probe; unhealthy after six that failed.
Probe ==
    /\ Alive
    /\ health' \in IF probe THEN {"healthy"} ELSE {health, "unhealthy"}
    /\ UNCHANGED <<vars, stage, exitCode, configuration, runtime, announced, exitSeen,
                   request, stopAsked, created>>

\* waitForHealthy returns.
CreateReturns ==
    /\ ~created /\ health = "healthy"
    /\ created' = TRUE
    /\ UNCHANGED <<vars, stage, exitCode, configuration, runtime, announced, exitSeen,
                   request, stopAsked, health>>

-----------------------------------------------------------------------------
SupervisorInit ==
    /\ Init
    /\ stage = "configuring" /\ exitCode = 0 /\ configuration = None
    /\ runtime = "none" /\ announced = FALSE /\ exitSeen = FALSE /\ request = FALSE
    /\ stopAsked = FALSE /\ health = "starting" /\ created = FALSE

ProxyEvent(k) ==
    \/ Connect(k)
    \/ AuthenticationFrame(k) \/ RefusedFrame(k) \/ ClientFrame(k)
    \/ AuthenticationTimeout(k)
    \/ ClientCloses(k) \/ ClientClosed(k)
    \/ UpstreamOpen(k) \/ UpstreamMessage(k)
    \/ UpstreamCloses(k) \/ UpstreamClosed(k)

SupervisorNext ==
    \/ Configure \/ ReadIceServers \/ Spawn
    \/ RuntimeProgress \/ Ready \/ ReadyTimeout
    \/ RuntimeEnds \/ MalformedOutput \/ HandleExit
    \/ RequestArrives \/ WriteFails \/ RequestSettles
    \/ \E k \in Connections : ProxyStep(ProxyEvent(k))
    \/ RefusedClientFails
    \/ Stop \/ Closed \/ KillTimer \/ ProcessEnds \/ Kill
    \/ Probe \/ CreateReturns

\* The event loop handles what is pending and the timers fire; a runtime that got
\* a signal ends.  Nothing is assumed of the runtime, the engine or the clients.
SupervisorFairSpec ==
    /\ SupervisorInit /\ [][SupervisorNext]_all
    /\ WF_all(Configure) /\ WF_all(ReadIceServers) /\ WF_all(Spawn)
    /\ WF_all(Ready) /\ WF_all(ReadyTimeout)
    /\ WF_all(runtime = "terminated" /\ RuntimeEnds)
    /\ WF_all(HandleExit) /\ WF_all(RequestSettles)
    /\ WF_all(Closed) /\ WF_all(KillTimer) /\ WF_all(ProcessEnds)
    /\ \A k \in Connections : /\ WF_all(ProxyStep(AuthenticationTimeout(k)))
                              /\ WF_all(ProxyStep(Ends(k)))

-----------------------------------------------------------------------------
(* Properties                                                              *)

\* What the container ends with tells the operator why: zero only after the engine
\* has asked it to stop, so neither a start that failed nor a runtime that ended on
\* its own is taken for a regular end.  Once it has been asked to, zero is right
\* even if the runtime had ended a moment before, unseen.
ExitCodeTells ==
    stage = "ended" /\ exitCode = 0 => stopAsked

\* A session is handed out, and a client reaches the signaling server, only in a
\* container whose runtime had announced its first tab, from a configuration
\* that was read whole and passed every check.
OnlyReadySessions ==
    /\ created \/ (\E k \in Connections : conn[k].upstream # "none") => announced
    /\ runtime # "none" =>
            ~configuration.long /\ configuration.ice \in {"none", "all", "relay"}

\* When the runtime of a session ends, for whatever reason and at whatever moment,
\* or the shutdown has begun, the whole container ends and takes every relay with
\* it (docs/session-image.md:119).  A request stands for one whose bytes have
\* all arrived: one that stalls half-way would hold the closing server until its
\* connection ends, and is not modelled.
FailsClosed ==
    /\ runtime = "ended" ~> stage = "ended"
    /\ stage = "closing" ~> stage = "ended"
=============================================================================
