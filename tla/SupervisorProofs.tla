-------------------------- MODULE SupervisorProofs --------------------------
(***************************************************************************)
(* Theorems about SignalingProxy and Supervisor, for any number of         *)
(* connections: what the proxy keeps, what the exit code and the health of *)
(* a session container tell, and that the proxy keeps its invariant when   *)
(* the life of the container goes on around it.                            *)
(***************************************************************************)
EXTENDS Supervisor, TLAPS

-----------------------------------------------------------------------------
(* The proxy alone                                                         *)

\* The safety properties, connection by connection, with what they need beside
\* each other: the upstream socket is made by the authentication frame, and a
\* connection that is shut down while the socket is in its handshake does not
\* leave it there.
Sound(c) ==
    /\ c.phase \in {"connecting", "relaying"} \/ c.upstream # "none" => c.authenticated = TRUE
    /\ c.timer = TRUE => c.phase = "authenticating"
    /\ c.phase = "closed" => c.client # "open" /\ c.upstream \notin {"open", "connecting"}
    /\ c.phase = "authenticating" => c.upstream = "none"

PInv == TypeOK /\ OneController /\ \A k \in Connections : Sound(conn[k])

LEMMA InitPInv == Init => PInv
BY NoConnectionAssumption
   DEF Init, PInv, TypeOK, OneController, Sound, Connection, Phases, Gone

\* A step that changes one connection keeps the invariant when the connection
\* is sound after it and the lease agrees with its phase.
LEMMA UpdateKeeps ==
    ASSUME PInv, NEW k \in Connections, NEW d \in Connection, Sound(d),
           conn' = [conn EXCEPT ![k] = d], accepting' = accepting,
           activeLease' \in Connections \union {None},
           accepting => (d.phase # "closed" <=> activeLease' = k),
           accepting => (d.upstream \in {"connecting", "open"} => activeLease' = k),
           \A j \in Connections \ {k} : activeLease' = j <=> activeLease = j
    PROVE  PInv' /\ conn'[k] = d /\ \A j \in Connections \ {k} : conn'[j] = conn[j]
<1>1. conn'[k] = d /\ \A j \in Connections \ {k} : conn'[j] = conn[j]
  BY DEF PInv, TypeOK
<1>2. TypeOK'
  BY DEF PInv, TypeOK
<1>3. OneController'
  BY <1>1 DEF PInv, OneController
<1>4. \A j \in Connections : Sound(conn'[j])
  BY <1>1 DEF PInv
<1> QED
  BY <1>1, <1>2, <1>3, <1>4 DEF PInv

\* The same for a step that leaves the lease alone and does not close or open
\* the connection.
LEMMA BecomeKeeps ==
    ASSUME PInv, NEW k \in Connections, NEW d \in Connection, Sound(d), Become(k, d),
           d.phase # "closed" <=> conn[k].phase # "closed",
           d.upstream \in {"connecting", "open"} =>
               conn[k].upstream \in {"connecting", "open"} \/ conn[k].phase # "closed"
    PROVE  PInv' /\ conn'[k] = d /\ \A j \in Connections \ {k} : conn'[j] = conn[j]
BY UpdateKeeps DEF Become, PInv, TypeOK, OneController

\* What shutdownLease finds: connection k, but that one of its sockets may have
\* closed.
Ending(k, c) ==
    /\ c \in Connection
    /\ c.phase = conn[k].phase /\ c.timer = conn[k].timer
    /\ c.authenticated = conn[k].authenticated
    /\ c.client \in {conn[k].client, "closed"}
    /\ c.upstream = conn[k].upstream \/ (c.upstream = "closed" /\ conn[k].upstream # "none")

\* shutdownLease keeps the invariant and closes the connection.
LEMMA ShutdownKeeps ==
    ASSUME PInv, NEW k \in Connections, NEW c, Ending(k, c), shutdownLease(k, c)
    PROVE  /\ PInv'
           /\ conn'[k].phase = "closed"
           /\ \A j \in Connections \ {k} : conn'[j] = conn[j]
<1>0. conn[k] \in Connection /\ Sound(conn[k]) /\ c \in Connection
  BY DEF PInv, TypeOK, Ending
<1>1. CASE c.phase = "closed"
  <2>1. Become(k, c)
    BY <1>1 DEF shutdownLease
  <2>2. Sound(c)
    BY <1>0, <1>1 DEF Sound, Ending
  <2> QED
    BY <1>0, <1>1, <2>1, <2>2, BecomeKeeps DEF Ending
<1>2. CASE c.phase # "closed"
  <2> DEFINE d == [c EXCEPT !.phase = "closed", !.timer = FALSE,
                        !.client = closeSocket(@), !.upstream = closeSocket(@)]
  <2>1. /\ conn' = [conn EXCEPT ![k] = d]
        /\ activeLease' = IF activeLease = k THEN None ELSE activeLease
        /\ accepting' = accepting
    BY <1>2 DEF shutdownLease
  <2>2. /\ d \in Connection
        /\ d.phase = "closed" /\ d.timer = FALSE
        /\ d.authenticated = conn[k].authenticated
        /\ d.client \in {"closing", "closed"}
        /\ d.upstream \in {"none", "closing", "closed"}
        /\ d.upstream # "none" => conn[k].upstream # "none"
    BY <1>0 DEF closeSocket, Connection, Phases, Ending
  <2> HIDE DEF d
  <2>3. Sound(d)
    BY <1>0, <2>2 DEF Sound
  <2>4. /\ activeLease' \in Connections \union {None}
        /\ accepting => activeLease' # k
        /\ \A j \in Connections \ {k} : activeLease' = j <=> activeLease = j
    BY <2>1, NoConnectionAssumption DEF PInv, TypeOK
  <2> QED
    BY <2>1, <2>2, <2>3, <2>4, UpdateKeeps
<1> QED
  BY <1>1, <1>2

\* forward changes nothing or shuts the connection down.
LEMMA ForwardKeeps ==
    ASSUME PInv, NEW k \in Connections, NEW d, forward(k, d)
    PROVE  PInv' /\ (UNCHANGED vars \/ conn'[k].phase = "closed")
           /\ \A j \in Connections \ {k} : conn'[j] = conn[j]
<1>1. CASE shutdownLease(k, conn[k])
  <2>1. Ending(k, conn[k])
    BY DEF PInv, TypeOK, Ending
  <2> QED
    BY <1>1, <2>1, ShutdownKeeps
<1>2. CASE UNCHANGED vars
  BY <1>2 DEF vars, PInv, TypeOK, OneController
<1> QED
  BY <1>1, <1>2 DEF forward

\* Every step keeps the invariant, and a connection that is closed, but whose
\* sockets are not, stays closed.
LEMMA PInvStep ==
    ASSUME PInv, [Next]_vars
    PROVE  /\ PInv'
           /\ \A k \in Connections :
                 conn[k].phase = "closed" /\ ~Released(conn[k]) => conn'[k].phase = "closed"
<1> DEFINE Final == \A k \in Connections :
                 conn[k].phase = "closed" /\ ~Released(conn[k]) => conn'[k].phase = "closed"
<1>t. \A k \in Connections : conn[k] \in Connection
  BY DEF PInv, TypeOK
<1>s. \A k \in Connections : Sound(conn[k])
  BY DEF PInv
<1>1. ASSUME NEW k \in Connections, Connect(k)
      PROVE  PInv' /\ Final
  <2> DEFINE d == IF activeLease # None
                  THEN [Gone EXCEPT !.client = "closing", !.refused = TRUE]
                  ELSE [Gone EXCEPT !.phase = "authenticating", !.timer = TRUE,
                                    !.client = "open"]
  <2>1. /\ conn' = [conn EXCEPT ![k] = d] /\ accepting' = accepting /\ Released(conn[k])
        /\ activeLease' = IF activeLease # None THEN activeLease ELSE k
    BY <1>1 DEF Connect
  <2>2. d \in Connection /\ Sound(d) /\ d.upstream = "none"
        /\ (d.phase # "closed" <=> activeLease = None)
    BY DEF Gone, Connection, Phases, Sound
  <2> HIDE DEF d
  <2>3. accepting => activeLease # k
    BY <1>1 DEF Connect, Released, PInv, OneController
  <2>4. /\ activeLease' \in Connections \union {None}
        /\ \A j \in Connections \ {k} : activeLease' = j <=> activeLease = j
    BY <2>1, NoConnectionAssumption DEF PInv, TypeOK
  <2>5. accepting => (d.phase # "closed" <=> activeLease' = k)
    BY <2>1, <2>2, <2>3, NoConnectionAssumption
  <2>6. PInv' /\ \A j \in Connections \ {k} : conn'[j] = conn[j]
    BY <2>1, <2>2, <2>4, <2>5, UpdateKeeps
  <2> QED
    BY <2>1, <2>6
<1>2. ASSUME NEW k \in Connections, AuthenticationFrame(k)
      PROVE  PInv' /\ Final
  <2> DEFINE d == [conn[k] EXCEPT !.phase = "connecting", !.timer = FALSE,
                        !.authenticated = TRUE, !.upstream = "connecting"]
  <2>0. PICK frame \in Frames :
           /\ frame.secretMatches = TRUE
           /\ Become(k, [conn[k] EXCEPT !.phase = "connecting", !.timer = FALSE,
                                !.authenticated = frame.secretMatches,
                                !.upstream = "connecting"])
    BY <1>2 DEF AuthenticationFrame, parseAuthenticationFrame, Frames
  <2>1. Become(k, d) /\ conn[k].phase = "authenticating"
    BY <1>2, <2>0 DEF AuthenticationFrame
  <2>2. d \in Connection /\ Sound(d) /\ d.phase = "connecting"
    BY <1>t, <1>s DEF Connection, Phases, Sound
  <2> HIDE DEF d
  <2> QED
    BY <2>1, <2>2, BecomeKeeps
<1>3. ASSUME NEW k \in Connections, RefusedFrame(k) \/ AuthenticationTimeout(k)
      PROVE  PInv' /\ Final
  <2>1. shutdownLease(k, conn[k]) /\ Ending(k, conn[k])
    BY <1>t, <1>3 DEF RefusedFrame, AuthenticationTimeout, Ending
  <2> QED
    BY <2>1, ShutdownKeeps
<1>4. ASSUME NEW k \in Connections, ClientFrame(k) \/ UpstreamMessage(k)
      PROVE  PInv' /\ Final
  <2>1. PICK d : forward(k, d)
    BY <1>4 DEF ClientFrame, UpstreamMessage
  <2>2. /\ PInv' /\ (UNCHANGED vars \/ conn'[k].phase = "closed")
        /\ \A j \in Connections \ {k} : conn'[j] = conn[j]
    BY <2>1, ForwardKeeps
  <2> QED
    BY <2>2 DEF vars
<1>5. ASSUME NEW k \in Connections, ClientCloses(k) \/ UpstreamCloses(k)
      PROVE  PInv' /\ Final
  <2>1. PICK d \in {[conn[k] EXCEPT !.client = "closing"], [conn[k] EXCEPT !.upstream = "closing"]} :
           Become(k, d) /\ (d.upstream # conn[k].upstream => conn[k].upstream = "open")
    BY <1>5, <1>t DEF ClientCloses, UpstreamCloses, Connection
  <2>2. /\ d \in Connection /\ Sound(d) /\ d.phase = conn[k].phase
        /\ d.upstream \in {conn[k].upstream, "closing"}
    BY <1>t, <1>s, <2>1 DEF Connection, Phases, Sound
  <2> QED
    BY <2>1, <2>2, BecomeKeeps
<1>6. ASSUME NEW k \in Connections, ClientClosed(k)
      PROVE  PInv' /\ Final
  <2> DEFINE c == [conn[k] EXCEPT !.client = "closed", !.refused = FALSE]
  <2>1. shutdownLease(k, c) /\ Ending(k, c)
    BY <1>t, <1>6 DEF ClientClosed, Ending, Connection
  <2> HIDE DEF c
  <2> QED
    BY <2>1, ShutdownKeeps
<1>7. ASSUME NEW k \in Connections, UpstreamOpen(k)
      PROVE  PInv' /\ Final
  <2> DEFINE d == [conn[k] EXCEPT !.upstream = "open",
                        !.phase = IF @ = "connecting" THEN "relaying" ELSE @]
  <2>1. Become(k, d) /\ conn[k].upstream = "connecting"
    BY <1>7 DEF UpstreamOpen
  <2>2. d \in Connection /\ Sound(d) /\ (d.phase # "closed" <=> conn[k].phase # "closed")
    BY <1>t, <1>s, <2>1 DEF Connection, Phases, Sound
  <2> HIDE DEF d
  <2> QED
    BY <2>1, <2>2, BecomeKeeps
<1>8. ASSUME NEW k \in Connections, UpstreamClosed(k)
      PROVE  PInv' /\ Final
  <2> DEFINE c == [conn[k] EXCEPT !.upstream = "closed"]
  <2>1. shutdownLease(k, c) /\ Ending(k, c)
    BY <1>t, <1>8 DEF UpstreamClosed, Ending, Connection
  <2> HIDE DEF c
  <2> QED
    BY <2>1, ShutdownKeeps
<1>9. CASE Close
  <2> DEFINE d(k) == [conn[k] EXCEPT !.client = closeSocket(@),
                           !.upstream = IF k = activeLease THEN closeSocket(@) ELSE @]
  <2>1. /\ conn' = [k \in Connections |-> d(k)]
        /\ activeLease' = None /\ accepting' = FALSE
    BY <1>9 DEF Close
  <2>2. \A k \in Connections : d(k) \in Connection /\ Sound(d(k)) /\ d(k).phase = conn[k].phase
    BY <1>t, <1>s DEF closeSocket, Connection, Phases, Sound
  <2> HIDE DEF d
  <2> QED
    BY <2>1, <2>2 DEF PInv, TypeOK, OneController
<1>10. CASE UNCHANGED vars
  BY <1>10 DEF vars, PInv, TypeOK, OneController
<1> QED
  BY <1>1, <1>2, <1>3, <1>4, <1>5, <1>6, <1>7, <1>8, <1>9, <1>10 DEF Next

LEMMA PInvHolds == Spec => []PInv
<1>1. PInv /\ [Next]_vars => PInv'
  BY PInvStep
<1> QED
  BY InitPInv, <1>1, PTL DEF Spec

\* The type invariant of the lease objects and their sockets (the closure of
\* the "connection" handler).
THEOREM ProxyTypeCorrect == Spec => []TypeOK
<1>1. PInv => TypeOK
  BY DEF PInv
<1> QED
  BY <1>1, PInvHolds, PTL

\* However many clients connect, the connections that are not closed are exactly
\* the one that has activeLease, and no other has an upstream socket in use.
THEOREM LeaseIsExclusive == Spec => []OneController
<1>1. PInv => OneController
  BY DEF PInv
<1> QED
  BY <1>1, PInvHolds, PTL

\* The signaling server is reached only after parseAuthenticationFrame has
\* accepted the secret, and a closed connection has no timer and no open socket.
THEOREM OnlyAuthenticatedRelay == Spec => []RelayIsAuthenticated
<1>1. PInv => RelayIsAuthenticated
  BY DEF PInv, TypeOK, Connection, Sound, RelayIsAuthenticated
<1> QED
  BY <1>1, PInvHolds, PTL

\* shutdownLease is final: no later event of its sockets reopens a connection.
THEOREM ClosedStaysClosed == Spec => ClosedIsFinal
<1>1. PInv /\ [Next]_vars =>
        [\A k \in Connections :
            conn[k].phase = "closed" /\ ~Released(conn[k]) => conn'[k].phase = "closed"]_vars
  BY PInvStep
<1> QED
  BY <1>1, PInvHolds, PTL DEF Spec, ClosedIsFinal

-----------------------------------------------------------------------------
(* The supervisor around it                                                *)

SupervisorSpec == SupervisorInit /\ [][SupervisorNext]_all

Checked == [long : BOOLEAN, ice : {"none", "all", "relay"}]

\* A process that has failed or is to end with zero has set its code already.
CodeAgrees ==
    /\ stage = "failed" => exitCode = 1
    /\ stage \in {"closing", "stopping", "ended"} /\ exitCode = 0 => stopAsked = TRUE

\* Before spawn there is no runtime; what it is spawned with has been checked.
ConfigurationAgrees ==
    /\ stage \in {"configuring", "reading", "configured"} => runtime = "none"
    /\ stage \in {"reading", "configured"} => configuration \in Checked
    /\ runtime # "none" => configuration \in Checked /\ configuration.long = FALSE

\* The server listens after READY, and only then can a probe succeed.
ReadinessAgrees ==
    /\ announced = TRUE => runtime \notin {"none", "launching", "signalling"}
    /\ Listens => announced = TRUE
    /\ health = "healthy" \/ created = TRUE => announced = TRUE
    /\ \A k \in Connections : conn[k].upstream # "none" => announced = TRUE

LifeTypeOK ==
    /\ stage \in Stages
    /\ {announced, stopAsked, created} \subseteq BOOLEAN

SInv == PInv /\ LifeTypeOK /\ CodeAgrees /\ ConfigurationAgrees /\ ReadinessAgrees

LEMMA InitSInv == SupervisorInit => SInv
<1> SUFFICES ASSUME SupervisorInit PROVE SInv
  OBVIOUS
<1>1. PInv
  BY InitPInv DEF SupervisorInit
<1>2. LifeTypeOK /\ CodeAgrees /\ ConfigurationAgrees
  BY DEF SupervisorInit, LifeTypeOK, CodeAgrees, ConfigurationAgrees, Stages
<1>3. \A k \in Connections : conn[k].upstream = "none"
  BY DEF SupervisorInit, Init, Gone
<1>4. ReadinessAgrees
  BY <1>3 DEF SupervisorInit, ReadinessAgrees, Listens
<1> QED
  BY <1>1, <1>2, <1>4 DEF SInv

\* While a process that listens goes on, the proxy takes its own steps.
LEMMA ProxyStepKeeps ==
    ASSUME SInv, [Next]_vars, announced = TRUE, announced' = TRUE,
           UNCHANGED <<runtime, health, created>>
    PROVE  PInv' /\ ReadinessAgrees'
<1>1. PInv'
  BY PInvStep DEF SInv
<1> QED
  BY <1>1 DEF SInv, ReadinessAgrees

\* A step that leaves the proxy alone.
LEMMA ProxyIdle ==
    ASSUME SInv, UNCHANGED vars
    PROVE  PInv'
BY PInvStep DEF SInv

\* The end of the process leaves nothing of the proxy.
LEMMA EndedKeeps ==
    ASSUME SInv, NEW code, Ended(code), code = 0 => stopAsked = TRUE,
           UNCHANGED <<configuration, announced, exitSeen, stopAsked, created>>
    PROVE  SInv'
<1>1. PInv'
  BY NoConnectionAssumption
     DEF Ended, PInv, TypeOK, OneController, Sound, Connection, Phases, Gone
<1>2. LifeTypeOK' /\ CodeAgrees' /\ ConfigurationAgrees'
  BY DEF SInv, Ended, LifeTypeOK, CodeAgrees, ConfigurationAgrees, Stages
<1>3. ReadinessAgrees'
  BY DEF SInv, Ended, ReadinessAgrees, Listens, Gone
<1> QED
  BY <1>1, <1>2, <1>3 DEF SInv

\* The steps of the start.
LEMMA StartKeeps ==
    ASSUME SInv, Configure \/ ReadIceServers \/ Spawn \/ RuntimeProgress \/ Ready
                 \/ ReadyTimeout
    PROVE  SInv'
<1> USE DEF SInv, LifeTypeOK, Stages
<1>0. UNCHANGED vars /\ UNCHANGED <<stopAsked, health, created>> /\ PInv'
  BY ProxyIdle DEF Configure, ReadIceServers, Spawn, RuntimeProgress, Ready, ReadyTimeout
<1>u. UNCHANGED conn
  BY <1>0 DEF vars
<1>1. CASE Configure
  <2>1. /\ stage = "configuring"
        /\ \/ StartupFails /\ UNCHANGED configuration
           \/ /\ configuration' \in Checked
              /\ stage' \in {"reading", "configured"} /\ UNCHANGED exitCode
        /\ UNCHANGED <<runtime, announced>>
    BY <1>1 DEF Configure, Checked, Environments, Urls
  <2> QED
    BY <1>0, <1>u, <2>1
       DEF StartupFails, CodeAgrees, ConfigurationAgrees, ReadinessAgrees, Listens
<1>2. CASE ReadIceServers
  <2>1. /\ stage = "reading"
        /\ \/ StartupFails /\ UNCHANGED configuration
           \/ /\ \E ice \in {"all", "relay"} :
                    configuration' = [configuration EXCEPT !.ice = ice]
              /\ stage' = "configured" /\ UNCHANGED exitCode
        /\ UNCHANGED <<runtime, announced>>
    BY <1>2 DEF ReadIceServers, parseIceServerConfiguration
  <2>2. stage' = "configured" => configuration' \in Checked
    BY <2>1 DEF ConfigurationAgrees, Checked, StartupFails
  <2> QED
    BY <1>0, <1>u, <2>1, <2>2
       DEF StartupFails, CodeAgrees, ConfigurationAgrees, ReadinessAgrees, Listens
<1>3. CASE Spawn
  BY <1>0, <1>u, <1>3
     DEF Spawn, StartupFails, CodeAgrees, ConfigurationAgrees, ReadinessAgrees, Listens, Checked
<1>4. CASE RuntimeProgress
  <2>1. announced = FALSE /\ runtime \in {"launching", "signalling"}
    BY <1>4 DEF RuntimeProgress, ReadinessAgrees
  <2> QED
    BY <1>0, <1>u, <1>4, <2>1
       DEF RuntimeProgress, CodeAgrees, ConfigurationAgrees, ReadinessAgrees, Listens
<1>5. CASE Ready \/ ReadyTimeout
  BY <1>0, <1>u, <1>5
     DEF Ready, ReadyTimeout, StartupFails, CodeAgrees, ConfigurationAgrees, ReadinessAgrees,
         Listens
<1> QED
  BY <1>1, <1>2, <1>3, <1>4, <1>5

\* The steps of a runtime that fails, and of requests.
LEMMA FailureKeeps ==
    ASSUME SInv, RuntimeEnds \/ MalformedOutput \/ HandleExit \/ RequestArrives
                 \/ RequestSettles
    PROVE  SInv'
<1> USE DEF SInv, LifeTypeOK, Stages
<1>1. CASE RuntimeEnds \/ RequestArrives \/ RequestSettles
  <2>1. /\ UNCHANGED vars
        /\ UNCHANGED <<stage, exitCode, configuration, announced, stopAsked, health, created>>
        /\ runtime' = runtime \/ (runtime # "none" /\ runtime' = "ended")
    BY <1>1 DEF RuntimeEnds, RequestArrives, RequestSettles, Started
  <2>2. PInv' /\ UNCHANGED conn
    BY <2>1, ProxyIdle DEF vars
  <2> QED
    BY <2>1, <2>2 DEF CodeAgrees, ConfigurationAgrees, ReadinessAgrees, Listens
<1>2. CASE MalformedOutput
  <2>1. PInv' /\ UNCHANGED conn
    BY <1>2, ProxyIdle DEF MalformedOutput, vars
  <2> QED
    BY <1>2, <2>1
       DEF MalformedOutput, StartupFails, CodeAgrees, ConfigurationAgrees, ReadinessAgrees, Listens
<1>3. CASE HandleExit
  <2>1. /\ UNCHANGED <<configuration, runtime, announced, stopAsked, health, created>>
        /\ runtime = "ended"
    BY <1>3 DEF HandleExit
  <2>2. CASE stage = "serving"
    <3>1. Close /\ stage' = "closing" /\ exitCode' = 1
      BY <1>3, <2>2 DEF HandleExit, Shutdown
    <3>2. announced = TRUE
      BY <2>2 DEF ReadinessAgrees, Listens
    <3>3. PInv' /\ ReadinessAgrees'
      BY <2>1, <3>1, <3>2, ProxyStepKeeps DEF Next
    <3> QED
      BY <2>1, <3>1, <3>3 DEF CodeAgrees, ConfigurationAgrees
  <2>3. CASE stage # "serving"
    <3>1. UNCHANGED vars /\ (StartupFails \/ UNCHANGED <<stage, exitCode>>)
      BY <1>3, <2>3 DEF HandleExit
    <3>2. PInv' /\ UNCHANGED conn
      BY <3>1, ProxyIdle DEF vars
    <3> QED
      BY <2>1, <3>1, <3>2
         DEF StartupFails, CodeAgrees, ConfigurationAgrees, ReadinessAgrees, Listens
  <2> QED
    BY <2>2, <2>3
<1> QED
  BY <1>1, <1>2, <1>3

\* The steps of the proxy, of the shutdown and of the engine.
LEMMA ShutdownStepKeeps ==
    ASSUME SInv, \/ \E k \in Connections : ProxyStep(ProxyEvent(k))
                 \/ Stop \/ Closed \/ KillTimer \/ Probe \/ CreateReturns
    PROVE  SInv'
<1> USE DEF SInv, LifeTypeOK, Stages
<1>1. ASSUME NEW k \in Connections, ProxyStep(ProxyEvent(k))
      PROVE  SInv'
  <2>1. Listens /\ Next /\ UNCHANGED life
    BY <1>1 DEF ProxyStep, ProxyEvent, Next
  <2>2. announced = TRUE
    BY <2>1 DEF ReadinessAgrees
  <2>3. PInv' /\ ReadinessAgrees'
    BY <2>1, <2>2, ProxyStepKeeps DEF life
  <2> QED
    BY <2>1, <2>3 DEF life, CodeAgrees, ConfigurationAgrees
<1>2. CASE Stop
  <2>1. /\ UNCHANGED <<configuration, runtime, announced, health, created>>
        /\ stopAsked' = TRUE
    BY <1>2 DEF Stop
  <2>2. CASE stage = "serving"
    <3>1. Close /\ stage' = "closing" /\ exitCode' = 0
      BY <1>2, <2>2 DEF Stop, Shutdown
    <3>2. announced = TRUE
      BY <2>2 DEF ReadinessAgrees, Listens
    <3>3. PInv' /\ ReadinessAgrees'
      BY <2>1, <3>1, <3>2, ProxyStepKeeps DEF Next
    <3> QED
      BY <2>1, <3>1, <3>3 DEF CodeAgrees, ConfigurationAgrees
  <2>3. CASE stage # "serving"
    <3>1. UNCHANGED <<vars, stage, exitCode>>
      BY <1>2, <2>3 DEF Stop
    <3>2. PInv' /\ UNCHANGED conn
      BY <3>1, ProxyIdle DEF vars
    <3> QED
      BY <2>1, <3>1, <3>2 DEF CodeAgrees, ConfigurationAgrees, ReadinessAgrees, Listens
  <2> QED
    BY <2>2, <2>3
<1>3. CASE Closed \/ KillTimer
  <2>1. /\ UNCHANGED vars
        /\ stage \in {"closing", "stopping"} /\ stage' = "stopping"
        /\ UNCHANGED <<exitCode, configuration, announced, stopAsked, health, created>>
        /\ runtime' = runtime \/ (runtime # "none" /\ runtime' = "ended")
    BY <1>3 DEF Closed, KillTimer, Started
  <2>2. PInv' /\ UNCHANGED conn
    BY <2>1, ProxyIdle DEF vars
  <2> QED
    BY <2>1, <2>2 DEF CodeAgrees, ConfigurationAgrees, ReadinessAgrees, Listens
<1>4. CASE Probe \/ CreateReturns
  <2>1. /\ UNCHANGED vars
        /\ UNCHANGED <<stage, exitCode, configuration, runtime, announced, stopAsked>>
        /\ created' \in BOOLEAN
        /\ health' = "healthy" \/ created' = TRUE => announced = TRUE
    BY <1>4 DEF Probe, CreateReturns, probe, ReadinessAgrees
  <2>2. PInv' /\ UNCHANGED conn
    BY <2>1, ProxyIdle DEF vars
  <2> QED
    BY <2>1, <2>2 DEF CodeAgrees, ConfigurationAgrees, ReadinessAgrees, Listens
<1> QED
  BY <1>1, <1>2, <1>3, <1>4

LEMMA SInvStep == SInv /\ [SupervisorNext]_all => SInv'
<1> SUFFICES ASSUME SInv, [SupervisorNext]_all PROVE SInv'
  OBVIOUS
<1>1. CASE Configure \/ ReadIceServers \/ Spawn \/ RuntimeProgress \/ Ready \/ ReadyTimeout
  BY <1>1, StartKeeps
<1>2. CASE RuntimeEnds \/ MalformedOutput \/ HandleExit \/ RequestArrives \/ RequestSettles
  BY <1>2, FailureKeeps
<1>3. CASE \/ \E k \in Connections : ProxyStep(ProxyEvent(k))
           \/ Stop \/ Closed \/ KillTimer \/ Probe \/ CreateReturns
  BY <1>3, ShutdownStepKeeps
<1>4. CASE WriteFails \/ RefusedClientFails
  <2>1. Ended(1) /\ UNCHANGED <<configuration, announced, exitSeen, stopAsked, created>>
    BY <1>4 DEF WriteFails, RefusedClientFails
  <2>2. 1 = 0 => stopAsked = TRUE
    OBVIOUS
  <2> QED
    BY <2>1, <2>2, EndedKeeps
<1>5. CASE ProcessEnds
  <2>1. exitCode = 0 => stopAsked = TRUE
    BY <1>5 DEF ProcessEnds, SInv, CodeAgrees
  <2> QED
    BY <1>5, <2>1, EndedKeeps DEF ProcessEnds
<1>6. CASE Kill
  <2>1. Ended(137) /\ UNCHANGED <<configuration, announced, exitSeen, stopAsked, created>>
    BY <1>6 DEF Kill
  <2>2. 137 = 0 => stopAsked = TRUE
    OBVIOUS
  <2> QED
    BY <2>1, <2>2, EndedKeeps
<1>7. CASE UNCHANGED all
  <2>1. UNCHANGED vars /\ UNCHANGED life
    BY <1>7 DEF all
  <2>2. PInv' /\ UNCHANGED conn
    BY <2>1, ProxyIdle DEF vars
  <2> QED
    BY <2>1, <2>2
       DEF life, SInv, LifeTypeOK, CodeAgrees, ConfigurationAgrees, ReadinessAgrees, Listens
<1> QED
  BY <1>1, <1>2, <1>3, <1>4, <1>5, <1>6, <1>7 DEF SupervisorNext

LEMMA SInvHolds == SupervisorSpec => []SInv
BY InitSInv, SInvStep, PTL DEF SupervisorSpec

\* process.exitCode is zero only when the engine has asked the container to
\* stop: main's catch and the exit handler of the runtime set one.
THEOREM ExitCodeIsHonest == SupervisorSpec => []ExitCodeTells
<1>1. SInv => ExitCodeTells
  BY DEF SInv, CodeAgrees, ExitCodeTells
<1> QED
  BY <1>1, SInvHolds, PTL

\* waitForHealthy returns, and the proxy reaches the signaling server, only after
\* waitUntilReady has, with a configuration that parseConfiguration and
\* parseIceServerConfiguration have accepted.
THEOREM OnlyReadySessionsAreUsed == SupervisorSpec => []OnlyReadySessions
<1>1. SInv => OnlyReadySessions
  BY DEF SInv, LifeTypeOK, ConfigurationAgrees, ReadinessAgrees, Checked, OnlyReadySessions
<1> QED
  BY <1>1, SInvHolds, PTL

\* The lease of createSignalingProxy is exclusive, and only an authenticated
\* controller is relayed, also when the process around the proxy ends.
THEOREM ProxyIsSafeInContainer ==
    SupervisorSpec => [](OneController /\ RelayIsAuthenticated)
<1>1. SInv => OneController /\ RelayIsAuthenticated
  BY DEF SInv, PInv, TypeOK, Connection, Sound, RelayIsAuthenticated
<1> QED
  BY <1>1, SInvHolds, PTL

\* shutdownLease is final whatever becomes of the container: no step reopens a
\* connection whose sockets are not closed.
THEOREM ClosedStaysClosedInContainer == SupervisorSpec => ClosedIsFinal
<1>1. SInv /\ [SupervisorNext]_all =>
        [\A k \in Connections :
            conn[k].phase = "closed" /\ ~Released(conn[k]) => conn'[k].phase = "closed"]_vars
  <2> SUFFICES ASSUME SInv, [SupervisorNext]_all, NEW k \in Connections,
                      conn[k].phase = "closed", ~Released(conn[k]), ~UNCHANGED vars
               PROVE  conn'[k].phase = "closed"
    OBVIOUS
  <2>1. [Next]_vars \/ conn'[k] = Gone
    BY DEF SupervisorNext, all, Configure, ReadIceServers, Spawn, RuntimeProgress, Ready,
           ReadyTimeout, RuntimeEnds, MalformedOutput, HandleExit, Shutdown, RequestArrives,
           WriteFails, RefusedClientFails, RequestSettles, ProxyStep, ProxyEvent, Stop,
           Closed, KillTimer, ProcessEnds, Kill, Ended, Probe, CreateReturns, Next
  <2>2. CASE [Next]_vars
    BY <2>2, PInvStep DEF SInv
  <2>3. CASE conn'[k] = Gone
    BY <2>3 DEF Gone
  <2> QED
    BY <2>1, <2>2, <2>3
<1> QED
  BY <1>1, SInvHolds, PTL DEF SupervisorSpec, ClosedIsFinal
=============================================================================
