-------------------------- MODULE UpstreamConnector --------------------------
(***************************************************************************)
(* WebSocketSignalingConnector.connect (src/src/signaling/                 *)
(* upstream-connector.ts) event by event, with the part of                 *)
(* SignalingGateway that waits for it: one relay whose client has been     *)
(* authorized, its socket to the runtime, and the burn of its session.     *)
(*                                                                         *)
(* SignalingGateway has this connection as one socket whose handshake      *)
(* succeeds or fails; here are the listeners, the timer, the signal, and   *)
(* the events that are kept until the gateway activates the connection.    *)
(*                                                                         *)
(* The WebSocket library is modelled by what the code relies on: frames    *)
(* come in order, some may still come after terminate, and a socket that   *)
(* is terminated before it is open raises an error at the end of the       *)
(* current operation, which ends a process that has no listener for it.    *)
(***************************************************************************)
EXTENDS Naturals, Sequences, FiniteSets

CONSTANTS
    MaximumEvents,  \* 16
    MaxPayload,     \* maxPayloadBytes: no frame is larger
    MaxSent         \* bound on the frames that the runtime sends

ASSUME ConnectorAssumption == /\ MaximumEvents \in Nat \ {0} /\ MaxPayload \in Nat \ {0}
                              /\ MaxSent \in Nat

VARIABLES
    socket,         \* readyState of the socket to the runtime
    promise,        \* settled and authenticated: what connect has answered
    kept,           \* bufferedEvents
    activated,      \* the gateway has taken the connection over
    relay,          \* phase of the gateway, whose shutdown aborts the signal
    sent,           \* frames after the first that the runtime has got to the socket
    delivered,      \* those that the gateway has passed to the client
    session,        \* the session's way through burn
    alive           \* the process of the control plane

connectorVars == <<socket, promise, kept, activated, relay, sent, delivered, session, alive>>

Message(n, size) == [type |-> "message", number |-> n, size |-> size]
Event(type) == [type |-> type, number |-> 0, size |-> 0]

Bytes(events) ==
    LET total[i \in 0..Len(events)] == IF i = 0 THEN 0 ELSE total[i - 1] + events[i].size
    IN  total[Len(events)]

\* socket.terminate()
Terminated == IF socket \in {"open", "closing"} THEN "closing" ELSE socket

\* fail(), which takes the listeners away before it terminates the socket.
Fail ==
    IF promise # "pending" THEN UNCHANGED <<socket, promise, alive>>
    ELSE /\ promise' = "rejected"
         /\ socket' = IF socket = "connecting" THEN "closed" ELSE Terminated
         /\ alive' = (socket # "connecting")

\* The gateway's shutdown: the signal, whose listener is gone once the promise is
\* settled, and the socket if the gateway has it.
GatewayShutdown ==
    /\ relay' = "closed"
    /\ IF promise = "pending" /\ socket # "new" THEN Fail
       ELSE /\ socket' = IF relay = "relaying" /\ socket = "open" THEN "closing" ELSE socket
            /\ UNCHANGED <<promise, alive>>

-----------------------------------------------------------------------------
(* connect                                                                 *)

\* A target that validateTarget refuses, or a client that is gone, gets no socket.
Connect ==
    /\ alive /\ socket = "new" /\ promise = "pending"
    /\ \/ relay = "connecting" /\ socket' = "connecting" /\ UNCHANGED promise
       \/ promise' = "rejected" /\ UNCHANGED socket
    /\ UNCHANGED <<kept, activated, relay, sent, delivered, session, alive>>

\* onOpen; a write that fails is a failure of its own.
Open ==
    /\ alive /\ socket = "connecting" /\ promise = "pending"
    /\ socket' = "open"
    /\ UNCHANGED <<promise, kept, activated, relay, sent, delivered, session, alive>>

\* The library gives the handshake up: the error finds its listener, and the socket
\* is no longer connecting.
ConnectError ==
    /\ alive /\ socket = "connecting" /\ promise = "pending"
    /\ socket' = "closed" /\ promise' = "rejected"
    /\ UNCHANGED <<kept, activated, relay, sent, delivered, session, alive>>

\* The timer, the answer that is no upgrade, or a write of the secret that fails.
ConnectFails ==
    /\ alive /\ socket \in {"connecting", "open"} /\ promise = "pending"
    /\ Fail
    /\ UNCHANGED <<kept, activated, relay, sent, delivered, session>>

isAuthenticatedFrame(frame) == frame = "authenticated"

\* The first frame: the runtime's acceptance, or anything else.
FirstFrame ==
    /\ alive /\ socket = "open" /\ promise = "pending"
    /\ \E frame \in {"authenticated", "malformed", "binary"} :
          IF isAuthenticatedFrame(frame) THEN promise' = "resolved" /\ UNCHANGED <<socket, alive>>
          ELSE Fail
    /\ UNCHANGED <<kept, activated, relay, sent, delivered, session>>

-----------------------------------------------------------------------------
(* Events of the authenticated socket                                      *)

\* Defect variant: what does not fit is dropped without a trace.
Keep_Drops(size) ==
    IF Len(kept) < MaximumEvents /\ Bytes(kept) + size <= 4 * MaxPayload
    THEN kept' = Append(kept, Message(sent + 1, size)) /\ UNCHANGED socket
    ELSE UNCHANGED kept /\ socket' = Terminated

\* Defect variant: the bytes are not counted.
Keep_Uncounted(size) ==
    IF Len(kept) < MaximumEvents
    THEN kept' = Append(kept, Message(sent + 1, size)) /\ UNCHANGED socket
    ELSE kept' = Append(kept, Event("error")) /\ socket' = Terminated

\* onMessage before activate.
Keep(size) ==
    IF Len(kept) < MaximumEvents /\ Bytes(kept) + size <= 4 * MaxPayload
    THEN kept' = Append(kept, Message(sent + 1, size)) /\ UNCHANGED socket
    ELSE kept' = Append(kept, Event("error")) /\ socket' = Terminated

\* A frame, which forward(client, data) passes on after activate; the client may be
\* gone, its buffer full or the write fail.
Frame ==
    /\ alive /\ promise = "resolved" /\ socket \in {"open", "closing"} /\ sent < MaxSent
    /\ sent' = sent + 1
    /\ \/ /\ activated /\ relay = "relaying"
          /\ delivered' = Append(delivered, sent + 1)
          /\ UNCHANGED <<socket, promise, kept, relay, alive>>
       \/ /\ activated /\ GatewayShutdown
          /\ UNCHANGED <<kept, delivered>>
       \/ /\ ~activated
          /\ \E size \in {1, MaxPayload} : Keep(size)
          /\ UNCHANGED <<promise, relay, delivered, alive>>
    /\ UNCHANGED <<activated, session>>

\* Defect variant: what happens before activate is not kept.
SocketEnds_Unnoticed ==
    /\ alive /\ promise # "pending" /\ socket \in {"open", "closing"}
    /\ socket' = "closed"
    /\ relay' = IF activated THEN "closed" ELSE relay
    /\ UNCHANGED <<promise, kept, activated, sent, delivered, session, alive>>

\* onError and onClose: kept before activate, the gateway's shutdown after.  After
\* fail() nobody listens.
SocketEnds ==
    /\ alive /\ promise # "pending" /\ socket \in {"open", "closing"}
    /\ socket' = "closed"
    /\ IF promise = "rejected" THEN UNCHANGED <<kept, relay>>
       ELSE IF activated THEN relay' = "closed" /\ UNCHANGED kept
       ELSE kept' = Append(kept, Event("close")) /\ UNCHANGED relay
    /\ UNCHANGED <<promise, activated, sent, delivered, session, alive>>

-----------------------------------------------------------------------------
(* The gateway                                                             *)

\* The messages before the first error or close, and whether there is one.
Leading == {n \in 0..Len(kept) : \A i \in 1..n : kept[i].type = "message"}

Delivered(n) == delivered \o [i \in 1..n |-> kept[i].number]

\* Defect variant: a gateway that is closed does not look at the connection.
Activate_Late ==
    /\ alive /\ promise = "resolved" /\ ~activated /\ relay = "connecting"
    /\ activated' = TRUE /\ kept' = <<>>
    /\ \E n \in Leading :
          /\ delivered' = Delivered(n)
          /\ \/ n = Len(kept) /\ relay' = "relaying" /\ UNCHANGED socket
             \/ relay' = "closed" /\ socket' = Terminated
    /\ UNCHANGED <<promise, sent, session, alive>>

\* The await of connect is over: a gateway that was shut down meanwhile terminates
\* the socket; another takes the connection over, says "ready", and is given what was
\* kept, where the first failure to forward, error or close shuts it down.
Activate ==
    /\ alive /\ promise = "resolved" /\ ~activated
    /\ \/ /\ relay = "closed" /\ socket # "closed" /\ socket' = Terminated
          /\ UNCHANGED <<relay, kept, activated, delivered>>
       \/ /\ relay = "connecting" /\ activated' = TRUE /\ kept' = <<>>
          /\ \E n \in Leading :
                /\ delivered' = Delivered(n)
                /\ \/ n = Len(kept) /\ relay' = "relaying" /\ UNCHANGED socket
                   \/ relay' = "closed" /\ socket' = Terminated
    /\ UNCHANGED <<promise, sent, session, alive>>

\* The catch block of connectUpstream.
Rejected ==
    /\ alive /\ promise = "rejected" /\ relay = "connecting"
    /\ relay' = "closed"
    /\ UNCHANGED <<socket, promise, kept, activated, sent, delivered, session, alive>>

\* The client disconnects, or sends what it may not.
ClientEnds ==
    /\ alive /\ relay # "closed"
    /\ GatewayShutdown
    /\ UNCHANGED <<kept, activated, sent, delivered, session>>

\* burn revokes the relay, and asks the runtime to destroy its resources.
Burn ==
    /\ alive /\ session = "active"
    /\ session' = "burning"
    /\ IF relay = "closed" THEN UNCHANGED <<relay, socket, promise, alive>> ELSE GatewayShutdown
    /\ UNCHANGED <<kept, activated, sent, delivered>>

\* The cleanup is over.
Burned ==
    /\ alive /\ session = "burning"
    /\ session' = "burned"
    /\ UNCHANGED <<socket, promise, kept, activated, relay, sent, delivered, alive>>

ConnectorInit ==
    /\ socket = "new" /\ promise = "pending" /\ kept = <<>> /\ activated = FALSE
    /\ relay = "connecting" /\ sent = 0 /\ delivered = <<>>
    /\ session = "active" /\ alive = TRUE

ConnectorNext ==
    \/ Connect \/ Open \/ ConnectError \/ ConnectFails \/ FirstFrame
    \/ Frame \/ SocketEnds \/ Activate \/ Rejected
    \/ ClientEnds \/ Burn \/ Burned

ConnectorSpec == ConnectorInit /\ [][ConnectorNext]_connectorVars

\* The timer of connect, the continuations of the gateway, the library's close of a
\* socket that was terminated, and an engine that answers the cleanup.
FairConnectorSpec ==
    /\ ConnectorSpec
    /\ WF_connectorVars(Connect) /\ WF_connectorVars(ConnectError \/ ConnectFails \/ FirstFrame)
    /\ WF_connectorVars(Activate) /\ WF_connectorVars(Rejected)
    /\ WF_connectorVars(SocketEnds /\ socket = "closing")
    /\ WF_connectorVars(Burned)

-----------------------------------------------------------------------------
(* Properties                                                              *)

\* The client gets the frames of the runtime in their order and without a gap,
\* whether they came before or after the gateway took the connection over, and
\* whatever had no room (test/signaling-gateway.test.ts:63).
DeliveredInOrder == delivered = [n \in 1..Len(delivered) |-> n]

\* What is kept for a gateway that does not come is bounded: the messages in number,
\* and their bytes. Errors and the close are kept besides and count in neither
\* (upstream-connector.ts:110-125).
KeptIsBounded ==
    /\ Cardinality({i \in DOMAIN kept : kept[i].type = "message"}) <= MaximumEvents
    /\ Bytes(kept) <= 4 * MaxPayload

\* A runtime that is gone is noticed, also when it goes between its acceptance and
\* the gateway's continuation: the relay does not stay open.
EndIsNoticed == (promise = "resolved" /\ socket = "closed") ~> (relay = "closed")

\* A relay that has ended leaves no socket behind.
RelayEndsSocket == (relay = "closed") ~> (~alive \/ socket \in {"new", "closed"})

\* A burn revokes the relay and goes on to the cleanup, also when the relay is still
\* connecting (README.md:18).
BurnEnds == (session = "burning") ~> (session = "burned")
=============================================================================
