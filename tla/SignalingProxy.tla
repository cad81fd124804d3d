--------------------------- MODULE SignalingProxy ---------------------------
(***************************************************************************)
(* createSignalingProxy (src/session/supervisor.mjs): the WebSocket proxy  *)
(* of a session container, which admits one controller at a time.  A       *)
(* connection that finds no lease takes it, authenticates with its first   *)
(* frame, and is relayed to the signaling server on the loopback address.  *)
(*                                                                         *)
(* A socket passes from open through closing to closed; the handlers may   *)
(* run in every state of both sockets.  When both sockets of a connection  *)
(* are closed, its name stands for a later connection.                     *)
(***************************************************************************)
EXTENDS Naturals, FiniteSets

CONSTANTS Connections, None

ASSUME NoConnectionAssumption == None \notin Connections

VARIABLES
    conn,          \* lease object and sockets of each connection
    activeLease,   \* the connection that has the lease
    accepting      \* the server has not been closed

vars == <<conn, activeLease, accepting>>

Phases == {"authenticating", "connecting", "relaying", "closed"}

\* timer: authenticationTimer; authenticated: the client has sent the secret;
\* refused: the client has no lease, and nobody listens to its events.
Connection == [phase : Phases, timer : BOOLEAN, authenticated : BOOLEAN, refused : BOOLEAN,
               client : {"open", "closing", "closed"},
               upstream : {"none", "connecting", "open", "closing", "closed"}]

Gone == [phase |-> "closed", timer |-> FALSE, authenticated |-> FALSE, refused |-> FALSE,
         client |-> "closed", upstream |-> "none"]

\* The first frame of a client, as far as parseAuthenticationFrame looks at it.
Frames == [isBinary : BOOLEAN, type : {"authenticate", "other"}, secretMatches : BOOLEAN]

Released(c) == c.phase = "closed" /\ c.client = "closed" /\ c.upstream \in {"none", "closed"}

Become(k, c) == conn' = [conn EXCEPT ![k] = c] /\ UNCHANGED <<activeLease, accepting>>

\* closeSocket: close or terminate, unless the socket is closing already.
closeSocket(state) == IF state \in {"open", "connecting"} THEN "closing" ELSE state

-----------------------------------------------------------------------------
\* Defect variant: any closed connection gives the lease back.
shutdownLease_AnyLease(k, c) ==
    /\ conn' = [conn EXCEPT ![k] = [c EXCEPT !.phase = "closed", !.timer = FALSE,
                        !.client = closeSocket(@), !.upstream = closeSocket(@)]]
    /\ activeLease' = None
    /\ UNCHANGED accepting

\* Defect variant: the upstream socket is left to the signaling server.
shutdownLease_KeepsUpstream(k, c) ==
    IF c.phase = "closed" THEN Become(k, c)
    ELSE /\ conn' = [conn EXCEPT ![k] = [c EXCEPT !.phase = "closed", !.timer = FALSE,
                                             !.client = closeSocket(@)]]
         /\ activeLease' = IF activeLease = k THEN None ELSE activeLease
         /\ UNCHANGED accepting

\* shutdownLease, after which connection k is c but for what it changes.
shutdownLease(k, c) ==
    IF c.phase = "closed" THEN Become(k, c)
    ELSE /\ conn' = [conn EXCEPT ![k] = [c EXCEPT !.phase = "closed", !.timer = FALSE,
                        !.client = closeSocket(@), !.upstream = closeSocket(@)]]
         /\ activeLease' = IF activeLease = k THEN None ELSE activeLease
         /\ UNCHANGED accepting

\* forward: the peer is not open, its buffer is full, or the write fails.
forward(k, destination) ==
    \/ shutdownLease(k, conn[k])
    \/ destination = "open" /\ UNCHANGED vars

-----------------------------------------------------------------------------
(* Events of the client's socket                                           *)

\* "connection": refused when another connection has the lease.  The handler
\* returns before it has registered a listener on the client it refuses: an error
\* of that client is no event of the proxy but an uncaught one of its process.
Connect(k) ==
    /\ accepting /\ Released(conn[k])
    /\ IF activeLease # None
       THEN /\ conn' = [conn EXCEPT ![k] = [Gone EXCEPT !.client = "closing", !.refused = TRUE]]
            /\ UNCHANGED activeLease
       ELSE /\ conn' = [conn EXCEPT ![k] = [Gone EXCEPT !.phase = "authenticating",
                                                !.timer = TRUE, !.client = "open"]]
            /\ activeLease' = k
    /\ UNCHANGED accepting

parseAuthenticationFrame(frame) ==
    ~frame.isBinary /\ frame.type = "authenticate" /\ frame.secretMatches

\* Defect variant: the first frame is not looked at.
AuthenticationFrame_Any(k) ==
    LET c == conn[k] IN
    /\ c.client # "closed" /\ c.phase = "authenticating"
    /\ \E frame \in Frames :
          Become(k, [c EXCEPT !.phase = "connecting", !.timer = FALSE,
                              !.authenticated = frame.secretMatches, !.upstream = "connecting"])

\* The first frame.
AuthenticationFrame(k) ==
    LET c == conn[k] IN
    /\ c.client # "closed" /\ c.phase = "authenticating"
    /\ \E frame \in Frames :
          /\ parseAuthenticationFrame(frame)
          /\ Become(k, [c EXCEPT !.phase = "connecting", !.timer = FALSE,
                                 !.authenticated = frame.secretMatches,
                                 !.upstream = "connecting"])

\* A first frame that is not accepted, and a frame before the relay is ready.
RefusedFrame(k) ==
    /\ conn[k].client # "closed"
    /\ \/ /\ conn[k].phase = "authenticating"
          /\ \E frame \in Frames : ~parseAuthenticationFrame(frame)
       \/ conn[k].phase = "connecting"
    /\ shutdownLease(k, conn[k])

\* A frame during the relay; frames that still arrive after it are dropped.
ClientFrame(k) ==
    /\ conn[k].client # "closed" /\ conn[k].phase = "relaying"
    /\ forward(k, conn[k].upstream)

AuthenticationTimeout(k) ==
    /\ conn[k].timer
    /\ shutdownLease(k, conn[k])

\* The peer begins to close.
ClientCloses(k) ==
    /\ conn[k].client = "open"
    /\ Become(k, [conn[k] EXCEPT !.client = "closing"])

\* "close" and "error", after the close handshake, its one-second limit or a
\* failure; only "close" of a client that was refused.
ClientClosed(k) ==
    /\ conn[k].client # "closed"
    /\ shutdownLease(k, [conn[k] EXCEPT !.client = "closed", !.refused = FALSE])

-----------------------------------------------------------------------------
(* Events of the upstream socket                                           *)

\* Defect variant: the phase is not looked at.
UpstreamOpen_AnyPhase(k) ==
    LET c == conn[k] IN
    /\ c.upstream \in {"connecting", "closing"}
    /\ Become(k, [c EXCEPT !.upstream = "open", !.phase = "relaying"])

\* "open"; a socket that is terminated in its handshake does not open.
UpstreamOpen(k) ==
    LET c == conn[k] IN
    /\ c.upstream = "connecting"
    /\ Become(k, [c EXCEPT !.upstream = "open",
                           !.phase = IF @ = "connecting" THEN "relaying" ELSE @])

UpstreamMessage(k) ==
    /\ conn[k].upstream \in {"open", "closing"} /\ conn[k].phase = "relaying"
    /\ forward(k, conn[k].client)

UpstreamCloses(k) ==
    /\ conn[k].upstream = "open"
    /\ Become(k, [conn[k] EXCEPT !.upstream = "closing"])

\* "close" and "error", the handshake timeout among them.
UpstreamClosed(k) ==
    /\ conn[k].upstream \in {"connecting", "open", "closing"}
    /\ shutdownLease(k, [conn[k] EXCEPT !.upstream = "closed"])

-----------------------------------------------------------------------------
\* close: the sockets of the lease and every client are terminated.
Close ==
    /\ accepting
    /\ accepting' = FALSE /\ activeLease' = None
    /\ conn' = [k \in Connections |->
           [conn[k] EXCEPT !.client = closeSocket(@),
                           !.upstream = IF k = activeLease THEN closeSocket(@) ELSE @]]

-----------------------------------------------------------------------------
Init ==
    /\ conn = [k \in Connections |-> Gone]
    /\ activeLease = None /\ accepting = TRUE

Ends(k) ==
    \/ conn[k].client = "closing" /\ ClientClosed(k)
    \/ conn[k].upstream \in {"connecting", "closing"} /\ UpstreamClosed(k)
    \/ UpstreamOpen(k)

Next ==
    \/ \E k \in Connections :
          \/ Connect(k)
          \/ AuthenticationFrame(k) \/ RefusedFrame(k) \/ ClientFrame(k)
          \/ AuthenticationTimeout(k)
          \/ ClientCloses(k) \/ ClientClosed(k)
          \/ UpstreamOpen(k) \/ UpstreamMessage(k)
          \/ UpstreamCloses(k) \/ UpstreamClosed(k)
    \/ Close

Spec == Init /\ [][Next]_vars

\* The timers run, a closing socket is closed within its one-second limit, and
\* the handshake of the upstream socket ends within its timeout.
FairSpec ==
    /\ Spec
    /\ \A k \in Connections : WF_vars(AuthenticationTimeout(k)) /\ WF_vars(Ends(k))

-----------------------------------------------------------------------------
(* Properties                                                              *)

\* The lease objects and the sockets have the types of their declarations.
TypeOK ==
    /\ conn \in [Connections -> Connection]
    /\ activeLease \in Connections \union {None}
    /\ accepting \in BOOLEAN

\* One controller at a time: while the server accepts, the connections that are
\* not closed are exactly the one that has the lease, and no other connection
\* has an upstream socket that carries, or may come to carry, signaling.
OneController ==
    accepting => \A k \in Connections :
        /\ (conn[k].phase # "closed") <=> (activeLease = k)
        /\ conn[k].upstream \in {"connecting", "open"} => activeLease = k

\* The signaling server is reached only by an authenticated controller, and no
\* timer and no lease stays behind with a connection that is closed.
RelayIsAuthenticated ==
    \A k \in Connections :
        /\ conn[k].phase \in {"connecting", "relaying"} \/ conn[k].upstream # "none" =>
              conn[k].authenticated
        /\ conn[k].timer => conn[k].phase = "authenticating"
        /\ conn[k].phase = "closed" => conn[k].client # "open" /\ conn[k].upstream # "open"

\* A closed lease stays closed until its sockets are: neither a frame that still
\* arrives nor a late upstream socket brings the connection back to life.
ClosedIsFinal ==
    [][\A k \in Connections :
          conn[k].phase = "closed" /\ ~Released(conn[k]) => conn'[k].phase = "closed"]_vars

\* A controller that does not authenticate, or whose upstream does not answer,
\* does not keep the lease.
LeaseIsFreed ==
    \A k \in Connections :
        (activeLease = k /\ conn[k].phase \in {"authenticating", "connecting"})
            ~> (activeLease # k \/ conn[k].phase = "relaying")

\* When one end of a relay starts to close, or the server is closed, every
\* socket of the connection ends.
SocketsEnd ==
    \A k \in Connections :
        (conn[k].phase = "closed" \/ conn[k].client = "closing") ~> Released(conn[k])

\* The lease and the sockets of a connection come to an end.
ConnectionsEnd == LeaseIsFreed /\ SocketsEnd
=============================================================================
