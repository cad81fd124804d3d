-------------------------- MODULE SignalingGateway --------------------------
(***************************************************************************)
(* The signaling relay of the control plane: SignalingGateway.handle, the  *)
(* SignalingConnectionRegistry and WebSocketSignalingConnector.connect     *)
(* (src/src/signaling/).                                                   *)
(*                                                                         *)
(* A client authenticates with its first frame, the gateway asks the       *)
(* session service, registers a closer for the session, connects to the    *)
(* browser runtime and then relays.  A client's attempts to authenticate   *)
(* are numbered by its frames; MaxFrames bounds how many well-formed       *)
(* authentication frames one client sends.                                 *)
(*                                                                         *)
(* The session service appears as SessionAuthority describes it: it grants *)
(* an authorization only for a live session, and the step that ends a      *)
(* session calls registry.revoke.  A continuation after an await is a step *)
(* of its own, which allows at least the interleavings of the event loop.  *)
(*                                                                         *)
(* The process goes on when a socket in its handshake is aborted; that the *)
(* library's error then ends it is the subject of UpstreamConnector.       *)
(***************************************************************************)
EXTENDS Naturals, FiniteSets

CONSTANTS Clients, SessionIds, None, MaxFrames

ASSUME FramesAssumption == MaxFrames \in Nat \ {0}
ASSUME NoSessionAssumption == None \notin SessionIds \union Nat

VARIABLES
    conn,    \* the closure of handle() for each client
    live     \* sessions that are active in the session service

vars == <<conn, live>>

Frames == 1..MaxFrames

\* phase, authenticationTimer, abortController and the variables upstream and
\* unregister of handle(); the client's readyState; and for each attempt its
\* token, its session, the stage of its connectUpstream, its upstream socket and
\* whether its closer is in the registry.
Connection ==
    [phase : {"new", "authenticating", "connecting", "relaying", "closed"},
     timer : BOOLEAN,
     aborted : BOOLEAN,
     open : BOOLEAN,
     upstream : Frames \union {None},
     unregister : Frames \union {None},
     token : [Frames -> SessionIds \union {None}],
     session : [Frames -> SessionIds \union {None}],
     stage : [Frames -> {"none", "authorizing", "connecting", "rejected", "done"}],
     socket : [Frames -> {"none", "connecting", "ready", "lost", "open", "closed"}],
     registered : SUBSET Frames]

\* A client that has not connected, with tokens it may hold.
NewConnection(tokens) ==
    [phase |-> "new", timer |-> FALSE, aborted |-> FALSE, open |-> FALSE,
     upstream |-> None, unregister |-> None, token |-> tokens,
     session |-> [i \in Frames |-> None], stage |-> [i \in Frames |-> "none"],
     socket |-> [i \in Frames |-> "none"], registered |-> {}]

-----------------------------------------------------------------------------
\* shutdown(code, reason): the abort makes the connector's fail() terminate a
\* socket that is still in its handshake and reject; a socket whose handshake
\* is over no longer listens to the signal.
Shutdown(c) ==
    IF c.phase = "closed" THEN c
    ELSE [c EXCEPT !.phase = "closed", !.timer = FALSE, !.aborted = TRUE, !.open = FALSE,
                   !.registered = @ \ {c.unregister},
                   !.stage = [i \in Frames |->
                       IF c.socket[i] = "connecting" THEN "rejected" ELSE @[i]],
                   !.socket = [i \in Frames |->
                       IF i = c.upstream \/ @[i] = "connecting" THEN "closed" ELSE @[i]]]

\* forward(destination, data): the peer may be gone, its buffer full or the
\* write fail, and each shuts the relay down.
Forwarded(c, peerOpen) == {Shutdown(c)} \union (IF peerOpen THEN {c} ELSE {})

Become(k, c) == conn' = [conn EXCEPT ![k] = c] /\ UNCHANGED live

-----------------------------------------------------------------------------
(* Events of the client's socket                                           *)

\* handle(client)
Accept(k) ==
    /\ conn[k].phase = "new"
    /\ Become(k, [conn[k] EXCEPT !.phase = "authenticating", !.timer = TRUE, !.open = TRUE])

\* A frame that parseAuthenticationFrame accepts starts connectUpstream, which
\* uses up the token and awaits the session service.
AuthenticationFrame(k, i) ==
    LET c == conn[k] IN
    /\ c.open /\ c.phase = "authenticating"
    /\ c.stage[i] = "none" /\ \A j \in 1..(i - 1) : c.stage[j] # "none"
    /\ Become(k, [c EXCEPT !.stage[i] = "authorizing", !.session[i] = c.token[i],
                           !.token[i] = None])

\* A malformed first frame, or any frame before the relay is ready.
RefusedFrame(k) ==
    /\ conn[k].open /\ conn[k].phase \in {"authenticating", "connecting"}
    /\ Become(k, Shutdown(conn[k]))

ClientFrame(k) ==
    LET c == conn[k] IN
    /\ c.open /\ c.phase = "relaying" /\ c.upstream # None
    /\ \E d \in Forwarded(c, c.socket[c.upstream] = "open") : Become(k, d)

\* The client starts to close: its readyState changes before the event.
ClientCloses(k) ==
    /\ conn[k].open
    /\ Become(k, [conn[k] EXCEPT !.open = FALSE])

\* The "close" and "error" events.
ClientClosed(k) ==
    /\ ~conn[k].open /\ conn[k].phase \notin {"new", "closed"}
    /\ Become(k, Shutdown(conn[k]))

AuthenticationTimeout(k) ==
    /\ conn[k].timer
    /\ Become(k, Shutdown(conn[k]))

-----------------------------------------------------------------------------
(* connectUpstream                                                         *)

\* Defect variant: the closer is not registered.
Authorized_NotRegistered(k, i) ==
    LET c == conn[k] IN
    /\ c.stage[i] = "authorizing" /\ c.session[i] \in live
    /\ Become(k, [c EXCEPT !.phase = "connecting", !.timer = FALSE, !.unregister = i,
                           !.stage[i] = IF c.aborted THEN "rejected" ELSE "connecting",
                           !.socket[i] = IF c.aborted THEN "none" ELSE "connecting"])

\* Defect variant: the session may have ended while the client waited.
Authorized_StaleSession(k, i) ==
    LET c == conn[k] IN
    /\ c.stage[i] = "authorizing" /\ c.session[i] # None
    /\ Become(k, [c EXCEPT !.phase = "connecting", !.timer = FALSE, !.unregister = i,
                           !.registered = @ \union {i},
                           !.stage[i] = IF c.aborted THEN "rejected" ELSE "connecting",
                           !.socket[i] = IF c.aborted THEN "none" ELSE "connecting"])

\* authorizeSignalingToken resolves.  Nothing asks whether the client has been
\* shut down meanwhile: connect sees the aborted signal and rejects.
Authorized(k, i) ==
    LET c == conn[k] IN
    /\ c.stage[i] = "authorizing" /\ c.session[i] \in live
    /\ Become(k, [c EXCEPT !.phase = "connecting", !.timer = FALSE, !.unregister = i,
                           !.registered = @ \union {i},
                           !.stage[i] = IF c.aborted THEN "rejected" ELSE "connecting",
                           !.socket[i] = IF c.aborted THEN "none" ELSE "connecting"])

\* authorizeSignalingToken rejects: unknown, used or expired token, a session
\* that is not active, or a runtime that cannot be inspected.
Unauthorized(k, i) ==
    /\ conn[k].stage[i] = "authorizing"
    /\ Become(k, Shutdown([conn[k] EXCEPT !.stage[i] = "done"]))

\* The runtime answers the handshake and connect resolves.
HandshakeSucceeds(k, i) ==
    /\ conn[k].socket[i] = "connecting"
    /\ Become(k, [conn[k] EXCEPT !.socket[i] = "ready"])

\* A target that validateTarget refuses, the connect timeout, an error, a close,
\* an unexpected response or a wrong first frame: fail().
HandshakeFails(k, i) ==
    /\ conn[k].socket[i] = "connecting"
    /\ Become(k, [conn[k] EXCEPT !.socket[i] = "closed", !.stage[i] = "rejected"])

\* The catch block of connectUpstream.
ConnectRejected(k, i) ==
    /\ conn[k].stage[i] = "rejected"
    /\ Become(k, Shutdown([conn[k] EXCEPT !.stage[i] = "done"]))

\* Defect variant: neither the aborted signal nor the client's readyState is
\* looked at before the relay begins.
Connected_Unchecked(k, i) ==
    LET c == conn[k] IN
    /\ c.stage[i] = "connecting" /\ c.socket[i] \in {"ready", "lost"}
    /\ Become(k, [c EXCEPT !.stage[i] = "done", !.upstream = i, !.phase = "relaying",
                           !.socket[i] = IF @ = "ready" THEN "open" ELSE "closed"])

\* connect resolved: the socket becomes the client's upstream, "ready" is sent,
\* and activate delivers what the runtime did meanwhile.
Connected(k, i) ==
    LET c == conn[k]
        r == [c EXCEPT !.stage[i] = "done", !.upstream = i, !.phase = "relaying",
                       !.socket[i] = IF @ = "ready" THEN "open" ELSE "closed"]
    IN  /\ c.stage[i] = "connecting" /\ c.socket[i] \in {"ready", "lost"}
        /\ \/ /\ c.aborted
              /\ Become(k, [c EXCEPT !.stage[i] = "done", !.socket[i] = "closed"])
           \/ /\ ~c.aborted /\ c.socket[i] = "lost"
              /\ Become(k, Shutdown(r))
           \/ /\ ~c.aborted /\ c.socket[i] = "ready"
              /\ \E d \in Forwarded(r, r.open) : Become(k, d)

\* The runtime closes or fails after the handshake; before activate the event is
\* kept, as it is when too many messages are.
UpstreamEnds(k, i) ==
    LET c == conn[k] IN
    \/ c.socket[i] = "ready" /\ Become(k, [c EXCEPT !.socket[i] = "lost"])
    \/ c.socket[i] = "open" /\ Become(k, Shutdown([c EXCEPT !.socket[i] = "closed"]))

\* onMessage of an activated upstream socket.
UpstreamMessage(k, i) ==
    LET c == conn[k] IN
    /\ c.socket[i] = "open"
    /\ \E d \in Forwarded(c, c.open) : Become(k, d)

-----------------------------------------------------------------------------
\* Defect variant: revoke drops the closers without calling them.
Revoke_Forgets(s) ==
    /\ s \in live
    /\ live' = live \ {s}
    /\ conn' = [k \in Clients |->
           [conn[k] EXCEPT !.token = [i \in Frames |-> IF @[i] = s THEN None ELSE @[i]],
                           !.registered = {i \in @ : conn[k].session[i] # s}]]

\* The session service ends a session: its tokens are void, and registry.revoke
\* calls every closer that is registered for it.
Revoke(s) ==
    /\ s \in live
    /\ live' = live \ {s}
    /\ conn' = [k \in Clients |->
           LET c == conn[k]
               mine == {i \in c.registered : c.session[i] = s}
               shut == IF mine # {} THEN Shutdown(c) ELSE c
           IN  [shut EXCEPT !.token = [i \in Frames |-> IF @[i] = s THEN None ELSE @[i]],
                            !.registered = @ \ mine]]

-----------------------------------------------------------------------------
Init ==
    /\ conn \in [Clients -> {NewConnection(tokens) :
                                 tokens \in [Frames -> SessionIds \union {None}]}]
    /\ live = SessionIds

ClientEvent(k) ==
    \/ Accept(k)
    \/ \E i \in Frames : AuthenticationFrame(k, i)
    \/ RefusedFrame(k)
    \/ ClientFrame(k)
    \/ ClientCloses(k)

Progress(k) ==
    \/ ClientClosed(k)
    \/ AuthenticationTimeout(k)
    \/ \E i \in Frames :
          \/ Authorized(k, i)
          \/ Unauthorized(k, i)
          \/ HandshakeFails(k, i)
          \/ ConnectRejected(k, i)
          \/ Connected(k, i)

Next ==
    \/ \E k \in Clients :
          \/ ClientEvent(k)
          \/ Progress(k)
          \/ \E i \in Frames :
                HandshakeSucceeds(k, i) \/ UpstreamEnds(k, i) \/ UpstreamMessage(k, i)
    \/ \E s \in SessionIds : Revoke(s)

Spec == Init /\ [][Next]_vars

\* The timers are armed, every call to the session service is answered, and the
\* event loop runs continuations and "close" events.
FairSpec ==
    /\ Spec
    /\ \A k \in Clients :
          /\ WF_vars(ClientClosed(k))
          /\ WF_vars(AuthenticationTimeout(k))
          /\ \A i \in Frames :
                /\ WF_vars(Authorized(k, i) \/ Unauthorized(k, i))
                /\ WF_vars(HandshakeSucceeds(k, i) \/ HandshakeFails(k, i))
                /\ WF_vars(ConnectRejected(k, i))
                /\ WF_vars(Connected(k, i))

-----------------------------------------------------------------------------
(* Properties                                                              *)

\* The closures have the types their declarations give them.
TypeOK ==
    /\ conn \in [Clients -> Connection]
    /\ live \subseteq SessionIds

\* The upstream sockets that carry, or may come to carry, a client's traffic.
Attached(c) == {i \in Frames : c.socket[i] \in {"connecting", "ready", "open"}}

\* As long as a client has not been shut down, every upstream socket it has is
\* covered by a closer in the registry, so that the end of its session reaches
\* it in whatever phase it is.
UpstreamIsRevocable ==
    \A k \in Clients : ~conn[k].aborted => Attached(conn[k]) \subseteq conn[k].registered

\* No relay outlives its session: a socket through which data passes belongs to
\* a session that is live (README.md: a burn revokes the active and pending
\* relays before the cleanup).
RelayOnlyWhileLive ==
    \A k \in Clients, i \in Frames : conn[k].socket[i] = "open" => conn[k].session[i] \in live

\* When a client has been shut down and its attempts have ended, nothing of it
\* is left: no timer, no socket and no closer in the registry.
ClosedLeavesNothing ==
    \A k \in Clients :
        LET c == conn[k] IN
        c.phase = "closed" /\ (\A i \in Frames : c.stage[i] \in {"none", "done"}) =>
            ~c.open /\ ~c.timer /\ c.registered = {} /\ Attached(c) = {}

\* The registry of closers is exact: it covers every socket that must be
\* reached when its session ends, and holds nothing of a client that is gone.
RegistryIsExact == UpstreamIsRevocable /\ ClosedLeavesNothing

\* A client that has been told "ready" relays through the socket of its latest
\* attempt until it is shut down, and it is never back in an earlier phase: a
\* late authorization or connection cannot revive it.
NoRevival ==
    [][\A k \in Clients :
          /\ conn[k].phase = "relaying" => conn'[k].phase \in {"relaying", "closed"}
          /\ conn[k].aborted => conn'[k].aborted /\ conn'[k].phase # "relaying"]_vars

\* An unauthenticated client does not stay: the timer or an answer ends it.
AuthenticationEnds ==
    \A k \in Clients : (conn[k].phase = "authenticating") ~> (conn[k].phase # "authenticating")

\* After the end of a session every upstream socket of it is closed.
SocketsEndWithSession ==
    \A k \in Clients, i \in Frames :
        (conn[k].session[i] \in SessionIds \ live) ~> (i \notin Attached(conn[k]))

\* What has to end ends: the wait for an authentication, and the sockets of a
\* session that is over.
RelaysEnd == AuthenticationEnds /\ SocketsEndWithSession

-----------------------------------------------------------------------------
(* The registry's closers are the relays of SessionAuthority: each answers *)
(* one presented token, while the session is live.                         *)

Attempts == Clients \X Frames

tickets == [a \in Attempts |-> None]

tokens == [a \in Attempts |-> conn[a[1]].token[a[2]]]

claims == [a \in Attempts |->
              IF conn[a[1]].stage[a[2]] = "authorizing" /\ conn[a[1]].session[a[2]] # None
              THEN [kind |-> "token", id |-> conn[a[1]].session[a[2]]]
              ELSE [kind |-> "none", id |-> None]]

relays == [s \in SessionIds |-> {a \in Attempts :
              a[2] \in conn[a[1]].registered /\ conn[a[1]].session[a[2]] = s}]

Authority == INSTANCE SessionAuthority WITH Credentials <- Attempts, Requests <- Attempts

\* The gateway takes only the authority's steps: a closer is registered as the
\* answer to one presented token of a live session, and none survives the end
\* of the session.
FollowsAuthority == [][Authority!Next]_(Authority!avars)
=============================================================================
