--------------------------- MODULE SignalingProofs ---------------------------
(***************************************************************************)
(* Theorems about SignalingGateway, for any number of clients and          *)
(* sessions.  That a closer reaches every upstream socket holds for any    *)
(* number of authentication frames; what is proved of the relays holds for *)
(* clients that send one, as gateway_frames shows.                         *)
(*                                                                         *)
(* The last part is about UpstreamConnector, for any limits and any number *)
(* of frames.                                                              *)
(***************************************************************************)
EXTENDS SignalingGateway, UpstreamConnector, SequenceTheorems, FiniteSetTheorems,
        NaturalsInduction, TLAPS

(***************************************************************************)
(* Any number of frames                                                    *)
(***************************************************************************)

\* What one client must keep, for every frame it may send.
Covered(c) ==
    /\ c.phase = "closed" => c.aborted
    /\ ~c.aborted => \A i \in Frames :
          c.socket[i] \in {"connecting", "ready", "open"} => i \in c.registered

RInv == TypeOK /\ \A k \in Clients : Covered(conn[k])

LEMMA ShutdownCovered ==
    ASSUME NEW c \in Connection, c.phase = "closed" => c.aborted
    PROVE  Shutdown(c) \in Connection /\ Covered(Shutdown(c)) /\ Shutdown(c).aborted
<1>1. CASE c.phase = "closed"
  BY <1>1 DEF Shutdown, Covered
<1>2. CASE c.phase # "closed"
  <2> DEFINE stage == [i \in Frames |-> IF c.socket[i] = "connecting" THEN "rejected" ELSE c.stage[i]]
             newSocket == [i \in Frames |-> IF i = c.upstream \/ c.socket[i] = "connecting"
                                         THEN "closed" ELSE c.socket[i]]
             registered == c.registered \ {c.unregister}
  <2>1. /\ stage \in [Frames -> {"none", "authorizing", "connecting", "rejected", "done"}]
        /\ newSocket \in [Frames -> {"none", "connecting", "ready", "lost", "open", "closed"}]
        /\ registered \in SUBSET Frames
    BY DEF Connection
  <2>2. Shutdown(c) = [c EXCEPT !.phase = "closed", !.timer = FALSE, !.aborted = TRUE,
                                !.open = FALSE, !.registered = registered,
                                !.stage = stage, !.socket = newSocket]
    BY <1>2 DEF Shutdown, Connection
  <2> HIDE DEF stage, newSocket, registered
  <2>3. Shutdown(c) \in Connection
    BY <2>1, <2>2 DEF Connection
  <2>4. Shutdown(c).phase = "closed" /\ Shutdown(c).aborted = TRUE
    BY <2>2 DEF Connection
  <2> QED
    BY <2>3, <2>4 DEF Covered
<1> QED
  BY <1>1, <1>2

LEMMA UpdateCovered ==
    ASSUME RInv, NEW k \in Clients, NEW d \in Connection, Covered(d), Become(k, d)
    PROVE  RInv'
<1>1. \A j \in Clients : conn'[j] = IF j = k THEN d ELSE conn[j]
  BY DEF RInv, TypeOK, Become
<1>2. TypeOK'
  BY DEF RInv, TypeOK, Become
<1>3. \A j \in Clients : Covered(conn[j])'
  BY <1>1 DEF RInv, Covered, Attached
<1> QED
  BY <1>2, <1>3 DEF RInv

\* Steps that shut a client down, after a change that leaves its phase alone.
LEMMA ShutsDownCovered ==
    ASSUME RInv, NEW k \in Clients, NEW c \in Connection, c.phase = "closed" => c.aborted,
           Become(k, Shutdown(c))
    PROVE  RInv'
BY ShutdownCovered, UpdateCovered

LEMMA StepCovered == RInv /\ [Next]_vars => RInv'
<1> SUFFICES ASSUME RInv, [Next]_vars PROVE RInv'
  OBVIOUS
<1>0. \A k \in Clients : conn[k] \in Connection /\ Covered(conn[k])
  BY DEF RInv, TypeOK
<1>1. ASSUME NEW k \in Clients, Become(k, Shutdown(conn[k])) PROVE RInv'
  BY <1>0, <1>1, ShutsDownCovered DEF Covered
<1>2. ASSUME NEW k \in Clients, Become(k, conn[k]) PROVE RInv'
  BY <1>0, <1>2, UpdateCovered
<1>3. ASSUME NEW k \in Clients, ClientEvent(k) PROVE RInv'
  <2> DEFINE c == conn[k]
  <2>0. c \in Connection /\ Covered(c)
    BY <1>0
  <2> HIDE DEF c
  <2>1. CASE Accept(k)
    <3> DEFINE d == [c EXCEPT !.phase = "authenticating", !.timer = TRUE, !.open = TRUE]
    <3>1. d \in Connection
      BY <2>0 DEF Connection
    <3>2. Covered(d)
      BY <2>0 DEF Covered, Connection
    <3> QED
      BY <2>1, <3>1, <3>2, UpdateCovered DEF Accept, c
  <2>2. ASSUME NEW i \in Frames, AuthenticationFrame(k, i) PROVE RInv'
    <3> DEFINE d == [c EXCEPT !.stage[i] = "authorizing", !.session[i] = c.token[i],
                                    !.token[i] = None]
    <3>1. d \in Connection
      BY <2>0 DEF Connection
    <3>2. Covered(d)
      BY <2>0 DEF Covered, Connection
    <3> QED
      BY <2>2, <3>1, <3>2, UpdateCovered DEF AuthenticationFrame, c
  <2>3. CASE ClientCloses(k)
    <3> DEFINE d == [c EXCEPT !.open = FALSE]
    <3>1. d \in Connection
      BY <2>0 DEF Connection
    <3>2. Covered(d)
      BY <2>0 DEF Covered, Connection
    <3> QED
      BY <2>3, <3>1, <3>2, UpdateCovered DEF ClientCloses, c
  <2>4. CASE RefusedFrame(k)
    BY <1>1, <2>4 DEF RefusedFrame, c
  <2>5. CASE ClientFrame(k)
    BY <1>1, <1>2, <2>5 DEF ClientFrame, Forwarded, c
  <2> QED
    BY <1>3, <2>1, <2>2, <2>3, <2>4, <2>5 DEF ClientEvent
<1>4. ASSUME NEW k \in Clients, ClientClosed(k) \/ AuthenticationTimeout(k) PROVE RInv'
  BY <1>1, <1>4 DEF ClientClosed, AuthenticationTimeout
<1>5. ASSUME NEW k \in Clients, NEW i \in Frames, Authorized(k, i) PROVE RInv'
  <2> DEFINE c == conn[k]
  <2>0. c \in Connection /\ Covered(c)
    BY <1>0
  <2> HIDE DEF c
  <2> DEFINE stage == IF c.aborted THEN "rejected" ELSE "connecting"
             newSocket == IF c.aborted THEN "none" ELSE "connecting"
             d == [c EXCEPT !.phase = "connecting", !.timer = FALSE, !.unregister = i,
                                  !.registered = @ \union {i}, !.stage[i] = stage,
                                  !.socket[i] = newSocket]
  <2>1. /\ stage \in {"rejected", "connecting"} /\ newSocket \in {"none", "connecting"}
        /\ Become(k, d)
    BY <1>5 DEF Authorized, c
  <2> HIDE DEF stage, newSocket
  <2>2. d \in Connection
    BY <2>0, <2>1 DEF Connection
  <2>3. Covered(d)
    BY <2>0, <2>1 DEF Covered, Connection
  <2> HIDE DEF d
  <2> QED
    BY <2>1, <2>2, <2>3, UpdateCovered
<1>6. ASSUME NEW k \in Clients, NEW i \in Frames, Unauthorized(k, i) \/ ConnectRejected(k, i)
      PROVE  RInv'
  <2> DEFINE c == conn[k]
  <2>0. c \in Connection /\ Covered(c)
    BY <1>0
  <2> HIDE DEF c
  <2> DEFINE e == [c EXCEPT !.stage[i] = "done"]
  <2>1. e \in Connection /\ (e.phase = "closed" => e.aborted)
    BY <2>0 DEF Connection, Covered
  <2> QED
    BY <1>6, <2>1, ShutsDownCovered DEF Unauthorized, ConnectRejected, c
<1>7. ASSUME NEW k \in Clients, NEW i \in Frames, HandshakeSucceeds(k, i) PROVE RInv'
  <2> DEFINE c == conn[k]
  <2>0. c \in Connection /\ Covered(c)
    BY <1>0
  <2> HIDE DEF c
  <2> DEFINE d == [c EXCEPT !.socket[i] = "ready"]
  <2>1. d \in Connection
    BY <2>0 DEF Connection
  <2>2. Covered(d)
    BY <2>0, <1>7 DEF Covered, Connection, HandshakeSucceeds, c
  <2> QED
    BY <1>7, <2>1, <2>2, UpdateCovered DEF HandshakeSucceeds, c
<1>8. ASSUME NEW k \in Clients, NEW i \in Frames, HandshakeFails(k, i) PROVE RInv'
  <2> DEFINE c == conn[k]
  <2>0. c \in Connection /\ Covered(c)
    BY <1>0
  <2> HIDE DEF c
  <2> DEFINE d == [c EXCEPT !.socket[i] = "closed", !.stage[i] = "rejected"]
  <2>1. d \in Connection
    BY <2>0 DEF Connection
  <2>2. Covered(d)
    BY <2>0 DEF Covered, Connection
  <2> QED
    BY <1>8, <2>1, <2>2, UpdateCovered DEF HandshakeFails, c
<1>9. ASSUME NEW k \in Clients, NEW i \in Frames, Connected(k, i) PROVE RInv'
  <2> DEFINE c == conn[k]
  <2>0. c \in Connection /\ Covered(c)
    BY <1>0
  <2> HIDE DEF c
  <2> DEFINE newSocket == IF c.socket[i] = "ready" THEN "open" ELSE "closed"
             r == [c EXCEPT !.stage[i] = "done", !.upstream = i, !.phase = "relaying",
                                  !.socket[i] = newSocket]
             a == [c EXCEPT !.stage[i] = "done", !.socket[i] = "closed"]
  <2>1. Become(k, a) \/ Become(k, Shutdown(r)) \/ Become(k, r)
    <3>1. r = [c EXCEPT !.stage[i] = "done", !.upstream = i, !.phase = "relaying",
                              !.socket[i] = IF @ = "ready" THEN "open" ELSE "closed"]
      BY <2>0 DEF Connection
    <3> HIDE DEF r, a
    <3> QED
      BY <1>9, <3>1 DEF Connected, Forwarded, a, c
  <2>2. a \in Connection /\ r \in Connection
    BY <2>0 DEF Connection
  <2>3. Covered(a)
    BY <2>0 DEF Covered, Connection
  <2>4. Covered(r)
    BY <2>0, <1>9 DEF Covered, Connection, Connected, c
  <2>5. r.phase = "closed" => r.aborted
    BY <2>4 DEF Covered
  <2> HIDE DEF r, a
  <2> QED
    BY <2>1, <2>2, <2>3, <2>4, <2>5, UpdateCovered, ShutsDownCovered
<1>10. ASSUME NEW k \in Clients, NEW i \in Frames, UpstreamEnds(k, i) PROVE RInv'
  <2> DEFINE c == conn[k]
  <2>0. c \in Connection /\ Covered(c)
    BY <1>0
  <2> HIDE DEF c
  <2> DEFINE e == [c EXCEPT !.socket[i] = "closed"]
             d == [c EXCEPT !.socket[i] = "lost"]
  <2>1. e \in Connection /\ d \in Connection /\ (e.phase = "closed" => e.aborted)
    BY <2>0 DEF Connection, Covered
  <2>2. Covered(d)
    BY <2>0 DEF Covered, Connection
  <2> QED
    BY <1>10, <2>1, <2>2, UpdateCovered, ShutsDownCovered DEF UpstreamEnds, c
<1>11. ASSUME NEW k \in Clients, NEW i \in Frames, UpstreamMessage(k, i) PROVE RInv'
  BY <1>1, <1>2, <1>11 DEF UpstreamMessage, Forwarded
<1>12. ASSUME NEW s \in SessionIds, Revoke(s) PROVE RInv'
  <2> DEFINE mine(k) == {i \in conn[k].registered : conn[k].session[i] = s}
             shut(k) == IF mine(k) # {} THEN Shutdown(conn[k]) ELSE conn[k]
             token(k) == [i \in Frames |-> IF shut(k).token[i] = s THEN None ELSE shut(k).token[i]]
             d(k) == [shut(k) EXCEPT !.token = token(k), !.registered = shut(k).registered \ mine(k)]
  <2>1. ASSUME NEW k \in Clients PROVE d(k) \in Connection /\ Covered(d(k))
    <3>1. /\ shut(k) \in Connection /\ Covered(shut(k))
          /\ mine(k) # {} => shut(k).aborted
      BY <1>0, ShutdownCovered DEF Covered
    <3>2. token(k) \in [Frames -> SessionIds \union {None}]
      BY <3>1 DEF Connection
    <3> HIDE DEF shut, token, mine
    <3>3. d(k) \in Connection
      BY <3>1, <3>2 DEF Connection
    <3>4. /\ d(k).phase = shut(k).phase /\ d(k).aborted = shut(k).aborted
          /\ d(k).registered = shut(k).registered \ mine(k)
          /\ d(k).socket = shut(k).socket
      BY <3>1 DEF Connection
    <3> HIDE DEF d
    <3>5. Covered(d(k))
      BY <3>1, <3>4 DEF Covered, Attached
    <3> QED
      BY <3>3, <3>5
  <2>2. conn' = [k \in Clients |-> d(k)] /\ live' \subseteq SessionIds
    <3>1. conn' = [k \in Clients |-> [shut(k) EXCEPT !.token = [i \in Frames |-> IF @[i] = s THEN None ELSE @[i]],
                                                    !.registered = @ \ mine(k)]]
      BY <1>12 DEF Revoke
    <3>2. \A k \in Clients : [shut(k) EXCEPT !.token = [i \in Frames |-> IF @[i] = s THEN None ELSE @[i]],
                                             !.registered = @ \ mine(k)] = d(k)
      <4> SUFFICES ASSUME NEW k \in Clients
                   PROVE  [shut(k) EXCEPT !.token = [i \in Frames |-> IF @[i] = s THEN None ELSE @[i]],
                                          !.registered = @ \ mine(k)] = d(k)
        OBVIOUS
      <4>1. shut(k) \in Connection
        BY <1>0, ShutdownCovered DEF Covered
      <4> HIDE DEF shut, mine
      <4> QED
        BY <4>1 DEF Connection
    <3> HIDE DEF d, shut, mine
    <3> QED
      BY <1>12, <3>1, <3>2 DEF Revoke, RInv, TypeOK
  <2> HIDE DEF d
  <2>3. TypeOK'
    BY <2>1, <2>2 DEF TypeOK
  <2>4. \A k \in Clients : Covered(conn[k])'
    BY <2>1, <2>2 DEF Covered, Attached
  <2> QED
    BY <2>3, <2>4 DEF RInv
<1>13. CASE UNCHANGED vars
  BY <1>13 DEF vars, RInv, TypeOK, Covered, Attached
<1> QED
  BY <1>3, <1>4, <1>5, <1>6, <1>7, <1>8, <1>9, <1>10, <1>11, <1>12, <1>13 DEF Next, Progress

LEMMA InitRInv == Init => RInv
<1> SUFFICES ASSUME Init PROVE RInv
  OBVIOUS
<1>1. ASSUME NEW issued \in [Frames -> SessionIds \union {None}]
      PROVE  NewConnection(issued) \in Connection /\ Covered(NewConnection(issued))
  BY DEF NewConnection, Connection, Covered
<1>2. \A k \in Clients : conn[k] \in Connection /\ Covered(conn[k])
  BY <1>1 DEF Init
<1> QED
  BY <1>2 DEF Init, RInv, TypeOK

LEMMA RInvariance == Spec => []RInv
BY InitRInv, StepCovered, PTL DEF Spec

(***************************************************************************)
(* As long as handle() has not shut a client down, every upstream socket   *)
(* of it has a closer in SignalingConnectionRegistry, however many frames  *)
(* the client sends.                                                       *)
(***************************************************************************)
THEOREM SocketsStayRevocable == Spec => []UpstreamIsRevocable
<1>1. RInv => UpstreamIsRevocable
  BY DEF RInv, Covered, UpstreamIsRevocable, Attached
<1> QED
  BY <1>1, RInvariance, PTL

(***************************************************************************)
(* One authentication frame per client                                     *)
(***************************************************************************)

\* The closure of handle() when its one attempt is at each stage.
Consistent(c) ==
    /\ c.registered \subseteq {c.unregister}
    /\ c.stage[1] \in {"none", "authorizing"} =>
          c.socket[1] = "none" /\ c.upstream # 1 /\ c.registered = {}
    /\ c.stage[1] = "connecting" <=> c.socket[1] \in {"connecting", "ready", "lost"}
    /\ c.stage[1] = "rejected" => c.socket[1] \in {"none", "closed"}
    /\ c.upstream = 1 => c.stage[1] = "done"
    /\ c.socket[1] = "open" => c.upstream = 1

\* What each phase tells of the rest.
PhaseTells(c) ==
    /\ c.phase = "new" => c.stage[1] = "none" /\ ~c.aborted /\ ~c.timer /\ ~c.open
    /\ c.phase = "authenticating" => c.stage[1] \in {"none", "authorizing"} /\ ~c.aborted
    /\ c.phase = "connecting" =>
          /\ c.stage[1] \in {"connecting", "rejected"} /\ ~c.timer
          /\ c.aborted => c.stage[1] = "rejected" /\ ~c.open
    /\ c.phase = "relaying" =>
          /\ c.stage[1] = "done" /\ c.socket[1] = "open" /\ c.upstream = 1
          /\ ~c.aborted /\ ~c.timer
    /\ c.phase = "closed" =>
          /\ c.aborted /\ ~c.timer /\ ~c.open /\ c.registered = {}
          /\ c.socket[1] # "connecting"
    /\ c.socket[1] = "open" => c.phase = "relaying"

Sound(c) == Consistent(c) /\ PhaseTells(c)

Granted(c) == c.registered # {} => c.session[1] \in live

SInv == \A k \in Clients : Sound(conn[k]) /\ Granted(conn[k])

LEMMA OneFrame ==
    ASSUME MaxFrames = 1
    PROVE  Frames = {1} /\ 1 \in Frames
BY DEF Frames

LEMMA ShutdownSound ==
    ASSUME MaxFrames = 1, NEW c \in Connection, Consistent(c), c.phase = "closed" => Sound(c)
    PROVE  /\ Sound(Shutdown(c)) /\ Shutdown(c).phase = "closed"
           /\ Shutdown(c).session = c.session /\ Shutdown(c).registered = {}
<1>0. Frames = {1} /\ 1 \in Frames
  BY OneFrame
<1>1. CASE c.phase = "closed"
  BY <1>1 DEF Shutdown, Sound, PhaseTells
<1>2. CASE c.phase # "closed"
  <2> DEFINE d == Shutdown(c)
  <2>1. /\ d.phase = "closed" /\ d.timer = FALSE /\ d.aborted = TRUE /\ d.open = FALSE
        /\ d.registered = c.registered \ {c.unregister}
        /\ d.upstream = c.upstream /\ d.unregister = c.unregister /\ d.session = c.session
        /\ d.stage[1] = (IF c.socket[1] = "connecting" THEN "rejected" ELSE c.stage[1])
        /\ d.socket[1] = (IF 1 = c.upstream \/ c.socket[1] = "connecting" THEN "closed"
                          ELSE c.socket[1])
    BY <1>0, <1>2 DEF Shutdown, Connection
  <2> HIDE DEF d
  <2>2. d.registered = {}
    BY <2>1 DEF Consistent
  <2>3. Consistent(d)
    BY <2>1, <2>2 DEF Consistent
  <2>4. PhaseTells(d)
    BY <2>1, <2>2 DEF Consistent, PhaseTells
  <2> QED
    BY <2>1, <2>2, <2>3, <2>4 DEF Sound, d
<1> QED
  BY <1>1, <1>2

LEMMA UpdateSound ==
    ASSUME RInv, SInv, NEW k \in Clients, NEW d, Become(k, d), Sound(d), Granted(d)
    PROVE  SInv'
<1>1. \A j \in Clients : conn'[j] = IF j = k THEN d ELSE conn[j]
  BY DEF RInv, TypeOK, Become
<1>2. live' = live
  BY DEF Become
<1>3. Sound(conn[k])' /\ Granted(conn[k])'
  BY <1>1, <1>2 DEF Sound, Consistent, PhaseTells, Granted
<1>4. ASSUME NEW j \in Clients \ {k} PROVE Sound(conn[j])' /\ Granted(conn[j])'
  BY <1>1, <1>2 DEF SInv, Sound, Consistent, PhaseTells, Granted
<1> QED
  BY <1>3, <1>4 DEF SInv

LEMMA ShutsDownSound ==
    ASSUME MaxFrames = 1, RInv, SInv, NEW k \in Clients, NEW c \in Connection,
           Consistent(c), c.phase = "closed" => Sound(c), Become(k, Shutdown(c))
    PROVE  SInv'
BY ShutdownSound, UpdateSound DEF Granted

\* A step that keeps the socket and the registration, by its fields.
LEMMA StepSound ==
    ASSUME MaxFrames = 1
    PROVE  RInv /\ SInv /\ [Next]_vars => SInv'
<1> SUFFICES ASSUME RInv, SInv, [Next]_vars PROVE SInv'
  OBVIOUS
<1>a. Frames = {1} /\ 1 \in Frames
  BY OneFrame
<1>0. \A k \in Clients : conn[k] \in Connection /\ Sound(conn[k]) /\ Granted(conn[k])
  BY DEF RInv, TypeOK, SInv
<1>1. ASSUME NEW k \in Clients, Become(k, Shutdown(conn[k])) PROVE SInv'
  BY <1>0, <1>1, ShutsDownSound DEF Sound
<1>2. ASSUME NEW k \in Clients, Become(k, conn[k]) PROVE SInv'
  BY <1>0, <1>2, UpdateSound
<1>3. ASSUME NEW k \in Clients, ClientEvent(k) PROVE SInv'
  <2> DEFINE c == conn[k]
  <2>0. c \in Connection /\ Sound(c) /\ Granted(c)
    BY <1>0
  <2> HIDE DEF c
  <2>1. CASE Accept(k)
    <3> DEFINE d == [c EXCEPT !.phase = "authenticating", !.timer = TRUE, !.open = TRUE]
    <3>1. c.phase = "new" /\ Become(k, d)
      BY <2>1 DEF Accept, c
    <3>2. /\ d.phase = "authenticating" /\ d.aborted = c.aborted /\ d.stage = c.stage
          /\ d.socket = c.socket /\ d.registered = c.registered /\ d.session = c.session
          /\ d.upstream = c.upstream /\ d.unregister = c.unregister
      BY <2>0 DEF Connection
    <3> HIDE DEF d
    <3>3. Sound(d) /\ Granted(d)
      BY <2>0, <3>1, <3>2 DEF Sound, Consistent, PhaseTells, Granted
    <3> QED
      BY <3>1, <3>3, UpdateSound
  <2>2. ASSUME NEW i \in Frames, AuthenticationFrame(k, i) PROVE SInv'
    <3> DEFINE d == [c EXCEPT !.stage[i] = "authorizing", !.session[i] = c.token[i],
                              !.token[i] = None]
    <3>1. c.phase = "authenticating" /\ c.stage[1] = "none" /\ Become(k, d)
      BY <1>a, <2>2 DEF AuthenticationFrame, c
    <3>2. /\ d.phase = "authenticating" /\ d.aborted = c.aborted /\ d.stage[1] = "authorizing"
          /\ d.socket = c.socket /\ d.registered = c.registered
          /\ d.upstream = c.upstream /\ d.unregister = c.unregister
      BY <1>a, <2>0, <3>1 DEF Connection
    <3> HIDE DEF d
    <3>3. Sound(d) /\ Granted(d)
      BY <2>0, <3>1, <3>2 DEF Sound, Consistent, PhaseTells, Granted
    <3> QED
      BY <3>1, <3>3, UpdateSound
  <2>3. CASE ClientCloses(k)
    <3> DEFINE d == [c EXCEPT !.open = FALSE]
    <3>1. c.open /\ Become(k, d)
      BY <2>3 DEF ClientCloses, c
    <3>2. /\ d.phase = c.phase /\ d.aborted = c.aborted /\ d.stage = c.stage
          /\ d.socket = c.socket /\ d.registered = c.registered /\ d.session = c.session
          /\ d.upstream = c.upstream /\ d.unregister = c.unregister
          /\ d.timer = c.timer /\ d.open = FALSE
      BY <2>0 DEF Connection
    <3> HIDE DEF d
    <3>3. Sound(d) /\ Granted(d)
      BY <2>0, <3>2 DEF Sound, Consistent, PhaseTells, Granted
    <3> QED
      BY <3>1, <3>3, UpdateSound
  <2>4. CASE RefusedFrame(k)
    BY <1>1, <2>4 DEF RefusedFrame
  <2>5. CASE ClientFrame(k)
    BY <1>1, <1>2, <2>5 DEF ClientFrame, Forwarded
  <2> QED
    BY <1>3, <2>1, <2>2, <2>3, <2>4, <2>5 DEF ClientEvent
<1>4. ASSUME NEW k \in Clients, ClientClosed(k) \/ AuthenticationTimeout(k) PROVE SInv'
  BY <1>1, <1>4 DEF ClientClosed, AuthenticationTimeout
<1>5. ASSUME NEW k \in Clients, NEW i \in Frames, Authorized(k, i) PROVE SInv'
  <2> DEFINE c == conn[k]
  <2>0. c \in Connection /\ Sound(c) /\ Granted(c)
    BY <1>0
  <2> HIDE DEF c
  <2> DEFINE stage == IF c.aborted THEN "rejected" ELSE "connecting"
             newSocket == IF c.aborted THEN "none" ELSE "connecting"
             d == [c EXCEPT !.phase = "connecting", !.timer = FALSE, !.unregister = i,
                            !.registered = @ \union {i}, !.stage[i] = stage,
                            !.socket[i] = newSocket]
  <2>1. /\ IF c.aborted THEN stage = "rejected" /\ newSocket = "none"
           ELSE stage = "connecting" /\ newSocket = "connecting"
        /\ c.stage[1] = "authorizing" /\ c.session[1] \in live
        /\ Become(k, d)
    BY <1>a, <1>5 DEF Authorized, c
  <2> HIDE DEF stage, newSocket
  <2>2. /\ d.phase = "connecting" /\ d.aborted = c.aborted /\ d.stage[1] = stage
        /\ d.socket[1] = newSocket /\ d.registered = c.registered \union {1}
        /\ d.session = c.session /\ d.upstream = c.upstream /\ d.unregister = 1
        /\ d.timer = FALSE /\ d.open = c.open
    BY <1>a, <2>0 DEF Connection
  <2> HIDE DEF d
  <2>3. c.registered = {} /\ c.upstream # 1 /\ (c.aborted => ~c.open)
    BY <2>0, <2>1 DEF Sound, Consistent, PhaseTells, Connection
  <2>4. Sound(d) /\ Granted(d)
    BY <2>1, <2>2, <2>3 DEF Sound, Consistent, PhaseTells, Granted
  <2> QED
    BY <2>1, <2>4, UpdateSound
<1>6. ASSUME NEW k \in Clients, NEW i \in Frames, Unauthorized(k, i) \/ ConnectRejected(k, i)
      PROVE  SInv'
  <2> DEFINE c == conn[k]
             e == [c EXCEPT !.stage[i] = "done"]
  <2>0. c \in Connection /\ Sound(c) /\ Granted(c)
    BY <1>0
  <2>1. c.stage[1] \in {"authorizing", "rejected"} /\ Become(k, Shutdown(e))
    BY <1>a, <1>6 DEF Unauthorized, ConnectRejected
  <2> HIDE DEF c
  <2>2. /\ e \in Connection
        /\ e.phase = c.phase /\ e.aborted = c.aborted /\ e.stage[1] = "done"
        /\ e.socket = c.socket /\ e.registered = c.registered
        /\ e.upstream = c.upstream /\ e.unregister = c.unregister
        /\ e.timer = c.timer /\ e.open = c.open
    BY <1>a, <2>0 DEF Connection
  <2> HIDE DEF e
  <2>3. Consistent(e)
    BY <2>0, <2>1, <2>2 DEF Sound, Consistent
  <2>4. e.phase = "closed" => Sound(e)
    BY <2>0, <2>1, <2>2, <2>3 DEF Sound, Consistent, PhaseTells
  <2> QED
    BY <2>1, <2>2, <2>3, <2>4, ShutsDownSound
<1>7. ASSUME NEW k \in Clients, NEW i \in Frames, NEW to \in {"ready", "lost"},
             conn[k].socket[i] \in {"connecting", "ready"},
             Become(k, [conn[k] EXCEPT !.socket[i] = to])
      PROVE  SInv'
  <2> DEFINE c == conn[k]
             d == [c EXCEPT !.socket[i] = to]
  <2>0. /\ c \in Connection /\ Sound(c) /\ Granted(c)
        /\ c.socket[1] \in {"connecting", "ready"} /\ Become(k, d)
    BY <1>0, <1>a, <1>7
  <2> HIDE DEF c
  <2>2. /\ d.phase = c.phase /\ d.aborted = c.aborted /\ d.stage = c.stage
        /\ d.socket[1] = to /\ d.registered = c.registered /\ d.session = c.session
        /\ d.upstream = c.upstream /\ d.unregister = c.unregister
        /\ d.timer = c.timer /\ d.open = c.open
    BY <1>a, <2>0 DEF Connection
  <2> HIDE DEF d
  <2>3. Sound(d) /\ Granted(d)
    BY <2>0, <2>2 DEF Sound, Consistent, PhaseTells, Granted
  <2> QED
    BY <2>0, <2>3, UpdateSound
<1>8. ASSUME NEW k \in Clients, NEW i \in Frames, HandshakeFails(k, i) PROVE SInv'
  <2> DEFINE c == conn[k]
             d == [c EXCEPT !.socket[i] = "closed", !.stage[i] = "rejected"]
  <2>0. /\ c \in Connection /\ Sound(c) /\ Granted(c)
        /\ c.socket[1] = "connecting" /\ Become(k, d)
    BY <1>0, <1>a, <1>8 DEF HandshakeFails
  <2> HIDE DEF c
  <2>2. /\ d.phase = c.phase /\ d.aborted = c.aborted /\ d.stage[1] = "rejected"
        /\ d.socket[1] = "closed" /\ d.registered = c.registered /\ d.session = c.session
        /\ d.upstream = c.upstream /\ d.unregister = c.unregister
        /\ d.timer = c.timer /\ d.open = c.open
    BY <1>a, <2>0 DEF Connection
  <2> HIDE DEF d
  <2>3. Sound(d) /\ Granted(d)
    BY <2>0, <2>2 DEF Sound, Consistent, PhaseTells, Granted
  <2> QED
    BY <2>0, <2>3, UpdateSound
<1>9. ASSUME NEW k \in Clients, NEW i \in Frames, Connected(k, i) PROVE SInv'
  <2> DEFINE c == conn[k]
             newSocket == IF c.socket[i] = "ready" THEN "open" ELSE "closed"
             r == [c EXCEPT !.stage[i] = "done", !.upstream = i, !.phase = "relaying",
                            !.socket[i] = newSocket]
             a == [c EXCEPT !.stage[i] = "done", !.socket[i] = "closed"]
  <2>0. /\ c \in Connection /\ Sound(c) /\ Granted(c)
        /\ c.stage[1] = "connecting" /\ c.socket[1] \in {"ready", "lost"}
    BY <1>0, <1>a, <1>9 DEF Connected
  <2>1. \/ c.aborted /\ Become(k, a)
        \/ ~c.aborted /\ Become(k, Shutdown(r))
        \/ ~c.aborted /\ c.socket[1] = "ready" /\ Become(k, r)
    <3>1. r = [c EXCEPT !.stage[i] = "done", !.upstream = i, !.phase = "relaying",
                        !.socket[i] = IF @ = "ready" THEN "open" ELSE "closed"]
      BY <2>0 DEF Connection
    <3> HIDE DEF r, a
    <3> QED
      BY <1>9, <1>a, <3>1 DEF Connected, Forwarded, a
  <2> HIDE DEF c
  <2>2. CASE c.aborted /\ Become(k, a)
    <3>1. /\ a.phase = c.phase /\ a.aborted = c.aborted /\ a.stage[1] = "done"
          /\ a.socket[1] = "closed" /\ a.registered = c.registered /\ a.session = c.session
          /\ a.upstream = c.upstream /\ a.unregister = c.unregister
          /\ a.timer = c.timer /\ a.open = c.open
      BY <1>a, <2>0 DEF Connection
    <3> HIDE DEF a
    <3>2. Sound(a) /\ Granted(a)
      BY <2>0, <2>2, <3>1 DEF Sound, Consistent, PhaseTells, Granted, Connection
    <3> QED
      BY <2>2, <3>2, UpdateSound
  <2>3. /\ r \in Connection /\ r.phase = "relaying" /\ r.aborted = c.aborted
        /\ r.stage[1] = "done" /\ r.upstream = 1
        /\ r.socket[1] = (IF c.socket[1] = "ready" THEN "open" ELSE "closed")
        /\ r.registered = c.registered /\ r.session = c.session
        /\ r.unregister = c.unregister /\ r.timer = c.timer /\ r.open = c.open
    BY <1>a, <2>0 DEF Connection
  <2> HIDE DEF r
  <2>4. Consistent(r)
    BY <2>0, <2>3 DEF Sound, Consistent
  <2>5. ~c.aborted => c.phase = "connecting"
    BY <2>0 DEF Sound, PhaseTells, Connection
  <2>6. ~c.aborted /\ c.socket[1] = "ready" => Sound(r) /\ Granted(r)
    BY <2>0, <2>3, <2>4, <2>5 DEF Sound, PhaseTells, Granted
  <2>7. r.phase # "closed"
    BY <2>3
  <2> HIDE DEF a
  <2> QED
    BY <2>1, <2>2, <2>3, <2>4, <2>6, <2>7, UpdateSound, ShutsDownSound
<1>10. ASSUME NEW k \in Clients, NEW i \in Frames, UpstreamEnds(k, i) PROVE SInv'
  <2>1. CASE conn[k].socket[i] = "ready" /\ Become(k, [conn[k] EXCEPT !.socket[i] = "lost"])
    BY <1>7, <2>1
  <2>2. CASE conn[k].socket[i] = "open" /\ Become(k, Shutdown([conn[k] EXCEPT !.socket[i] = "closed"]))
    <3> DEFINE c == conn[k]
               e == [c EXCEPT !.socket[i] = "closed"]
    <3>0. /\ c \in Connection /\ Sound(c) /\ Granted(c)
          /\ c.socket[1] = "open" /\ Become(k, Shutdown(e))
      BY <1>0, <1>a, <2>2
    <3> HIDE DEF c
    <3>1. /\ e \in Connection /\ e.phase = c.phase /\ e.stage = c.stage
          /\ e.socket[1] = "closed" /\ e.registered = c.registered
          /\ e.upstream = c.upstream /\ e.unregister = c.unregister
      BY <1>a, <3>0 DEF Connection
    <3> HIDE DEF e
    <3>2. Consistent(e) /\ e.phase # "closed"
      BY <3>0, <3>1 DEF Sound, Consistent, PhaseTells
    <3> QED
      BY <3>0, <3>1, <3>2, ShutsDownSound
  <2> QED
    BY <1>10, <2>1, <2>2 DEF UpstreamEnds
<1>11. ASSUME NEW k \in Clients, NEW i \in Frames, UpstreamMessage(k, i) PROVE SInv'
  BY <1>1, <1>2, <1>11 DEF UpstreamMessage, Forwarded
<1>12. ASSUME NEW s \in SessionIds, Revoke(s) PROVE SInv'
  <2>1. ASSUME NEW k \in Clients PROVE Sound(conn[k])' /\ Granted(conn[k])'
    <3> DEFINE c == conn[k]
               mine == {i \in c.registered : c.session[i] = s}
               shut == IF mine # {} THEN Shutdown(c) ELSE c
               d == [shut EXCEPT !.token = [i \in Frames |-> IF @[i] = s THEN None ELSE @[i]],
                                 !.registered = @ \ mine]
    <3>0. c \in Connection /\ Sound(c) /\ Granted(c)
      BY <1>0
    <3>1. conn'[k] = d /\ live' = live \ {s}
      BY <1>12 DEF Revoke
    <3> HIDE DEF c
    <3>2. /\ shut \in Connection /\ Sound(shut) /\ shut.session = c.session
          /\ mine # {} => shut.registered = {}
          /\ mine = {} => shut.registered = c.registered
      <4>1. c.phase = "closed" => c.aborted
        BY <3>0 DEF Sound, PhaseTells
      <4> QED
        BY <3>0, <4>1, ShutdownSound, ShutdownCovered DEF Sound
    <3>3. mine = {} => 1 \notin c.registered \/ c.session[1] # s
      OBVIOUS
    <3> HIDE DEF shut, mine
    <3>4. /\ d.phase = shut.phase /\ d.aborted = shut.aborted /\ d.stage = shut.stage
          /\ d.socket = shut.socket /\ d.registered = shut.registered \ mine
          /\ d.session = shut.session
          /\ d.upstream = shut.upstream /\ d.unregister = shut.unregister
          /\ d.timer = shut.timer /\ d.open = shut.open
      BY <3>2 DEF Connection
    <3> HIDE DEF d
    <3>5. d.registered = shut.registered
      BY <3>2, <3>4
    <3>6. Sound(d)
      BY <3>2, <3>4, <3>5 DEF Sound, Consistent, PhaseTells
    <3>7. c.registered \subseteq {1}
      BY <1>a, <3>0 DEF Connection
    <3>8. d.registered # {} => d.session[1] \in live'
      BY <3>0, <3>1, <3>2, <3>3, <3>4, <3>5, <3>7 DEF Granted
    <3> QED
      BY <3>1, <3>6, <3>8 DEF Sound, Consistent, PhaseTells, Granted
  <2> QED
    BY <2>1 DEF SInv
<1>13. CASE UNCHANGED vars
  BY <1>13 DEF vars, SInv, Sound, Consistent, PhaseTells, Granted
<1>14. ASSUME NEW k \in Clients, NEW i \in Frames, HandshakeSucceeds(k, i) PROVE SInv'
  BY <1>7, <1>14 DEF HandshakeSucceeds
<1> QED
  BY <1>3, <1>4, <1>5, <1>6, <1>8, <1>9, <1>10, <1>11, <1>12, <1>13, <1>14 DEF Next, Progress

LEMMA InitSound ==
    ASSUME MaxFrames = 1
    PROVE  Init => SInv
<1> SUFFICES ASSUME Init PROVE SInv
  OBVIOUS
<1>1. ASSUME NEW k \in Clients
      PROVE  \E issued \in [Frames -> SessionIds \union {None}] : conn[k] = NewConnection(issued)
  BY DEF Init
<1>2. ASSUME NEW k \in Clients PROVE Sound(conn[k]) /\ Granted(conn[k])
  <2>1. PICK issued \in [Frames -> SessionIds \union {None}] : conn[k] = NewConnection(issued)
    BY <1>1
  <2> DEFINE c == conn[k]
  <2>2. /\ c.phase = "new" /\ ~c.timer /\ ~c.aborted /\ ~c.open
        /\ c.stage[1] = "none" /\ c.socket[1] = "none"
        /\ c.upstream = None /\ c.registered = {}
    BY <2>1, OneFrame DEF NewConnection
  <2>3. None # 1
    BY NoSessionAssumption
  <2> HIDE DEF c
  <2>4. Sound(c) /\ Granted(c)
    BY <2>2, <2>3 DEF Sound, Consistent, PhaseTells, Granted
  <2> QED
    BY <2>4 DEF c
<1> QED
  BY <1>2 DEF SInv

LEMMA SInvariance ==
    ASSUME MaxFrames = 1
    PROVE  Spec => [](RInv /\ SInv)
<1>1. RInv /\ SInv /\ [Next]_vars => SInv'
  BY StepSound
<1>2. Init => RInv /\ SInv
  BY InitRInv, InitSound
<1> QED
  BY <1>1, <1>2, StepCovered, PTL DEF Spec

(***************************************************************************)
(* The registry has a closer for every upstream socket, and a client that  *)
(* was shut down and whose attempt has ended leaves no timer, socket or    *)
(* closer, for any number of clients and sessions.                         *)
(***************************************************************************)
THEOREM RegistryStaysExact ==
    ASSUME MaxFrames = 1
    PROVE  Spec => []RegistryIsExact
<1>1. RInv => UpstreamIsRevocable
  BY DEF RInv, Covered, UpstreamIsRevocable, Attached
<1>2. RInv /\ SInv => ClosedLeavesNothing
  <2> SUFFICES ASSUME RInv, SInv, NEW k \in Clients, conn[k].phase = "closed",
                      \A i \in Frames : conn[k].stage[i] \in {"none", "done"}
               PROVE  /\ ~conn[k].open /\ ~conn[k].timer /\ conn[k].registered = {}
                      /\ Attached(conn[k]) = {}
    BY DEF ClosedLeavesNothing
  <2>1. Sound(conn[k]) /\ conn[k].stage[1] \in {"none", "done"}
    BY OneFrame DEF SInv
  <2>2. conn[k].socket[1] \notin {"connecting", "ready", "open"}
    BY <2>1 DEF Sound, Consistent, PhaseTells
  <2>3. Attached(conn[k]) = {}
    BY <2>2, OneFrame DEF Attached
  <2> QED
    BY <2>1, <2>3 DEF Sound, PhaseTells
<1> QED
  BY <1>1, <1>2, SInvariance, PTL DEF RegistryIsExact

(***************************************************************************)
(* No relay outlives its session: the burn's revoke reaches every socket   *)
(* through which data passes.                                              *)
(***************************************************************************)
THEOREM RelaysLiveWithSession ==
    ASSUME MaxFrames = 1
    PROVE  Spec => []RelayOnlyWhileLive
<1>1. RInv /\ SInv => RelayOnlyWhileLive
  <2> SUFFICES ASSUME RInv, SInv, NEW k \in Clients, conn[k].socket[1] = "open"
               PROVE  conn[k].session[1] \in live
    BY OneFrame DEF RelayOnlyWhileLive
  <2>1. Sound(conn[k]) /\ Granted(conn[k]) /\ Covered(conn[k])
    BY DEF RInv, SInv
  <2>2. ~conn[k].aborted
    BY <2>1 DEF Sound, PhaseTells
  <2>3. 1 \in conn[k].registered
    BY <2>1, <2>2, OneFrame DEF Covered
  <2> QED
    BY <2>1, <2>3 DEF Granted
<1> QED
  BY <1>1, SInvariance, PTL

(***************************************************************************)
(* What one step does to a client's connection: an aborted one stays so,   *)
(* and a relay either goes on or is closed.                                *)
(***************************************************************************)
Advances(c, d) ==
    /\ c.aborted => d.aborted
    /\ c.phase = "relaying" => d.phase \in {"relaying", "closed"}

LEMMA ShutdownAdvances ==
    ASSUME NEW c \in Connection, NEW e \in Connection,
           e.phase = c.phase, e.aborted = c.aborted
    PROVE  Advances(c, Shutdown(e))
<1>1. CASE e.phase = "closed"
  BY <1>1 DEF Shutdown, Advances
<1>2. CASE e.phase # "closed"
  <2>1. Shutdown(e).phase = "closed" /\ Shutdown(e).aborted = TRUE
    BY <1>2 DEF Shutdown, Connection
  <2> QED
    BY <2>1 DEF Advances
<1> QED
  BY <1>1, <1>2

LEMMA StepAdvances ==
    ASSUME MaxFrames = 1, RInv, SInv, [Next]_vars, NEW k \in Clients
    PROVE  Advances(conn[k], conn'[k])
<1>a. Frames = {1} /\ 1 \in Frames
  BY OneFrame
<1>0. \A j \in Clients : conn[j] \in Connection /\ Sound(conn[j])
  BY DEF RInv, TypeOK, SInv
<1>1. ASSUME NEW j \in Clients, NEW d, Become(j, d), Advances(conn[j], d)
      PROVE  Advances(conn[k], conn'[k])
  <2>1. conn'[k] = IF k = j THEN d ELSE conn[k]
    BY <1>1 DEF RInv, TypeOK, Become
  <2> QED
    BY <1>1, <2>1 DEF Advances
<1>2. ASSUME NEW j \in Clients, Become(j, Shutdown(conn[j])) \/ Become(j, conn[j])
      PROVE  Advances(conn[k], conn'[k])
  <2>1. Advances(conn[j], Shutdown(conn[j])) /\ Advances(conn[j], conn[j])
    BY <1>0, ShutdownAdvances DEF Advances
  <2> QED
    BY <1>1, <1>2, <2>1
<1>3. ASSUME NEW j \in Clients, ClientEvent(j) PROVE Advances(conn[k], conn'[k])
  <2>0. conn[j] \in Connection
    BY <1>0
  <2>1. CASE Accept(j)
    <3> DEFINE d == [conn[j] EXCEPT !.phase = "authenticating", !.timer = TRUE, !.open = TRUE]
    <3>1. conn[j].phase = "new" /\ Become(j, d)
      BY <2>1 DEF Accept
    <3>2. Advances(conn[j], d)
      BY <2>0, <3>1 DEF Connection, Advances
    <3> HIDE DEF d
    <3> QED
      BY <1>1, <3>1, <3>2
  <2>2. ASSUME NEW i \in Frames, AuthenticationFrame(j, i) PROVE Advances(conn[k], conn'[k])
    <3> DEFINE d == [conn[j] EXCEPT !.stage[i] = "authorizing",
                                    !.session[i] = conn[j].token[i], !.token[i] = None]
    <3>1. Become(j, d)
      BY <2>2 DEF AuthenticationFrame
    <3>2. Advances(conn[j], d)
      BY <2>0 DEF Connection, Advances
    <3> HIDE DEF d
    <3> QED
      BY <1>1, <3>1, <3>2
  <2>3. CASE ClientCloses(j)
    <3> DEFINE d == [conn[j] EXCEPT !.open = FALSE]
    <3>1. Become(j, d)
      BY <2>3 DEF ClientCloses
    <3>2. Advances(conn[j], d)
      BY <2>0 DEF Connection, Advances
    <3> HIDE DEF d
    <3> QED
      BY <1>1, <3>1, <3>2
  <2>4. CASE RefusedFrame(j) \/ ClientFrame(j)
    BY <1>2, <2>4 DEF RefusedFrame, ClientFrame, Forwarded
  <2> QED
    BY <1>3, <2>1, <2>2, <2>3, <2>4 DEF ClientEvent
<1>4. ASSUME NEW j \in Clients, ClientClosed(j) \/ AuthenticationTimeout(j)
      PROVE  Advances(conn[k], conn'[k])
  BY <1>2, <1>4 DEF ClientClosed, AuthenticationTimeout
<1>5. ASSUME NEW j \in Clients, NEW i \in Frames, Authorized(j, i)
      PROVE  Advances(conn[k], conn'[k])
  <2> DEFINE c == conn[j]
             stage == IF c.aborted THEN "rejected" ELSE "connecting"
             newSocket == IF c.aborted THEN "none" ELSE "connecting"
             d == [c EXCEPT !.phase = "connecting", !.timer = FALSE, !.unregister = i,
                            !.registered = @ \union {i}, !.stage[i] = stage,
                            !.socket[i] = newSocket]
  <2>1. c.stage[1] = "authorizing" /\ Become(j, d)
    BY <1>a, <1>5 DEF Authorized
  <2>2. c.phase # "relaying"
    BY <1>0, <2>1 DEF Sound, PhaseTells
  <2> HIDE DEF stage, newSocket
  <2>3. Advances(c, d)
    BY <1>0, <2>2 DEF Connection, Advances
  <2> HIDE DEF d
  <2> QED
    BY <1>1, <2>1, <2>3
<1>6. ASSUME NEW j \in Clients, NEW i \in Frames, Unauthorized(j, i) \/ ConnectRejected(j, i)
      PROVE  Advances(conn[k], conn'[k])
  <2> DEFINE c == conn[j]
             e == [c EXCEPT !.stage[i] = "done"]
  <2>1. Become(j, Shutdown(e))
    BY <1>6 DEF Unauthorized, ConnectRejected
  <2>2. c \in Connection /\ e \in Connection /\ e.phase = c.phase /\ e.aborted = c.aborted
    BY <1>0, <1>a DEF Connection
  <2> HIDE DEF e
  <2>3. Advances(c, Shutdown(e))
    BY <2>2, ShutdownAdvances
  <2> QED
    BY <1>1, <2>1, <2>3
<1>7. ASSUME NEW j \in Clients, NEW i \in Frames, NEW to, NEW stage,
             Become(j, [conn[j] EXCEPT !.socket[i] = to, !.stage[i] = stage])
             \/ Become(j, [conn[j] EXCEPT !.socket[i] = to])
      PROVE  Advances(conn[k], conn'[k])
  <2> DEFINE c == conn[j]
             d == [c EXCEPT !.socket[i] = to, !.stage[i] = stage]
             e == [c EXCEPT !.socket[i] = to]
  <2>1. Advances(c, d) /\ Advances(c, e)
    BY <1>0 DEF Connection, Advances
  <2> HIDE DEF d, e
  <2>2. Become(j, d) \/ Become(j, e)
    BY <1>7 DEF d, e
  <2> QED
    BY <1>1, <2>1, <2>2
<1>8. ASSUME NEW j \in Clients, NEW i \in Frames, HandshakeSucceeds(j, i) \/ HandshakeFails(j, i)
      PROVE  Advances(conn[k], conn'[k])
  BY <1>7, <1>8 DEF HandshakeSucceeds, HandshakeFails
<1>9. ASSUME NEW j \in Clients, NEW i \in Frames, Connected(j, i)
      PROVE  Advances(conn[k], conn'[k])
  <2> DEFINE c == conn[j]
             newSocket == IF c.socket[i] = "ready" THEN "open" ELSE "closed"
             r == [c EXCEPT !.stage[i] = "done", !.upstream = i, !.phase = "relaying",
                            !.socket[i] = newSocket]
             a == [c EXCEPT !.stage[i] = "done", !.socket[i] = "closed"]
  <2>0. c \in Connection
    BY <1>0
  <2>1. \/ Become(j, a)
        \/ ~c.aborted /\ Become(j, Shutdown(r))
        \/ ~c.aborted /\ Become(j, r)
    <3>1. r = [c EXCEPT !.stage[i] = "done", !.upstream = i, !.phase = "relaying",
                        !.socket[i] = IF @ = "ready" THEN "open" ELSE "closed"]
      BY <2>0 DEF Connection
    <3> HIDE DEF r, a
    <3> QED
      BY <1>9, <3>1 DEF Connected, Forwarded, a
  <2>2. Advances(c, a)
    BY <2>0 DEF Connection, Advances
  <2> HIDE DEF newSocket
  <2>3. r.phase = "relaying"
    BY <2>0 DEF Connection
  <2> HIDE DEF r, a
  <2>4. Shutdown(r).phase = "closed"
    BY <2>3 DEF Shutdown
  <2>5. ~c.aborted => Advances(c, r) /\ Advances(c, Shutdown(r))
    BY <2>3, <2>4 DEF Advances
  <2> QED
    BY <1>1, <2>1, <2>2, <2>5
<1>10. ASSUME NEW j \in Clients, NEW i \in Frames, UpstreamEnds(j, i)
       PROVE  Advances(conn[k], conn'[k])
  <2>1. CASE conn[j].socket[i] = "ready" /\ Become(j, [conn[j] EXCEPT !.socket[i] = "lost"])
    BY <1>7, <2>1
  <2>2. CASE conn[j].socket[i] = "open" /\ Become(j, Shutdown([conn[j] EXCEPT !.socket[i] = "closed"]))
    <3> DEFINE c == conn[j]
               e == [c EXCEPT !.socket[i] = "closed"]
    <3>1. c \in Connection /\ e \in Connection /\ e.phase = c.phase /\ e.aborted = c.aborted
      BY <1>0, <1>a DEF Connection
    <3> HIDE DEF e
    <3>2. Advances(c, Shutdown(e))
      BY <3>1, ShutdownAdvances
    <3>3. Become(j, Shutdown(e))
      BY <2>2 DEF e
    <3> QED
      BY <1>1, <3>2, <3>3
  <2> QED
    BY <1>10, <2>1, <2>2 DEF UpstreamEnds
<1>11. ASSUME NEW j \in Clients, NEW i \in Frames, UpstreamMessage(j, i)
       PROVE  Advances(conn[k], conn'[k])
  BY <1>2, <1>11 DEF UpstreamMessage, Forwarded
<1>12. ASSUME NEW s \in SessionIds, Revoke(s) PROVE Advances(conn[k], conn'[k])
  <2> DEFINE c == conn[k]
             mine == {i \in c.registered : c.session[i] = s}
             shut == IF mine # {} THEN Shutdown(c) ELSE c
             d == [shut EXCEPT !.token = [i \in Frames |-> IF @[i] = s THEN None ELSE @[i]],
                               !.registered = @ \ mine]
  <2>1. conn'[k] = d
    BY <1>12 DEF Revoke
  <2>2. /\ shut \in Connection
        /\ Advances(c, shut)
    <3>1. Advances(c, Shutdown(c)) /\ Advances(c, c)
      BY <1>0, ShutdownAdvances DEF Advances
    <3>2. Shutdown(c) \in Connection
      BY <1>0, ShutdownCovered DEF Sound, PhaseTells
    <3> QED
      BY <1>0, <3>1, <3>2
  <2> HIDE DEF shut, mine
  <2>3. d.phase = shut.phase /\ d.aborted = shut.aborted
    BY <2>2 DEF Connection
  <2> HIDE DEF d
  <2> QED
    BY <2>1, <2>2, <2>3 DEF Advances
<1>13. CASE UNCHANGED vars
  BY <1>13 DEF vars, Advances
<1> QED
  BY <1>3, <1>4, <1>5, <1>6, <1>8, <1>9, <1>10, <1>11, <1>12, <1>13 DEF Next, Progress

(***************************************************************************)
(* A client that was shut down is never told "ready" by an authorization   *)
(* or a connection that arrives late, and a relay that began goes back to  *)
(* no earlier phase.                                                       *)
(***************************************************************************)
THEOREM LateAnswersReviveNobody ==
    ASSUME MaxFrames = 1
    PROVE  Spec => NoRevival
<1> DEFINE Kept(k) == /\ conn[k].phase = "relaying" => conn'[k].phase \in {"relaying", "closed"}
                      /\ conn[k].aborted => conn'[k].aborted /\ conn'[k].phase # "relaying"
<1>1. RInv /\ SInv /\ RInv' /\ SInv' /\ [Next]_vars => [\A k \in Clients : Kept(k)]_vars
  <2> SUFFICES ASSUME RInv, SInv, SInv', [Next]_vars, NEW k \in Clients PROVE Kept(k)
    OBVIOUS
  <2>1. Advances(conn[k], conn'[k])
    BY StepAdvances
  <2>2. conn'[k].aborted => conn'[k].phase # "relaying"
    BY DEF SInv, Sound, PhaseTells
  <2> QED
    BY <2>1, <2>2 DEF Advances
<1> QED
  BY <1>1, SInvariance, PTL DEF Spec, NoRevival

-----------------------------------------------------------------------------
(* The simulation of SessionAuthority, for one frame.  What the authority  *)
(* sees of a connection is its token, its claim and its relay.             *)

ClaimOf(c) ==
    IF c.stage[1] = "authorizing" /\ c.session[1] # None
    THEN [kind |-> "token", id |-> c.session[1]]
    ELSE Authority!NoClaim

RelayOf(c) == IF 1 \in c.registered THEN c.session[1] ELSE None

Seen == [Authority!Next]_Authority!avars

LEMMA AttemptsAre ==
    ASSUME MaxFrames = 1
    PROVE  Attempts = {<<k, 1>> : k \in Clients}
BY OneFrame DEF Attempts

\* One client's connection changes: so do its entries in the maps, and no others.
LEMMA OneChanges ==
    ASSUME MaxFrames = 1, RInv, NEW k \in Clients, NEW d, Become(k, d)
    PROVE  /\ live' = live /\ tickets' = tickets
           /\ <<k, 1>> \in Attempts
           /\ tokens' = [tokens EXCEPT ![<<k, 1>>] = d.token[1]]
           /\ claims' = [claims EXCEPT ![<<k, 1>>] = ClaimOf(d)]
           /\ relays' = [s \in SessionIds |->
                 (relays[s] \ {<<k, 1>>}) \union (IF RelayOf(d) = s THEN {<<k, 1>>} ELSE {})]
<1>1. \A j \in Clients : conn'[j] = IF j = k THEN d ELSE conn[j]
  BY DEF RInv, TypeOK, Become
<1>2. <<k, 1>> \in Attempts
  BY AttemptsAre
<1>3. \A a \in Attempts : a[1] \in Clients /\ (a = <<k, 1>> <=> a[1] = k)
  BY OneFrame DEF Attempts
<1>4. \A a \in Attempts : conn'[a[1]] = IF a = <<k, 1>> THEN d ELSE conn[a[1]]
  BY <1>1, <1>3
<1>5. \A a \in Attempts : a[2] = 1
  BY OneFrame DEF Attempts
<1>6. tokens' = [tokens EXCEPT ![<<k, 1>>] = d.token[1]]
  BY <1>2, <1>4, <1>5 DEF tokens
<1>7. claims' = [claims EXCEPT ![<<k, 1>>] = ClaimOf(d)]
  BY <1>2, <1>4, <1>5 DEF claims, ClaimOf, Authority!NoClaim
<1>8. ASSUME NEW s \in SessionIds, NEW a \in Attempts
      PROVE  /\ a \in relays[s] <=> RelayOf(conn[a[1]]) = s
             /\ a \in relays'[s] <=> RelayOf(conn'[a[1]]) = s
  BY <1>5, <1>8, NoSessionAssumption DEF relays, RelayOf
<1>9. ASSUME NEW s \in SessionIds
      PROVE  relays'[s] = (relays[s] \ {<<k, 1>>})
                            \union (IF RelayOf(d) = s THEN {<<k, 1>>} ELSE {})
  <2>1. relays'[s] \subseteq Attempts /\ relays[s] \subseteq Attempts
    BY DEF relays
  <2> QED
    BY <1>2, <1>4, <1>8, <2>1
<1>10. relays' = [s \in SessionIds |-> relays'[s]]
  BY DEF relays
<1> QED
  BY <1>2, <1>6, <1>7, <1>9, <1>10 DEF Become, tickets

\* A step that leaves the token and the claim alone, and at most closes the relay.
LEMMA QuietStep ==
    ASSUME MaxFrames = 1, RInv, NEW k \in Clients, NEW d, Become(k, d),
           d.token[1] = conn[k].token[1], ClaimOf(d) = ClaimOf(conn[k]),
           RelayOf(d) \in {RelayOf(conn[k]), None}
    PROVE  Seen
<1> DEFINE a == <<k, 1>>
<1>0. Frames = {1} /\ conn[k] \in Connection
  BY OneFrame DEF RInv, TypeOK
<1>1. /\ live' = live /\ tickets' = tickets /\ a \in Attempts
      /\ tokens' = [tokens EXCEPT ![a] = d.token[1]]
      /\ claims' = [claims EXCEPT ![a] = ClaimOf(d)]
      /\ relays' = [s \in SessionIds |->
              (relays[s] \ {a}) \union (IF RelayOf(d) = s THEN {a} ELSE {})]
  BY OneChanges
<1>2. /\ tokens[a] = conn[k].token[1] /\ claims[a] = ClaimOf(conn[k])
      /\ \A s \in SessionIds : a \in relays[s] <=> RelayOf(conn[k]) = s
  BY <1>1, NoSessionAssumption DEF tokens, claims, relays, ClaimOf, RelayOf, Authority!NoClaim
<1>r. /\ relays = [s \in SessionIds |-> relays[s]]
      /\ tokens = [b \in Attempts |-> tokens[b]]
      /\ claims = [b \in Attempts |-> claims[b]]
  BY DEF relays, tokens, claims
<1> HIDE DEF a
<1>3. tokens' = tokens /\ claims' = claims
  BY <1>1, <1>2, <1>r
<1>4. CASE RelayOf(d) = RelayOf(conn[k])
  <2>1. \A s \in SessionIds : relays'[s] = relays[s]
    BY <1>1, <1>2, <1>4
  <2>2. relays' = relays
    BY <1>1, <1>r, <2>1
  <2> QED
    BY <1>1, <1>3, <2>2 DEF Seen, Authority!avars
<1>5. CASE RelayOf(d) = None /\ RelayOf(conn[k]) # None
  <2> DEFINE s == RelayOf(conn[k])
  <2>1. s \in SessionIds
    BY <1>0, <1>5 DEF RelayOf, Connection
  <2>2. a \in relays[s]
    BY <1>2, <2>1
  <2>3. \A t \in SessionIds : relays'[t] = IF t = s THEN relays[t] \ {a} ELSE relays[t]
    BY <1>1, <1>2, <1>5, NoSessionAssumption
  <2> HIDE DEF s
  <2>4. relays' = [relays EXCEPT ![s] = @ \ {a}]
    BY <1>1, <1>r, <2>1, <2>3
  <2>5. Authority!HangUp(s, a)
    BY <1>1, <1>3, <2>2, <2>4 DEF Authority!HangUp
  <2> QED
    BY <1>1, <2>1, <2>5 DEF Seen, Authority!Next
<1> QED
  BY <1>4, <1>5

\* shutdown leaves no relay, and the token and the claim as they are.
LEMMA ShutdownSeen ==
    ASSUME MaxFrames = 1, NEW e \in Connection, e.registered \subseteq {e.unregister},
           e.phase = "closed" => e.registered = {},
           e.socket[1] = "connecting" => e.stage[1] # "authorizing"
    PROVE  /\ Shutdown(e).token = e.token
           /\ ClaimOf(Shutdown(e)) = ClaimOf(e) /\ RelayOf(Shutdown(e)) = None
<1>1. CASE e.phase = "closed"
  BY <1>1 DEF Shutdown, RelayOf
<1>2. CASE e.phase # "closed"
  <2> DEFINE d == Shutdown(e)
  <2>1. /\ d.token = e.token /\ d.session = e.session
        /\ d.registered = e.registered \ {e.unregister}
        /\ d.stage[1] = (IF e.socket[1] = "connecting" THEN "rejected" ELSE e.stage[1])
    BY <1>2, OneFrame DEF Shutdown, Connection
  <2> HIDE DEF d
  <2>2. ClaimOf(d) = ClaimOf(e) /\ RelayOf(d) = None
    BY <2>1 DEF ClaimOf, RelayOf
  <2> QED
    BY <2>1, <2>2 DEF d
<1> QED
  BY <1>1, <1>2

LEMMA ShutsDownSeen ==
    ASSUME MaxFrames = 1, RInv, NEW k \in Clients, NEW e \in Connection, Become(k, Shutdown(e)),
           Consistent(e), e.phase = "closed" => e.registered = {},
           e.token = conn[k].token, ClaimOf(e) = ClaimOf(conn[k])
    PROVE  Seen
<1>1. /\ Shutdown(e).token = e.token
      /\ ClaimOf(Shutdown(e)) = ClaimOf(e) /\ RelayOf(Shutdown(e)) = None
  BY ShutdownSeen DEF Consistent
<1> QED
  BY <1>1, QuietStep

\* The claim is answered with nothing.
LEMMA DeniedStep ==
    ASSUME MaxFrames = 1, RInv, NEW k \in Clients, NEW d, Become(k, d),
           d.token[1] = conn[k].token[1], ClaimOf(d) = Authority!NoClaim,
           RelayOf(d) = RelayOf(conn[k])
    PROVE  Seen
<1> DEFINE a == <<k, 1>>
<1>1. CASE ClaimOf(conn[k]) = Authority!NoClaim
  BY <1>1, QuietStep
<1>2. CASE ClaimOf(conn[k]) # Authority!NoClaim
  <2>1. /\ live' = live /\ tickets' = tickets /\ a \in Attempts
        /\ tokens' = [tokens EXCEPT ![a] = d.token[1]]
        /\ claims' = [claims EXCEPT ![a] = Authority!NoClaim]
        /\ relays' = [s \in SessionIds |->
                (relays[s] \ {a}) \union (IF RelayOf(d) = s THEN {a} ELSE {})]
    BY OneChanges
  <2>2. /\ tokens[a] = conn[k].token[1] /\ claims[a] = ClaimOf(conn[k])
        /\ \A s \in SessionIds : a \in relays[s] <=> RelayOf(conn[k]) = s
    BY <2>1, NoSessionAssumption, OneFrame
       DEF tokens, claims, relays, ClaimOf, RelayOf, Authority!NoClaim
  <2>3. tokens' = tokens
    BY <2>1, <2>2 DEF tokens
  <2>4. relays = [s \in SessionIds |-> relays[s]]
    BY DEF relays
  <2> HIDE DEF a
  <2>5. relays' = relays
    BY <2>1, <2>2, <2>4
  <2>6. Authority!Deny(a)
    BY <1>2, <2>1, <2>2, <2>3, <2>5 DEF Authority!Deny, Authority!Close
  <2> QED
    BY <2>1, <2>6 DEF Seen, Authority!Next
<1> QED
  BY <1>1, <1>2

\* A token is used up by presenting it, and its session is claimed.
LEMMA PresentedStep ==
    ASSUME MaxFrames = 1, RInv, NEW k \in Clients, NEW d, Become(k, d),
           conn[k].stage[1] = "none", d.stage[1] = "authorizing",
           d.session[1] = conn[k].token[1], d.token[1] = None,
           conn[k].registered = {}, d.registered = {}
    PROVE  Seen
<1> DEFINE a == <<k, 1>>
           token == conn[k].token[1]
<1>1. ClaimOf(conn[k]) = Authority!NoClaim /\ RelayOf(d) = None /\ RelayOf(conn[k]) = None
  BY DEF ClaimOf, RelayOf
<1>2. CASE token = None
  <2>1. ClaimOf(d) = Authority!NoClaim
    BY <1>2 DEF ClaimOf
  <2> QED
    BY <1>1, <1>2, <2>1, QuietStep
<1>3. CASE token # None
  <2>1. ClaimOf(d) = [kind |-> "token", id |-> token]
    BY <1>3 DEF ClaimOf
  <2>2. /\ live' = live /\ tickets' = tickets /\ a \in Attempts
        /\ tokens' = [tokens EXCEPT ![a] = None]
        /\ claims' = [claims EXCEPT ![a] = ClaimOf(d)]
        /\ relays' = [s \in SessionIds |->
                (relays[s] \ {a}) \union (IF RelayOf(d) = s THEN {a} ELSE {})]
    BY OneChanges
  <2>3. /\ tokens[a] = token /\ claims[a] = ClaimOf(conn[k])
        /\ \A s \in SessionIds : a \in relays[s] <=> RelayOf(conn[k]) = s
    BY <2>2, NoSessionAssumption, OneFrame
       DEF tokens, claims, relays, ClaimOf, RelayOf, Authority!NoClaim
  <2>4. relays = [s \in SessionIds |-> relays[s]]
    BY DEF relays
  <2> HIDE DEF a, token
  <2>5. relays' = relays
    BY <1>1, <2>2, <2>3, <2>4, NoSessionAssumption
  <2>6. Authority!Present(a, "token", a)
    BY <1>1, <1>3, <2>1, <2>2, <2>3, <2>5 DEF Authority!Present
  <2> QED
    BY <2>2, <2>6 DEF Seen, Authority!Next
<1> QED
  BY <1>2, <1>3

\* A claim on a live session becomes a relay.
LEMMA GrantedStep ==
    ASSUME MaxFrames = 1, RInv, NEW k \in Clients, NEW d, Become(k, d),
           conn[k].stage[1] = "authorizing", conn[k].session[1] \in live,
           d.token[1] = conn[k].token[1], d.stage[1] # "authorizing",
           d.session[1] = conn[k].session[1], 1 \in d.registered, conn[k].registered = {}
    PROVE  Seen
<1> DEFINE a == <<k, 1>>
           s == conn[k].session[1]
<1>1. s \in SessionIds /\ s # None
  BY NoSessionAssumption DEF RInv, TypeOK
<1>2. /\ ClaimOf(conn[k]) = [kind |-> "token", id |-> s] /\ ClaimOf(d) = Authority!NoClaim
      /\ RelayOf(d) = s /\ RelayOf(conn[k]) = None
  BY <1>1 DEF ClaimOf, RelayOf
<1>3. /\ live' = live /\ tickets' = tickets /\ a \in Attempts
      /\ tokens' = [tokens EXCEPT ![a] = d.token[1]]
      /\ claims' = [claims EXCEPT ![a] = Authority!NoClaim]
      /\ relays' = [t \in SessionIds |->
              (relays[t] \ {a}) \union (IF RelayOf(d) = t THEN {a} ELSE {})]
  BY <1>2, OneChanges
<1>4. /\ tokens[a] = d.token[1] /\ claims[a] = ClaimOf(conn[k])
      /\ \A t \in SessionIds : a \in relays[t] <=> RelayOf(conn[k]) = t
  BY <1>3, NoSessionAssumption, OneFrame
     DEF tokens, claims, relays, ClaimOf, RelayOf, Authority!NoClaim
<1>r. /\ relays = [t \in SessionIds |-> relays[t]]
      /\ tokens = [b \in Attempts |-> tokens[b]]
  BY DEF relays, tokens
<1>l. s \in live
  OBVIOUS
<1> HIDE DEF a, s
<1>5. tokens' = tokens
  BY <1>3, <1>4, <1>r
<1>6. \A t \in SessionIds : relays'[t] = IF t = s THEN relays[t] \union {a} ELSE relays[t]
  BY <1>1, <1>2, <1>3, <1>4, NoSessionAssumption
<1>7. relays' = [relays EXCEPT ![s] = @ \union {a}]
  BY <1>1, <1>3, <1>6, <1>r
<1>c. claims[a].kind = "token" /\ claims[a].id = s
  BY <1>2, <1>4
<1>8. Authority!Grant(a, a)
  BY <1>3, <1>5, <1>7, <1>l, <1>c DEF Authority!Grant, Authority!Close
<1> QED
  BY <1>3, <1>8 DEF Seen, Authority!Next

\* The end of a session takes its tokens and its relays in one step.
LEMMA RevokeSeen ==
    ASSUME MaxFrames = 1, RInv, SInv, NEW s \in SessionIds, Revoke(s)
    PROVE  Seen
<1>0. /\ \A a \in Attempts : a[1] \in Clients /\ a[2] = 1
      /\ s # None
  BY OneFrame, NoSessionAssumption DEF Attempts
<1>1. ASSUME NEW k \in Clients
      PROVE  /\ conn'[k].token[1] = (IF conn[k].token[1] = s THEN None ELSE conn[k].token[1])
             /\ ClaimOf(conn'[k]) = ClaimOf(conn[k])
             /\ RelayOf(conn'[k]) = (IF RelayOf(conn[k]) = s THEN None ELSE RelayOf(conn[k]))
  <2> DEFINE c == conn[k]
             mine == {i \in c.registered : c.session[i] = s}
             shut == IF mine # {} THEN Shutdown(c) ELSE c
             d == [shut EXCEPT !.token = [i \in Frames |-> IF @[i] = s THEN None ELSE @[i]],
                               !.registered = @ \ mine]
  <2>0. c \in Connection /\ Sound(c) /\ 1 \in Frames
    BY OneFrame DEF RInv, TypeOK, SInv
  <2>1. conn'[k] = d
    BY DEF Revoke
  <2> HIDE DEF c
  <2>2. c.registered \subseteq {1}
    BY <2>0, OneFrame DEF Connection
  <2>3. RelayOf(c) = s <=> mine # {}
    BY <1>0, <2>2 DEF RelayOf
  <2>4. /\ shut \in Connection /\ shut.token = c.token /\ ClaimOf(shut) = ClaimOf(c)
        /\ mine = {} => shut = c
        /\ mine # {} => RelayOf(shut) = None
    <3>1. /\ c.phase = "closed" => c.registered = {}
          /\ c.phase = "closed" => c.aborted
          /\ c.socket[1] = "connecting" => c.stage[1] # "authorizing"
      BY <2>0 DEF Sound, Consistent, PhaseTells
    <3>2. Consistent(c)
      BY <2>0 DEF Sound
    <3>3. /\ Shutdown(c).token = c.token
          /\ ClaimOf(Shutdown(c)) = ClaimOf(c) /\ RelayOf(Shutdown(c)) = None
      BY <2>0, <3>1, <3>2, ShutdownSeen DEF Consistent
    <3>4. Shutdown(c) \in Connection
      BY <2>0, <3>1, ShutdownCovered
    <3> QED
      BY <2>0, <3>3, <3>4
  <2>5. mine \subseteq {1} /\ (mine = {} \/ mine = {1})
    BY <2>2
  <2> HIDE DEF shut, mine
  <2>6. /\ d.stage = shut.stage /\ d.session = shut.session
        /\ d.token[1] = (IF shut.token[1] = s THEN None ELSE shut.token[1])
        /\ d.registered = shut.registered \ mine
    BY <2>0, <2>4 DEF Connection
  <2> HIDE DEF d
  <2>7. ClaimOf(d) = ClaimOf(c)
    BY <2>4, <2>6 DEF ClaimOf
  <2>8. RelayOf(d) = IF RelayOf(c) = s THEN None ELSE RelayOf(c)
    <3>1. CASE mine = {}
      BY <2>3, <2>4, <2>6, <3>1 DEF RelayOf
    <3>2. CASE mine = {1}
      BY <2>3, <2>6, <3>2 DEF RelayOf
    <3> QED
      BY <2>5, <3>1, <3>2
  <2> QED
    BY <2>1, <2>4, <2>6, <2>7, <2>8 DEF c
<1>2. s \in live /\ live' = live \ {s}
  BY DEF Revoke
<1>3. tickets' = Authority!Without(tickets, s)
  BY <1>0 DEF tickets, Authority!Without
<1>4. tokens' = Authority!Without(tokens, s)
  BY <1>0, <1>1 DEF tokens, Authority!Without
<1>5. claims' = claims
  <2>1. /\ claims = [a \in Attempts |-> ClaimOf(conn[a[1]])]
        /\ claims' = [a \in Attempts |-> ClaimOf(conn'[a[1]])]
    BY <1>0 DEF claims, ClaimOf, Authority!NoClaim
  <2> QED
    BY <1>0, <1>1, <2>1
<1>6. relays' = [relays EXCEPT ![s] = {}]
  <2>1. ASSUME NEW t \in SessionIds, NEW a \in Attempts
        PROVE  /\ a \in relays[t] <=> RelayOf(conn[a[1]]) = t
               /\ a \in relays'[t] <=> RelayOf(conn'[a[1]]) = t
    BY <1>0, <2>1, NoSessionAssumption DEF relays, RelayOf
  <2>2. ASSUME NEW t \in SessionIds
        PROVE  relays'[t] = IF t = s THEN {} ELSE relays[t]
    <3>1. relays[t] \subseteq Attempts /\ relays'[t] \subseteq Attempts
      BY DEF relays
    <3>2. \A a \in Attempts : a \in relays'[t] <=> (t # s /\ a \in relays[t])
      BY <1>0, <1>1, <2>1, <2>2, NoSessionAssumption
    <3> QED
      BY <3>1, <3>2
  <2>3. /\ relays = [t \in SessionIds |-> relays[t]]
        /\ relays' = [t \in SessionIds |-> relays'[t]]
    BY DEF relays
  <2> QED
    BY <2>2, <2>3
<1>7. Authority!End(s)
  BY <1>2, <1>3, <1>4, <1>5, <1>6 DEF Authority!End
<1> QED
  BY <1>7 DEF Seen, Authority!Next

\* Every step of the gateway is a step of the authority, or leaves it alone.
LEMMA StepSeen ==
    ASSUME MaxFrames = 1, RInv, SInv, [Next]_vars
    PROVE  Seen
<1>a. Frames = {1} /\ 1 \in Frames
  BY OneFrame
<1>0. ASSUME NEW k \in Clients
      PROVE  /\ conn[k] \in Connection /\ Consistent(conn[k]) /\ PhaseTells(conn[k])
             /\ conn[k].phase = "closed" => conn[k].registered = {}
  BY DEF RInv, TypeOK, SInv, Sound, PhaseTells
<1>1. ASSUME NEW k \in Clients, Become(k, Shutdown(conn[k])) PROVE Seen
  BY <1>0, <1>1, ShutsDownSeen
<1>2. ASSUME NEW k \in Clients, NEW d, Become(k, d), d.token = conn[k].token,
             ClaimOf(d) = ClaimOf(conn[k]), RelayOf(d) = RelayOf(conn[k])
      PROVE  Seen
  BY <1>2, QuietStep
<1>3. ASSUME NEW k \in Clients, Become(k, conn[k]) PROVE Seen
  BY <1>2, <1>3
<1>4. ASSUME NEW k \in Clients, ClientEvent(k) PROVE Seen
  <2> DEFINE c == conn[k]
  <2>0. c \in Connection /\ Consistent(c)
    BY <1>0
  <2>1. CASE Accept(k)
    <3> DEFINE d == [c EXCEPT !.phase = "authenticating", !.timer = TRUE, !.open = TRUE]
    <3>1. Become(k, d)
      BY <2>1 DEF Accept
    <3>2. /\ d.token = c.token /\ d.stage = c.stage /\ d.session = c.session
          /\ d.registered = c.registered
      BY <2>0 DEF Connection
    <3> HIDE DEF d
    <3>3. ClaimOf(d) = ClaimOf(c) /\ RelayOf(d) = RelayOf(c)
      BY <3>2 DEF ClaimOf, RelayOf
    <3> QED
      BY <1>2, <3>1, <3>2, <3>3
  <2>2. ASSUME NEW i \in Frames, AuthenticationFrame(k, i) PROVE Seen
    <3> DEFINE d == [c EXCEPT !.stage[i] = "authorizing", !.session[i] = c.token[i],
                              !.token[i] = None]
    <3>1. c.stage[1] = "none" /\ Become(k, d)
      BY <1>a, <2>2 DEF AuthenticationFrame
    <3>2. c.registered = {}
      BY <2>0, <3>1 DEF Consistent
    <3>3. /\ d.stage[1] = "authorizing" /\ d.session[1] = c.token[1] /\ d.token[1] = None
          /\ d.registered = {}
      BY <1>a, <2>0, <3>2 DEF Connection
    <3> HIDE DEF d
    <3> QED
      BY <3>1, <3>2, <3>3, PresentedStep
  <2>3. CASE ClientCloses(k)
    <3> DEFINE d == [c EXCEPT !.open = FALSE]
    <3>1. Become(k, d)
      BY <2>3 DEF ClientCloses
    <3>2. /\ d.token = c.token /\ d.stage = c.stage /\ d.session = c.session
          /\ d.registered = c.registered
      BY <2>0 DEF Connection
    <3> HIDE DEF d
    <3>3. ClaimOf(d) = ClaimOf(c) /\ RelayOf(d) = RelayOf(c)
      BY <3>2 DEF ClaimOf, RelayOf
    <3> QED
      BY <1>2, <3>1, <3>2, <3>3
  <2>4. CASE RefusedFrame(k) \/ ClientFrame(k)
    BY <1>1, <1>3, <2>4 DEF RefusedFrame, ClientFrame, Forwarded
  <2> QED
    BY <1>4, <2>1, <2>2, <2>3, <2>4 DEF ClientEvent
<1>5. ASSUME NEW k \in Clients, ClientClosed(k) \/ AuthenticationTimeout(k) PROVE Seen
  BY <1>1, <1>5 DEF ClientClosed, AuthenticationTimeout
<1>6. ASSUME NEW k \in Clients, NEW i \in Frames, Authorized(k, i) PROVE Seen
  <2> DEFINE c == conn[k]
             stage == IF c.aborted THEN "rejected" ELSE "connecting"
             newSocket == IF c.aborted THEN "none" ELSE "connecting"
             d == [c EXCEPT !.phase = "connecting", !.timer = FALSE, !.unregister = i,
                            !.registered = @ \union {i}, !.stage[i] = stage,
                            !.socket[i] = newSocket]
  <2>0. c \in Connection /\ Consistent(c)
    BY <1>0
  <2>1. /\ c.stage[1] = "authorizing" /\ c.session[1] \in live
        /\ stage # "authorizing" /\ Become(k, d)
    BY <1>a, <1>6 DEF Authorized
  <2>2. c.registered = {}
    BY <2>0, <2>1 DEF Consistent
  <2> HIDE DEF stage, newSocket
  <2>3. /\ d.token = c.token /\ d.session = c.session /\ d.stage[1] = stage
        /\ 1 \in d.registered
    BY <1>a, <2>0 DEF Connection
  <2> HIDE DEF d
  <2> QED
    BY <2>1, <2>2, <2>3, GrantedStep
<1>7. ASSUME NEW k \in Clients, NEW i \in Frames, Unauthorized(k, i) PROVE Seen
  <2> DEFINE c == conn[k]
             e == [c EXCEPT !.stage[i] = "done"]
             d == Shutdown(e)
  <2>0. c \in Connection /\ Consistent(c)
    BY <1>0
  <2>1. c.stage[1] = "authorizing" /\ Become(k, d)
    BY <1>a, <1>7 DEF Unauthorized
  <2>2. c.registered = {}
    BY <2>0, <2>1 DEF Consistent
  <2>3. /\ e \in Connection /\ e.token = c.token /\ e.stage[1] = "done" /\ e.registered = {}
    BY <1>a, <2>0, <2>2 DEF Connection
  <2> HIDE DEF e
  <2>4. ClaimOf(e) = Authority!NoClaim
    BY <2>3 DEF ClaimOf
  <2>5. d.token = c.token /\ ClaimOf(d) = Authority!NoClaim /\ RelayOf(d) = None
    BY <2>3, <2>4, ShutdownSeen
  <2>6. RelayOf(c) = None
    BY <2>2 DEF RelayOf
  <2> HIDE DEF d
  <2> QED
    BY <2>1, <2>5, <2>6, DeniedStep
<1>8. ASSUME NEW k \in Clients, NEW i \in Frames, ConnectRejected(k, i) PROVE Seen
  <2> DEFINE c == conn[k]
             e == [c EXCEPT !.stage[i] = "done"]
  <2>0. /\ c \in Connection /\ Consistent(c)
        /\ c.phase = "closed" => c.registered = {}
    BY <1>0
  <2>1. c.stage[1] = "rejected" /\ Become(k, Shutdown(e))
    BY <1>a, <1>8 DEF ConnectRejected
  <2>2. /\ e \in Connection /\ e.token = c.token /\ e.stage[1] = "done"
        /\ e.registered = c.registered /\ e.phase = c.phase /\ e.socket = c.socket
        /\ e.upstream = c.upstream /\ e.unregister = c.unregister
    BY <1>a, <2>0 DEF Connection
  <2> HIDE DEF e
  <2>3. ClaimOf(e) = ClaimOf(c)
    BY <2>1, <2>2 DEF ClaimOf
  <2>4. Consistent(e)
    BY <2>0, <2>1, <2>2 DEF Consistent
  <2> QED
    BY <2>0, <2>1, <2>2, <2>3, <2>4, ShutsDownSeen
<1>9. ASSUME NEW k \in Clients, NEW i \in Frames, NEW to,
             Become(k, [conn[k] EXCEPT !.socket[i] = to])
      PROVE  Seen
  <2> DEFINE c == conn[k]
             d == [c EXCEPT !.socket[i] = to]
  <2>1. /\ d.token = c.token /\ d.stage = c.stage /\ d.session = c.session
        /\ d.registered = c.registered /\ Become(k, d)
    BY <1>0, <1>9 DEF Connection
  <2> HIDE DEF d
  <2>2. ClaimOf(d) = ClaimOf(c) /\ RelayOf(d) = RelayOf(c)
    BY <2>1 DEF ClaimOf, RelayOf
  <2> QED
    BY <1>2, <2>1, <2>2
<1>10. ASSUME NEW k \in Clients, NEW i \in Frames, HandshakeFails(k, i) PROVE Seen
  <2> DEFINE c == conn[k]
             d == [c EXCEPT !.socket[i] = "closed", !.stage[i] = "rejected"]
  <2>0. c \in Connection /\ Consistent(c)
    BY <1>0
  <2>1. c.socket[1] = "connecting" /\ Become(k, d)
    BY <1>a, <1>10 DEF HandshakeFails
  <2>2. c.stage[1] # "authorizing"
    BY <2>0, <2>1 DEF Consistent
  <2>3. /\ d.token = c.token /\ d.session = c.session /\ d.registered = c.registered
        /\ d.stage[1] = "rejected"
    BY <1>a, <2>0 DEF Connection
  <2> HIDE DEF d
  <2>4. ClaimOf(d) = ClaimOf(c) /\ RelayOf(d) = RelayOf(c)
    BY <2>2, <2>3 DEF ClaimOf, RelayOf
  <2> QED
    BY <1>2, <2>1, <2>3, <2>4
<1>11. ASSUME NEW k \in Clients, NEW i \in Frames, Connected(k, i) PROVE Seen
  <2> DEFINE c == conn[k]
             newSocket == IF c.socket[i] = "ready" THEN "open" ELSE "closed"
             r == [c EXCEPT !.stage[i] = "done", !.upstream = i, !.phase = "relaying",
                            !.socket[i] = newSocket]
             a == [c EXCEPT !.stage[i] = "done", !.socket[i] = "closed"]
  <2>0. c \in Connection /\ Consistent(c) /\ c.stage[1] = "connecting"
    BY <1>0, <1>a, <1>11 DEF Connected
  <2>1. Become(k, a) \/ Become(k, Shutdown(r)) \/ Become(k, r)
    <3>1. r = [c EXCEPT !.stage[i] = "done", !.upstream = i, !.phase = "relaying",
                        !.socket[i] = IF @ = "ready" THEN "open" ELSE "closed"]
      BY <2>0 DEF Connection
    <3> HIDE DEF r, a
    <3> QED
      BY <1>11, <3>1 DEF Connected, Forwarded, a
  <2>2. newSocket \in {"open", "closed"}
    OBVIOUS
  <2> HIDE DEF newSocket
  <2>3. /\ a.token = c.token /\ a.session = c.session /\ a.registered = c.registered
        /\ a.stage[1] = "done"
    BY <1>a, <2>0 DEF Connection
  <2>4. /\ r \in Connection /\ r.token = c.token /\ r.session = c.session
        /\ r.registered = c.registered /\ r.unregister = c.unregister
        /\ r.stage[1] = "done" /\ r.phase = "relaying" /\ r.upstream = 1
        /\ r.socket[1] = newSocket
    BY <1>a, <2>0, <2>2 DEF Connection
  <2> HIDE DEF a, r
  <2>5. /\ ClaimOf(a) = ClaimOf(c) /\ RelayOf(a) = RelayOf(c)
        /\ ClaimOf(r) = ClaimOf(c) /\ RelayOf(r) = RelayOf(c)
    BY <2>0, <2>3, <2>4 DEF ClaimOf, RelayOf
  <2>6. Consistent(r)
    BY <2>0, <2>2, <2>4 DEF Consistent
  <2>7. r.phase # "closed"
    BY <2>4
  <2> QED
    BY <1>2, <2>1, <2>3, <2>4, <2>5, <2>6, <2>7, ShutsDownSeen
<1>12. ASSUME NEW k \in Clients, NEW i \in Frames, UpstreamEnds(k, i) PROVE Seen
  <2>1. CASE conn[k].socket[i] = "ready" /\ Become(k, [conn[k] EXCEPT !.socket[i] = "lost"])
    BY <1>9, <2>1
  <2>2. CASE conn[k].socket[i] = "open" /\ Become(k, Shutdown([conn[k] EXCEPT !.socket[i] = "closed"]))
    <3> DEFINE c == conn[k]
               e == [c EXCEPT !.socket[i] = "closed"]
    <3>0. c \in Connection /\ Consistent(c) /\ PhaseTells(c) /\ c.socket[1] = "open"
      BY <1>0, <1>a, <2>2
    <3>1. /\ e \in Connection /\ e.phase = c.phase /\ e.stage = c.stage
          /\ e.socket[1] = "closed" /\ e.registered = c.registered
          /\ e.upstream = c.upstream /\ e.unregister = c.unregister
          /\ e.token = c.token /\ e.session = c.session
      BY <1>a, <3>0 DEF Connection
    <3>2. Become(k, Shutdown(e))
      BY <2>2
    <3> HIDE DEF e
    <3>3. Consistent(e) /\ e.phase # "closed"
      BY <3>0, <3>1 DEF Consistent, PhaseTells
    <3>4. ClaimOf(e) = ClaimOf(c)
      BY <3>1 DEF ClaimOf
    <3> QED
      BY <3>1, <3>2, <3>3, <3>4, ShutsDownSeen
  <2> QED
    BY <1>12, <2>1, <2>2 DEF UpstreamEnds
<1>13. ASSUME NEW k \in Clients, NEW i \in Frames, UpstreamMessage(k, i) PROVE Seen
  BY <1>1, <1>3, <1>13 DEF UpstreamMessage, Forwarded
<1>14. ASSUME NEW s \in SessionIds, Revoke(s) PROVE Seen
  BY <1>14, RevokeSeen
<1>15. CASE UNCHANGED vars
  BY <1>15 DEF vars, Seen, Authority!avars, tickets, tokens, claims, relays
<1>16. ASSUME NEW k \in Clients, NEW i \in Frames, HandshakeSucceeds(k, i) PROVE Seen
  BY <1>9, <1>16 DEF HandshakeSucceeds
<1> QED
  BY <1>4, <1>5, <1>6, <1>7, <1>8, <1>10, <1>11, <1>12, <1>13, <1>14, <1>15, <1>16
     DEF Next, Progress

(***************************************************************************)
(* The gateway uses the session service as SessionAuthority promises it: a *)
(* closer is registered as the answer to one presented token of a live     *)
(* session, and the end of the session takes every closer in its step.     *)
(***************************************************************************)
THEOREM GatewayFollowsAuthority ==
    ASSUME MaxFrames = 1
    PROVE  Spec => FollowsAuthority
<1>1. RInv /\ SInv /\ [Next]_vars => [Authority!Next]_(Authority!avars)
  BY StepSeen DEF Seen
<1> QED
  BY <1>1, SInvariance, PTL DEF Spec, FollowsAuthority

(***************************************************************************)
(* The connection to the runtime                                           *)
(***************************************************************************)

\* What bufferedEvents holds.
Events == [type : {"message", "error", "close"}, number : Nat, size : Nat]

LEMMA LeastIs ==
    ASSUME NEW T \in SUBSET Nat, T # {}
    PROVE  \E x \in T : \A y \in T : x <= y
<1>1. IsWellFoundedOn(OpToRel(<, Nat), Nat)
  BY NatLessThanWellFounded
<1>2. PICK x \in T : \A y \in T : ~(<<y, x>> \in OpToRel(<, Nat))
  BY <1>1, WFMin
<1>3. \A y \in T : ~(y < x)
  BY <1>2 DEF OpToRel
<1> QED
  BY <1>3

\* total is the running sum of the sizes.
Totals(total, s) ==
    total = [i \in 0..Len(s) |-> IF i = 0 THEN 0 ELSE total[i - 1] + s[i].size]

\* There is a running sum, and it is a number.
LEMMA TotalsExist ==
    ASSUME NEW s \in Seq(Events)
    PROVE  \E total \in [0..Len(s) -> Nat] : Totals(total, s)
<1> DEFINE Upto(n, total) ==
        total = [i \in 0..n |-> IF i = 0 THEN 0 ELSE total[i - 1] + s[i].size]
    T == {n \in 0..Len(s) : ~ \E total \in [0..n -> Nat] : Upto(n, total)}
<1>1. SUFFICES ASSUME T # {} PROVE FALSE
  <2>1. Len(s) \in 0..Len(s)
    OBVIOUS
  <2>2. Len(s) \notin T
    BY <1>1
  <2> QED
    BY <2>1, <2>2 DEF Totals
<1>2. PICK n \in T : \A m \in T : n <= m
  <2>1. T \in SUBSET Nat
    OBVIOUS
  <2> HIDE DEF T
  <2> QED
    BY <1>1, <2>1, LeastIs
<1>3. n # 0
  <2>1. [i \in 0..0 |-> 0] \in [0..0 -> Nat]
    OBVIOUS
  <2>2. Upto(0, [i \in 0..0 |-> 0])
    OBVIOUS
  <2> QED
    BY <1>2, <2>1, <2>2
<1>4. n \in 1..Len(s) /\ n - 1 \in 0..Len(s) /\ n - 1 \notin T
  <2>1. n \in 1..Len(s)
    BY <1>2, <1>3
  <2>2. n - 1 \in 0..Len(s) /\ ~(n <= n - 1)
    BY <2>1
  <2> HIDE DEF T
  <2> QED
    BY <1>2, <2>1, <2>2
<1>5. PICK total \in [0..n - 1 -> Nat] : Upto(n - 1, total)
  BY <1>4
<1> DEFINE longer == [i \in 0..n |-> IF i = n THEN total[n - 1] + s[n].size ELSE total[i]]
<1>6. s[n].size \in Nat
  <2>1. s[n] \in Events
    BY <1>4
  <2> QED
    BY <2>1 DEF Events
<1>7. longer \in [0..n -> Nat]
  BY <1>4, <1>6
<1>8. \A i \in 0..n : longer[i] = IF i = 0 THEN 0 ELSE longer[i - 1] + s[i].size
  <2> TAKE i \in 0..n
  <2>1. CASE i = n
    BY <1>4, <2>1
  <2>2. CASE i # n
    <3>1. i \in 0..n - 1 /\ longer[i] = total[i] /\ (i # 0 => longer[i - 1] = total[i - 1])
      BY <1>4, <2>2
    <3> HIDE DEF longer
    <3> QED
      BY <1>5, <3>1
  <2> QED
    BY <2>1, <2>2
<1>9. Upto(n, longer)
  <2> HIDE DEF longer
  <2> QED
    BY <1>7, <1>8
<1> QED
  BY <1>2, <1>7, <1>9

\* There is only one, and it does not depend on what follows.
LEMMA TotalsAgree ==
    ASSUME NEW s \in Seq(Events), NEW t \in Seq(Events), NEW f, NEW g,
           Totals(f, s), Totals(g, t), Len(s) <= Len(t),
           \A i \in 1..Len(s) : s[i] = t[i]
    PROVE  f[Len(s)] = g[Len(s)]
<1> DEFINE n == Len(s)
           T == {m \in 0..n : f[m] # g[m]}
<1>1. SUFFICES ASSUME T # {} PROVE FALSE
  OBVIOUS
<1>2. PICK m \in T : \A k \in T : m <= k
  <2>1. T \in SUBSET Nat
    OBVIOUS
  <2> HIDE DEF T
  <2> QED
    BY <1>1, <2>1, LeastIs
<1>3. /\ \A i \in 0..Len(s) : f[i] = IF i = 0 THEN 0 ELSE f[i - 1] + s[i].size
      /\ \A i \in 0..Len(t) : g[i] = IF i = 0 THEN 0 ELSE g[i - 1] + t[i].size
  BY DEF Totals
<1>4. m # 0
  BY <1>2, <1>3
<1>5. m - 1 \in 0..n /\ m - 1 \notin T /\ m \in 1..n
  <2>1. m \in 1..n
    BY <1>2, <1>4
  <2>2. m - 1 \in 0..n /\ ~(m <= m - 1)
    BY <2>1
  <2> HIDE DEF T
  <2> QED
    BY <1>2, <2>1, <2>2
<1>6. f[m - 1] = g[m - 1]
  BY <1>5
<1>7. f[m] = g[m]
  <2>1. m \in 0..Len(s) /\ m \in 0..Len(t) /\ s[m] = t[m] /\ m # 0
    BY <1>4, <1>5
  <2>2. f[m] = f[m - 1] + s[m].size
    BY <1>3, <2>1
  <2>3. g[m] = g[m - 1] + t[m].size
    BY <1>3, <2>1
  <2> QED
    BY <1>6, <2>1, <2>2, <2>3
<1> QED
  BY <1>2, <1>7

\* What Bytes computes.
LEMMA BytesIs ==
    ASSUME NEW s \in Seq(Events)
    PROVE  \E total \in [0..Len(s) -> Nat] : Totals(total, s) /\ Bytes(s) = total[Len(s)]
<1> DEFINE total == CHOOSE total : Totals(total, s)
<1>1. Totals(total, s)
  BY TotalsExist
<1>2. Bytes(s) = total[Len(s)]
  BY DEF Bytes, Totals
<1>3. PICK f \in [0..Len(s) -> Nat] : Totals(f, s)
  BY TotalsExist
<1>4. f[Len(s)] = total[Len(s)]
  BY <1>1, <1>3, TotalsAgree
<1> QED
  BY <1>2, <1>3, <1>4

\* An event adds its bytes.
LEMMA BytesAppend ==
    ASSUME NEW s \in Seq(Events), NEW e \in Events
    PROVE  Bytes(s) \in Nat /\ Bytes(Append(s, e)) = Bytes(s) + e.size
<1> DEFINE t == Append(s, e)
<1>1. /\ t \in Seq(Events) /\ Len(t) = Len(s) + 1 /\ t[Len(s) + 1] = e
      /\ \A i \in 1..Len(s) : s[i] = t[i]
  OBVIOUS
<1> HIDE DEF t
<1>2. PICK f \in [0..Len(s) -> Nat] : Totals(f, s) /\ Bytes(s) = f[Len(s)]
  BY BytesIs
<1>3. PICK g \in [0..Len(t) -> Nat] : Totals(g, t) /\ Bytes(t) = g[Len(t)]
  BY <1>1, BytesIs
<1>4. f[Len(s)] = g[Len(s)]
  <2>1. Len(s) <= Len(t)
    BY <1>1
  <2> QED
    BY <1>1, <1>2, <1>3, <2>1, TotalsAgree
<1>5. g[Len(s) + 1] = g[Len(s)] + t[Len(s) + 1].size
  BY <1>1, <1>3 DEF Totals
<1> QED
  BY <1>1, <1>2, <1>3, <1>4, <1>5 DEF t

LEMMA BytesEmpty == Bytes(<<>>) = 0
<1>1. <<>> \in Seq(Events) /\ Len(<<>>) = 0
  OBVIOUS
<1>2. PICK f \in [0..Len(<<>>) -> Nat] : Totals(f, <<>>) /\ Bytes(<<>>) = f[Len(<<>>)]
  BY <1>1, BytesIs
<1> QED
  BY <1>1, <1>2 DEF Totals

\* Everything in kept is an event, and nothing is kept once the gateway has the
\* connection.  The first events, as long as they are messages, are the first
\* frames; while nothing else is kept they are all of them, and a relay has
\* delivered all of them.
KInv ==
    /\ kept \in Seq(Events) /\ sent \in Nat /\ delivered \in Seq(Nat)
    /\ activated \in BOOLEAN
    /\ activated => kept = <<>>
    /\ ~activated => delivered = <<>> /\ relay # "relaying"
    /\ \A n \in Leading : \A i \in 1..n : kept[i].number = i
    /\ ~activated /\ Len(kept) \in Leading => sent = Len(kept)
    /\ relay = "relaying" => Len(delivered) = sent

CInv == KInv /\ DeliveredInOrder /\ KeptIsBounded

\* A sequence that counts is the function that DeliveredInOrder names.
LEMMA SeqIsCount ==
    ASSUME NEW s \in Seq(Nat), \A i \in 1..Len(s) : s[i] = i
    PROVE  s = [n \in 1..Len(s) |-> n]
OBVIOUS

LEMMA InitCInv == ConnectorInit => CInv
<1> SUFFICES ASSUME ConnectorInit PROVE CInv
  OBVIOUS
<1>1. KInv
  <2>1. /\ kept = <<>> /\ Len(kept) = 0 /\ delivered = <<>> /\ sent = 0
        /\ ~activated /\ activated \in BOOLEAN /\ relay # "relaying"
    BY DEF ConnectorInit
  <2>2. kept \in Seq(Events) /\ delivered \in Seq(Nat) /\ sent \in Nat
    BY <2>1
  <2>3. \A n \in Leading : n = 0
    BY <2>1 DEF Leading
  <2> QED
    BY <2>1, <2>2, <2>3 DEF KInv
<1>2. DeliveredInOrder
  BY DEF ConnectorInit, DeliveredInOrder
<1>3. {i \in DOMAIN kept : kept[i].type = "message"} = {}
  BY DEF ConnectorInit
<1>4. KeptIsBounded
  BY <1>3, BytesEmpty, FS_EmptySet, ConnectorAssumption DEF ConnectorInit, KeptIsBounded
<1> QED
  BY <1>1, <1>2, <1>4 DEF CInv

\* An event that is kept.
LEMMA KeepEvent ==
    ASSUME CInv, NEW e \in Events, ~activated,
           kept' = Append(kept, e), UNCHANGED <<activated, delivered>>, relay' # "relaying",
           \/ /\ e.type = "message" /\ e.number = sent + 1 /\ sent' = sent + 1
              /\ Len(kept) < MaximumEvents /\ Bytes(kept) + e.size <= 4 * MaxPayload
           \/ /\ e.type # "message" /\ e.size = 0 /\ sent' \in Nat
    PROVE  CInv'
<1> DEFINE n == Len(kept)
           Messages == {i \in DOMAIN kept : kept[i].type = "message"}
<1>1. /\ kept \in Seq(Events) /\ n \in Nat /\ sent \in Nat /\ sent' \in Nat
      /\ kept' \in Seq(Events) /\ Len(kept') = n + 1 /\ kept'[n + 1] = e
      /\ DOMAIN kept = 1..n /\ DOMAIN kept' = 1..n + 1
      /\ \A i \in 1..n : kept'[i] = kept[i]
  BY DEF CInv, KInv
<1> HIDE DEF n
<1>2. /\ \A m \in 0..n : m \in Leading' <=> m \in Leading
      /\ n + 1 \in Leading' <=> n \in Leading /\ e.type = "message"
      /\ Leading' \subseteq 0..n + 1 /\ Leading \subseteq 0..n
  <2>1. Leading' = {m \in 0..n + 1 : \A i \in 1..m : kept'[i].type = "message"}
    BY <1>1 DEF Leading
  <2>2. Leading = {m \in 0..n : \A i \in 1..m : kept[i].type = "message"}
    BY DEF Leading, n
  <2> QED
    BY <1>1, <2>1, <2>2
<1>3. n \in Leading => sent = n
  BY DEF CInv, KInv, n
<1>4. \A m \in Leading : \A i \in 1..m : kept[i].number = i
  BY DEF CInv, KInv
<1>5. ASSUME NEW m \in Leading', NEW i \in 1..m PROVE kept'[i].number = i
  <2>1. CASE m \in 0..n
    <3>1. m \in Leading /\ i \in 1..n
      BY <1>1, <1>2, <2>1
    <3> QED
      BY <1>1, <1>4, <3>1
  <2>2. CASE m = n + 1
    <3>1. n \in Leading /\ e.type = "message" /\ sent = n /\ e.number = n + 1
      BY <1>2, <1>3, <2>2
    <3>2. CASE i = n + 1
      BY <1>1, <3>1, <3>2
    <3>3. CASE i \in 1..n
      BY <1>1, <1>4, <3>1, <3>3
    <3> QED
      BY <1>1, <2>2, <3>2, <3>3
  <2> QED
    BY <1>1, <1>2, <2>1, <2>2
<1>6. Len(kept') \in Leading' => sent' = Len(kept')
  BY <1>1, <1>2, <1>3
<1>7. KInv'
  BY <1>1, <1>5, <1>6 DEF CInv, KInv
<1>8. DeliveredInOrder'
  BY DEF CInv, DeliveredInOrder
<1>9. Bytes(kept') <= 4 * MaxPayload
  <2>1. Bytes(kept) \in Nat /\ Bytes(kept') = Bytes(kept) + e.size /\ Bytes(kept) <= 4 * MaxPayload
    BY <1>1, BytesAppend DEF CInv, KeptIsBounded
  <2> QED
    BY <2>1
<1>10. Cardinality({i \in DOMAIN kept' : kept'[i].type = "message"}) <= MaximumEvents
  <2> DEFINE Later == {i \in DOMAIN kept' : kept'[i].type = "message"}
  <2>1. Cardinality(Messages) <= MaximumEvents
    BY DEF CInv, KeptIsBounded
  <2>2. ASSUME e.type # "message" PROVE Cardinality(Later) <= MaximumEvents
    <3>1. Later = Messages
      BY <1>1, <2>2
    <3> QED
      BY <2>1, <3>1
  <2>3. ASSUME e.type = "message" PROVE Cardinality(Later) <= MaximumEvents
    <3>1. Later \subseteq 1..n + 1 /\ n + 1 <= MaximumEvents
      BY <1>1, <2>3, ConnectorAssumption DEF n
    <3>2. IsFiniteSet(1..n + 1) /\ Cardinality(1..n + 1) = n + 1
      BY <1>1, FS_Interval
    <3>3. Cardinality(Later) <= n + 1 /\ Cardinality(Later) \in Nat
      BY <3>1, <3>2, FS_Subset, FS_CardinalityType
    <3> HIDE DEF Later
    <3> QED
      BY <1>1, <3>1, <3>3, ConnectorAssumption
  <2> QED
    BY <2>2, <2>3
<1>11. KeptIsBounded'
  BY <1>9, <1>10 DEF KeptIsBounded
<1> QED
  BY <1>7, <1>8, <1>11 DEF CInv

\* A step that keeps nothing new, and delivers nothing.
LEMMA IdleHolds ==
    ASSUME CInv, UNCHANGED <<kept, activated, delivered, sent>>,
           relay' = relay \/ relay' # "relaying"
    PROVE  CInv'
<1>1. KInv'
  BY DEF CInv, KInv, Leading
<1>2. DeliveredInOrder' /\ KeptIsBounded'
  BY DEF CInv, DeliveredInOrder, KeptIsBounded, Bytes
<1> QED
  BY <1>1, <1>2 DEF CInv

\* A frame for a relay that has the connection.
LEMMA DeliverHolds ==
    ASSUME CInv, activated, relay = "relaying", sent' = sent + 1,
           delivered' = Append(delivered, sent + 1), UNCHANGED <<activated, kept, relay>>
    PROVE  CInv'
<1>1. /\ delivered \in Seq(Nat) /\ sent \in Nat /\ Len(delivered) = sent
      /\ \A i \in 1..Len(delivered) : delivered[i] = i
  BY DEF CInv, KInv, DeliveredInOrder
<1>2. /\ delivered' \in Seq(Nat) /\ sent' \in Nat /\ Len(delivered') = sent'
      /\ DOMAIN delivered' = 1..Len(delivered')
      /\ \A i \in 1..Len(delivered') : delivered'[i] = i
  BY <1>1
<1>3. DeliveredInOrder'
  BY <1>2, SeqIsCount DEF DeliveredInOrder
<1>4. KInv'
  BY <1>2 DEF CInv, KInv, Leading
<1>5. KeptIsBounded'
  BY DEF CInv, KeptIsBounded, Bytes
<1> QED
  BY <1>3, <1>4, <1>5 DEF CInv

\* A frame that finds the relay closed, or closes it.
LEMMA DiscardHolds ==
    ASSUME CInv, activated, sent' = sent + 1, relay' # "relaying",
           UNCHANGED <<activated, kept, delivered>>
    PROVE  CInv'
<1>1. KInv'
  BY DEF CInv, KInv, Leading
<1>2. DeliveredInOrder' /\ KeptIsBounded'
  BY DEF CInv, DeliveredInOrder, KeptIsBounded, Bytes
<1> QED
  BY <1>1, <1>2 DEF CInv

\* The gateway takes the connection over and dispatches what was kept.
LEMMA ActivateHolds ==
    ASSUME CInv, ~activated, activated' = TRUE, kept' = <<>>, UNCHANGED sent,
           NEW n \in Leading, delivered' = Delivered(n),
           relay' = "relaying" => n = Len(kept)
    PROVE  CInv'
<1> DEFINE numbers == [i \in 1..n |-> kept[i].number]
<1>1. /\ n \in Nat /\ delivered = <<>> /\ sent \in Nat /\ \A i \in 1..n : kept[i].number = i
      /\ n = Len(kept) => sent = n
  BY DEF CInv, KInv, Leading
<1>2. numbers \in Seq(Nat) /\ Len(numbers) = n /\ \A i \in 1..n : numbers[i] = i
  BY <1>1
<1>3. delivered' = delivered \o numbers
  BY DEF Delivered
<1> HIDE DEF numbers
<1>4. delivered' = numbers
  BY <1>1, <1>2, <1>3
<1>5. DeliveredInOrder'
  BY <1>2, <1>4, SeqIsCount DEF DeliveredInOrder
<1>6. kept' \in Seq(Events) /\ \A m \in Leading' : m = 0
  BY DEF Leading
<1>7. KInv'
  BY <1>1, <1>2, <1>4, <1>6 DEF KInv
<1>8. {i \in DOMAIN kept' : kept'[i].type = "message"} = {}
  OBVIOUS
<1>9. KeptIsBounded'
  BY <1>8, BytesEmpty, FS_EmptySet, ConnectorAssumption DEF KeptIsBounded
<1> QED
  BY <1>5, <1>7, <1>9 DEF CInv

LEMMA FrameHolds ==
    ASSUME CInv, Frame
    PROVE  CInv'
<1>1. sent \in Nat /\ sent' = sent + 1 /\ UNCHANGED activated
  BY DEF Frame, CInv, KInv
<1>2. CASE activated /\ relay = "relaying" /\ delivered' = Append(delivered, sent + 1)
           /\ UNCHANGED <<kept, relay>>
  BY <1>1, <1>2, DeliverHolds
<1>3. CASE activated /\ GatewayShutdown /\ UNCHANGED <<kept, delivered>>
  BY <1>1, <1>3, DiscardHolds DEF GatewayShutdown
<1>4. ASSUME ~activated, NEW size \in {1, MaxPayload}, Keep(size), UNCHANGED <<relay, delivered>>
      PROVE  CInv'
  <2>1. relay' # "relaying"
    BY <1>4 DEF CInv, KInv
  <2>2. CASE Len(kept) < MaximumEvents /\ Bytes(kept) + size <= 4 * MaxPayload
    <3> DEFINE e == Message(sent + 1, size)
    <3>1. /\ e \in Events /\ e.type = "message" /\ e.number = sent + 1 /\ e.size = size
      BY <1>1, ConnectorAssumption DEF Message, Events
    <3>2. kept' = Append(kept, e)
      BY <1>4, <2>2 DEF Keep
    <3> HIDE DEF e
    <3> QED
      BY <1>1, <1>4, <2>1, <2>2, <3>1, <3>2, KeepEvent
  <2>3. CASE ~(Len(kept) < MaximumEvents /\ Bytes(kept) + size <= 4 * MaxPayload)
    <3> DEFINE e == Event("error")
    <3>1. e \in Events /\ e.type # "message" /\ e.size = 0
      BY DEF Event, Events
    <3>2. kept' = Append(kept, e) /\ sent' \in Nat
      BY <1>1, <1>4, <2>3 DEF Keep
    <3> HIDE DEF e
    <3> QED
      BY <1>1, <1>4, <2>1, <3>1, <3>2, KeepEvent
  <2> QED
    BY <2>2, <2>3
<1> QED
  BY <1>2, <1>3, <1>4 DEF Frame

LEMMA SocketEndsHolds ==
    ASSUME CInv, SocketEnds
    PROVE  CInv'
<1>1. UNCHANGED <<activated, delivered, sent>> /\ sent \in Nat
  BY DEF SocketEnds, CInv, KInv
<1>2. CASE UNCHANGED kept
  BY <1>1, <1>2, IdleHolds DEF SocketEnds
<1>3. CASE ~activated /\ kept' = Append(kept, Event("close")) /\ UNCHANGED relay
  <2> DEFINE e == Event("close")
  <2>1. e \in Events /\ e.type # "message" /\ e.size = 0
    BY DEF Event, Events
  <2>2. kept' = Append(kept, e) /\ sent' \in Nat /\ relay' # "relaying"
    BY <1>1, <1>3 DEF CInv, KInv
  <2> HIDE DEF e
  <2> QED
    BY <1>1, <1>3, <2>1, <2>2, KeepEvent
<1> QED
  BY <1>2, <1>3 DEF SocketEnds

LEMMA ConnectorStep == CInv /\ [ConnectorNext]_connectorVars => CInv'
<1> SUFFICES ASSUME CInv, [ConnectorNext]_connectorVars PROVE CInv'
  OBVIOUS
<1>1. CASE Connect \/ Open \/ ConnectError \/ ConnectFails \/ FirstFrame \/ Rejected
  BY <1>1, IdleHolds DEF Connect, Open, ConnectError, ConnectFails, FirstFrame, Rejected
<1>2. CASE ClientEnds \/ Burn \/ Burned
  BY <1>2, IdleHolds DEF ClientEnds, Burn, Burned, GatewayShutdown
<1>3. CASE Frame
  BY <1>3, FrameHolds
<1>4. CASE SocketEnds
  BY <1>4, SocketEndsHolds
<1>5. CASE Activate
  <2>1. CASE UNCHANGED <<relay, kept, activated, delivered>>
    BY <1>5, <2>1, IdleHolds DEF Activate
  <2>2. ASSUME ~activated, activated' = TRUE, kept' = <<>>, NEW n \in Leading,
               delivered' = Delivered(n), relay' = "relaying" => n = Len(kept)
        PROVE  CInv'
    BY <1>5, <2>2, ActivateHolds DEF Activate
  <2> QED
    BY <1>5, <2>1, <2>2 DEF Activate
<1>6. CASE UNCHANGED connectorVars
  BY <1>6, IdleHolds DEF connectorVars
<1> QED
  BY <1>1, <1>2, <1>3, <1>4, <1>5, <1>6 DEF ConnectorNext

LEMMA CInvHolds == ConnectorSpec => []CInv
BY InitCInv, ConnectorStep, PTL DEF ConnectorSpec

\* The client gets the frames of the runtime in their order and without a gap,
\* across activate() and whatever of them had no room in bufferedEvents.
THEOREM FramesStayInOrder == ConnectorSpec => []DeliveredInOrder
<1>1. CInv => DeliveredInOrder
  BY DEF CInv
<1> QED
  BY <1>1, CInvHolds, PTL

\* What onMessage keeps before activate() is bounded in number and in bytes.
THEOREM BufferStaysBounded == ConnectorSpec => []KeptIsBounded
<1>1. CInv => KeptIsBounded
  BY DEF CInv
<1> QED
  BY <1>1, CInvHolds, PTL
=============================================================================
