-------------------------- MODULE SessionAuthority --------------------------
(***************************************************************************)
(* What the session service promises its callers about credentials,        *)
(* without the runtime, the phases and the maps that implement it.         *)
(*                                                                         *)
(* A live session hands out tickets.  Presenting a ticket uses it up and   *)
(* gives the presenter a claim, which the authority answers later with a   *)
(* token, or with nothing; a token is presented in the same way for a      *)
(* relay.  When a session ends, its tickets, tokens and relays end in the  *)
(* same step, and the claims on it can only be denied.                     *)
(***************************************************************************)
CONSTANTS SessionIds, Credentials, Requests, None

VARIABLES
    live,      \* sessions that may be used
    tickets,   \* valid ticket -> its session
    tokens,    \* valid token -> its session
    claims,    \* what each presenter is waiting for
    relays     \* open relays of each session

avars == <<live, tickets, tokens, claims, relays>>

NoClaim == [kind |-> "none", id |-> None]

Unused(c) == tickets[c] = None /\ tokens[c] = None

Without(map, s) == [c \in Credentials |-> IF map[c] = s THEN None ELSE map[c]]

Init ==
    /\ live = {}
    /\ tickets = [c \in Credentials |-> None]
    /\ tokens = [c \in Credentials |-> None]
    /\ claims = [r \in Requests |-> NoClaim]
    /\ relays = [s \in SessionIds |-> {}]

\* A session begins with one ticket; nobody has a claim on it.
Open(s, c) ==
    /\ s \notin live /\ Unused(c)
    /\ \A r \in Requests : claims[r].id # s
    /\ live' = live \union {s}
    /\ tickets' = [tickets EXCEPT ![c] = s]
    /\ UNCHANGED <<tokens, claims, relays>>

\* A new ticket replaces every ticket and token of the session.
Rotate(s, c) ==
    /\ s \in live /\ Unused(c)
    /\ tickets' = [Without(tickets, s) EXCEPT ![c] = s]
    /\ tokens' = Without(tokens, s)
    /\ UNCHANGED <<live, claims, relays>>

\* A credential is used up by presenting it, even when it is refused at once.
Present(r, kind, k) ==
    LET map == IF kind = "ticket" THEN tickets ELSE tokens IN
    /\ claims[r] = NoClaim /\ map[k] # None
    /\ IF kind = "ticket"
       THEN tickets' = [tickets EXCEPT ![k] = None] /\ UNCHANGED tokens
       ELSE tokens' = [tokens EXCEPT ![k] = None] /\ UNCHANGED tickets
    /\ \/ claims' = [claims EXCEPT ![r] = [kind |-> kind, id |-> map[k]]]
       \/ UNCHANGED claims
    /\ UNCHANGED <<live, relays>>

Close(r) == claims' = [claims EXCEPT ![r] = NoClaim]

\* A ticket's claim becomes a token.
Mint(r, c) ==
    /\ claims[r].kind = "ticket" /\ claims[r].id \in live /\ Unused(c)
    /\ tokens' = [tokens EXCEPT ![c] = claims[r].id]
    /\ Close(r)
    /\ UNCHANGED <<live, tickets, relays>>

\* A token's claim becomes a relay.
Grant(r, c) ==
    /\ claims[r].kind = "token" /\ claims[r].id \in live
    /\ relays' = [relays EXCEPT ![claims[r].id] = @ \union {c}]
    /\ Close(r)
    /\ UNCHANGED <<live, tickets, tokens>>

Deny(r) ==
    /\ claims[r] # NoClaim
    /\ Close(r)
    /\ UNCHANGED <<live, tickets, tokens, relays>>

\* The session ends with everything it gave out; the claim that discovered the
\* end may be denied in the same step.
End(s) ==
    /\ s \in live
    /\ live' = live \ {s}
    /\ tickets' = Without(tickets, s)
    /\ tokens' = Without(tokens, s)
    /\ relays' = [relays EXCEPT ![s] = {}]
    /\ UNCHANGED claims \/ \E r \in Requests : claims[r].id = s /\ Close(r)

HangUp(s, c) ==
    /\ c \in relays[s]
    /\ relays' = [relays EXCEPT ![s] = @ \ {c}]
    /\ UNCHANGED <<live, tickets, tokens, claims>>

Next ==
    \/ \E s \in SessionIds, c \in Credentials : Open(s, c) \/ Rotate(s, c) \/ HangUp(s, c)
    \/ \E r \in Requests, kind \in {"ticket", "token"}, k \in Credentials : Present(r, kind, k)
    \/ \E r \in Requests, c \in Credentials : Mint(r, c) \/ Grant(r, c)
    \/ \E r \in Requests : Deny(r)
    \/ \E s \in SessionIds : End(s)

Spec == Init /\ [][Next]_avars
=============================================================================
