------------------------ MODULE SessionServiceProofs ------------------------
(***************************************************************************)
(* Theorems about SessionService, for any tenants, sessions, credentials   *)
(* and number of concurrent calls, and that it implements SessionAuthority.*)
(***************************************************************************)
EXTENDS SessionService, FiniteSetTheorems, TLAPS

USE DEF runtime

CallsTyped ==
    /\ calls \in [Requests -> Calls]
    /\ \A r \in Requests :
          /\ calls[r].op # "none" => calls[r].id \in SessionIds
          /\ calls[r].op \in Bearers => calls[r].cred \in Credentials

LEMMA BeginTyped ==
    ASSUME CallsTyped, NEW r \in Requests, NEW op \in Ops, NEW s \in SessionIds,
           NEW c \in Credentials \union {None}, Begin(r, op, s, c),
           op \in Bearers => c \in Credentials
    PROVE  CallsTyped'
BY DEF CallsTyped, Calls, Answers, Begin, Bearers

LEMMA ReturnTyped ==
    ASSUME CallsTyped, NEW r \in Requests, Return(r)
    PROVE  CallsTyped'
BY DEF CallsTyped, Calls, Ops, Answers, Return, Idle, Bearers

LEMMA AnswerTyped ==
    ASSUME CallsTyped, NEW r \in Requests, NEW a \in Answers, Answer(r, a)
    PROVE  CallsTyped'
BY DEF CallsTyped, Calls, Answer, Bearers

LEMMA TabResumeTyped ==
    ASSUME CallsTyped, NEW r \in Requests, TabResume(r)
    PROVE  CallsTyped'
BY DEF CallsTyped, Calls, Ops, Answers, TabResume, Bearers

\* A call that is cut off is the only one that changes.  An observation lets go of
\* its session; a creation or a burn stays what it is.
LEMMA CutOffEffect ==
    ASSUME CallsTyped, NEW r \in Requests, CutOff(r)
    PROVE  /\ UNCHANGED <<records, credentials, relays, burned>>
           /\ \A q \in Requests \ {r} : calls'[q] = calls[q]
           /\ calls'[r].answer = "cut"
           /\ \/ /\ calls[r].op \in {"create", "burn"}
                 /\ calls'[r].op = calls[r].op
                 /\ calls'[r].id = calls[r].id
                 /\ calls'[r].cred = calls[r].cred
              \/ /\ calls[r].op \in Observers
                 /\ calls'[r].op = "none"
                 /\ calls'[r].id = None
                 /\ UNCHANGED container
<1>1. CASE calls[r].op \in Observers
  BY <1>1 DEF CallsTyped, Calls, CutOff, Idle, Observers
<1>2. CASE calls[r].op \in {"create", "burn"}
  BY <1>2 DEF CallsTyped, Calls, CutOff, Answer, Observers
<1> QED
  BY <1>1, <1>2 DEF CutOff

LEMMA CutOffTyped ==
    ASSUME CallsTyped, NEW r \in Requests, CutOff(r)
    PROVE  CallsTyped'
<1>1. CASE calls[r].op \in Observers
  BY <1>1 DEF CallsTyped, Calls, Ops, Answers, CutOff, Idle, Bearers, Observers
<1>2. CASE calls[r].op \in {"create", "burn"}
  <2>1. Answer(r, "cut") /\ "cut" \in Answers
    BY <1>2 DEF CutOff, Observers, Answers
  <2> QED
    BY <2>1, AnswerTyped
<1> QED
  BY <1>1, <1>2 DEF CutOff

\* A step does not take a state out of the types of the service's maps.
LEMMA TypeStep ==
    ASSUME TypeOK, [Next]_vars
    PROVE  TypeOK'
<1> DEFINE MapsTyped ==
        /\ sessions \in [SessionIds -> Phases]
        /\ tenantOf \in [SessionIds -> Tenants \union {None}]
        /\ reservations \subseteq SessionIds
        /\ pairingTickets \in [Credentials -> SessionIds \union {None}]
        /\ signalingTokens \in [Credentials -> SessionIds \union {None}]
        /\ credentialed \subseteq SessionIds
        /\ ticketHash \in [SessionIds -> Credentials \union {None}]
        /\ tokenHashes \in [SessionIds -> SUBSET Credentials]
        /\ expired \subseteq Credentials
        /\ relays \in [SessionIds -> SUBSET Credentials]
        /\ container \in [SessionIds -> {"none", "running", "stopped"}]
        /\ abandoned \subseteq SessionIds
        /\ burned \subseteq SessionIds
<1>0. MapsTyped /\ CallsTyped
  BY DEF TypeOK, CallsTyped
<1>t. SUFFICES MapsTyped' /\ CallsTyped'
  BY DEF TypeOK, CallsTyped
<1>p. /\ {"absent", "active", "burning", "failed"} = Phases
      /\ {"none", "ok", "lost", "error", "cut"} = Answers
      /\ {"none", "create", "get", "issue", "tab", "tabCall", "exchange",
          "authorize", "burn"} = Ops
  BY DEF Phases, Answers, Ops
<1>i. \A r \in Requests : calls[r].op # "none" =>
          /\ calls[r].id \in SessionIds
          /\ calls[r].op \in Bearers => calls[r].cred \in Credentials
  BY <1>0 DEF CallsTyped, Calls
<1> USE DEF records, credentials
<1>1. ASSUME NEW r \in Requests, NEW t \in Tenants, NEW s \in SessionIds,
             NEW c \in Credentials, CreateStart(r, t, s, c)
      PROVE  MapsTyped' /\ CallsTyped'
  <2>1. CallsTyped'
    BY <1>0, <1>1, <1>p, BeginTyped DEF CreateStart, Bearers
  <2> QED
    BY <1>0, <1>1, <2>1 DEF CreateStart
<1>2. ASSUME NEW r \in Requests, NEW op \in {"get", "tab"}, NEW s \in SessionIds,
             ObserveStart(r, op, s)
      PROVE  MapsTyped' /\ CallsTyped'
  BY <1>0, <1>2, <1>p, BeginTyped DEF ObserveStart, Bearers
<1>3. ASSUME NEW r \in Requests, NEW s \in SessionIds, NEW c \in Credentials,
             IssueStart(r, s, c)
      PROVE  MapsTyped' /\ CallsTyped'
  BY <1>0, <1>3, <1>p, BeginTyped DEF IssueStart, Bearers
<1>4. ASSUME NEW r \in Requests, NEW k \in Credentials, NEW n \in Credentials,
             ExchangeStart(r, k, n)
      PROVE  MapsTyped' /\ CallsTyped'
  <2>1. pairingTickets[k] \in SessionIds
    BY <1>0, <1>4 DEF ExchangeStart
  <2>2. CASE UNCHANGED calls
    BY <1>0, <1>4, <2>1, <2>2 DEF ExchangeStart, CallsTyped
  <2>3. CASE Begin(r, "exchange", pairingTickets[k], n)
    <3>1. CallsTyped'
      BY <1>0, <1>p, <2>1, <2>3, BeginTyped DEF Bearers
    <3> QED
      BY <1>0, <1>4, <2>1, <3>1 DEF ExchangeStart
  <2> QED
    BY <1>4, <2>2, <2>3 DEF ExchangeStart
<1>5. ASSUME NEW r \in Requests, NEW k \in Credentials, AuthorizeStart(r, k)
      PROVE  MapsTyped' /\ CallsTyped'
  <2>1. signalingTokens[k] \in SessionIds
    BY <1>0, <1>5 DEF AuthorizeStart
  <2>2. CASE UNCHANGED calls
    BY <1>0, <1>5, <2>1, <2>2 DEF AuthorizeStart, CallsTyped
  <2>3. CASE Begin(r, "authorize", signalingTokens[k], k)
    <3>1. CallsTyped'
      BY <1>0, <1>p, <2>1, <2>3, BeginTyped DEF Bearers
    <3> QED
      BY <1>0, <1>5, <2>1, <3>1 DEF AuthorizeStart
  <2> QED
    BY <1>5, <2>2, <2>3 DEF AuthorizeStart
<1>6. ASSUME NEW r \in Requests, NEW s \in SessionIds, BurnStart(r, s)
      PROVE  MapsTyped' /\ CallsTyped'
  <2>1. CallsTyped'
    BY <1>0, <1>6, <1>p, BeginTyped DEF BurnStart, Bearers
  <2> QED
    BY <1>0, <1>p, <1>6, <2>1
       DEF BurnStart, revokeCredentials, Forget, revokeSignalingConnections
<1>7. ASSUME NEW r \in Requests, RuntimeAnswers(r)
      PROVE  MapsTyped' /\ CallsTyped'
  <2>1. calls[r].id \in SessionIds
    BY <1>i, <1>7 DEF RuntimeAnswers, CreateAnswers, CreateLeaves, InspectAnswers, TabAnswers,
                      DestroyAnswers, Observers
  <2>2. \E a \in Answers : Answer(r, a)
    BY <1>7, <1>p DEF RuntimeAnswers, CreateAnswers, CreateLeaves, InspectAnswers, TabAnswers,
                      DestroyAnswers
  <2>3. CallsTyped'
    BY <1>0, <2>2, AnswerTyped
  <2> QED
    BY <1>0, <1>7, <2>1, <2>3 DEF RuntimeAnswers, CreateAnswers, CreateLeaves, InspectAnswers,
                                  TabAnswers, DestroyAnswers
<1>8. ASSUME NEW r \in Requests, Resume(r)
      PROVE  MapsTyped' /\ CallsTyped'
  <2>1. /\ calls[r].id \in SessionIds
        /\ calls[r].op \in Bearers => calls[r].cred \in Credentials
    BY <1>i, <1>8 DEF Resume, CreateResume, CreateFails, ResumeRuntimeLost,
         ResumeRefused, GetResume, TabResume, TabReturns, IssueResume,
         ExchangeResume, AuthorizeResume, BurnResume, BurnFails, Observers
  <2>2. CallsTyped'
    BY <1>0, <1>8, ReturnTyped, TabResumeTyped DEF Resume, CreateResume,
         CreateFails, ResumeRuntimeLost, ResumeRefused, GetResume, TabReturns,
         IssueResume, ExchangeResume, AuthorizeResume, BurnResume, BurnFails
  <2>3. CASE CreateResume(r)
    BY <1>0, <1>p, <2>1, <2>2, <2>3 DEF Bearers, CreateResume, rotateSignalingTicket
  <2>4. CASE ResumeRuntimeLost(r)
    BY <1>0, <1>p, <2>1, <2>2, <2>4
       DEF ResumeRuntimeLost, revokeCredentials, Forget, revokeSignalingConnections
  <2>5. CASE IssueResume(r)
    BY <1>0, <2>1, <2>2, <2>5 DEF Bearers, IssueResume, rotateSignalingTicket
  <2>6. CASE ExchangeResume(r)
    BY <1>0, <2>1, <2>2, <2>6 DEF Bearers, ExchangeResume
  <2>7. CASE AuthorizeResume(r)
    BY <1>0, <2>1, <2>2, <2>7 DEF Bearers, AuthorizeResume
  <2>8. CASE \/ CreateFails(r) \/ ResumeRefused(r) \/ GetResume(r) \/ TabResume(r)
             \/ TabReturns(r) \/ BurnResume(r) \/ BurnFails(r)
    BY <1>0, <1>p, <2>1, <2>2, <2>8 DEF CreateFails, ResumeRefused, GetResume,
         TabResume, TabReturns, BurnResume, BurnFails
  <2> QED
    BY <1>8, <2>3, <2>4, <2>5, <2>6, <2>7, <2>8 DEF Resume
<1>9. CASE Environment
  BY <1>0, <1>9 DEF Environment, ContainerStops, ContainerVanishes, CreatedLate,
         EngineForgets, Expire, RelayCloses, CallsTyped
<1>10. CASE UNCHANGED vars
  BY <1>0, <1>10 DEF vars, CallsTyped
<1>11. ASSUME NEW r \in Requests, CutOff(r)
       PROVE  MapsTyped' /\ CallsTyped'
  <2>1. calls[r].id \in SessionIds
    BY <1>i, <1>11 DEF CutOff, Observers
  <2>2. CallsTyped'
    BY <1>0, <1>11, CutOffTyped
  <2> QED
    BY <1>0, <1>11, <2>1, <2>2 DEF CutOff, CreateLeaves
<1> QED
  BY <1>1, <1>2, <1>3, <1>4, <1>5, <1>6, <1>7, <1>8, <1>9, <1>10, <1>11 DEF Next, Start

\* Every reachable state has the types that the service's maps declare.
THEOREM TypeCorrect == Spec => []TypeOK
<1>1. Init => TypeOK
  BY DEF Init, TypeOK, Phases, Ops, Answers, Calls, Idle, Bearers
<1> QED
  BY <1>1, TypeStep, PTL DEF Spec
-----------------------------------------------------------------------------
(* The inductive invariant.  CredentialsRevocable is not inductive by      *)
(* itself: a burn that completes removes the record, so nothing may be     *)
(* outstanding by then, which CallsAgreeWithRecords says of a burn in      *)
(* progress; that in turn needs that nothing makes the session active      *)
(* again, for which a creation must be alone on its session.  And a        *)
(* confirmed burn leaves no container only if none can come of a creation  *)
(* that was abandoned: such a session never had a record.                  *)

AbandonedNeverBegan ==
    \A s \in abandoned :
        /\ sessions[s] = "absent"
        /\ \A r \in Requests : calls[r].id = s =>
              calls[r].op = "create" /\ calls[r].answer \in {"error", "cut"}

IInv ==
    /\ TypeOK
    /\ CredentialsRevocable
    /\ RelaysOnlyWhileActive
    /\ BurningHasBurn
    /\ CallsAgreeWithRecords
    /\ NoOrphanContainer
    /\ AbandonedNeverBegan

LEMMA InitIInv == Init => IInv
BY NoneAssumption DEF Init, IInv, TypeOK, Phases, Calls, Ops, Answers, Idle,
    Bearers, CredentialsRevocable, RelaysOnlyWhileActive, BurningHasBurn,
    CallsAgreeWithRecords, NoOrphanContainer, AbandonedNeverBegan, Present

\* No step leaves a ticket or token outside the credentials of an active session.
LEMMA CredentialStep ==
    ASSUME IInv, [Next]_vars
    PROVE  CredentialsRevocable'
<1> USE NoneAssumption DEF IInv, TypeOK, CredentialsRevocable
<1>1. ASSUME NEW r \in Requests, NEW k \in Credentials, NEW n \in Credentials,
             ExchangeStart(r, k, n)
      PROVE  CredentialsRevocable'
  BY <1>1 DEF ExchangeStart, records
<1>2. ASSUME NEW r \in Requests, NEW k \in Credentials, AuthorizeStart(r, k)
      PROVE  CredentialsRevocable'
  BY <1>2 DEF AuthorizeStart, records
<1>3. ASSUME NEW r \in Requests, NEW s \in SessionIds, BurnStart(r, s)
      PROVE  CredentialsRevocable'
  BY <1>3 DEF BurnStart, revokeCredentials, Forget
<1>4. ASSUME NEW r \in Requests, CreateResume(r)
      PROVE  CredentialsRevocable'
  BY <1>4 DEF CreateResume, rotateSignalingTicket, Bearers
<1>5. ASSUME NEW r \in Requests, ResumeRuntimeLost(r)
      PROVE  CredentialsRevocable'
  BY <1>5 DEF ResumeRuntimeLost, revokeCredentials, Forget, Observers
<1>6. ASSUME NEW r \in Requests, IssueResume(r)
      PROVE  CredentialsRevocable'
  BY <1>6 DEF IssueResume, rotateSignalingTicket, Bearers, records, StillCurrent
<1>7. ASSUME NEW r \in Requests, ExchangeResume(r)
      PROVE  CredentialsRevocable'
  BY <1>7 DEF ExchangeResume, Bearers, records, StillCurrent
<1>8. ASSUME NEW r \in Requests, BurnResume(r) \/ BurnFails(r)
      PROVE  CredentialsRevocable'
  BY <1>8 DEF BurnResume, BurnFails, CallsAgreeWithRecords, credentials
<1>9. ASSUME UNCHANGED <<sessions, pairingTickets, signalingTokens, credentialed,
                         ticketHash, tokenHashes>>
      PROVE  CredentialsRevocable'
  BY <1>9
<1> QED
  BY <1>1, <1>2, <1>3, <1>4, <1>5, <1>6, <1>7, <1>8, <1>9
     DEF Next, Start, RuntimeAnswers, Resume, Environment, CreateStart, ObserveStart,
         IssueStart, CreateAnswers, InspectAnswers, TabAnswers, DestroyAnswers,
         CreateFails, ResumeRefused, GetResume, TabResume, TabReturns,
         AuthorizeResume, ContainerStops, ContainerVanishes, CreatedLate,
         EngineForgets, Expire, RelayCloses, CutOff, vars, records,
         credentials

\* No step opens a relay for a session that is not active, or ends a session
\* without closing its relays.
LEMMA RelayStep ==
    ASSUME IInv, [Next]_vars
    PROVE  RelaysOnlyWhileActive'
<1> USE DEF IInv, TypeOK, RelaysOnlyWhileActive
<1>1. ASSUME NEW r \in Requests, NEW s \in SessionIds, BurnStart(r, s)
      PROVE  RelaysOnlyWhileActive'
  BY <1>1 DEF BurnStart, revokeSignalingConnections
<1>2. ASSUME NEW r \in Requests, ResumeRuntimeLost(r)
      PROVE  RelaysOnlyWhileActive'
  BY <1>2 DEF ResumeRuntimeLost, revokeSignalingConnections, Observers
<1>3. ASSUME NEW r \in Requests, AuthorizeResume(r)
      PROVE  RelaysOnlyWhileActive'
  BY <1>3 DEF AuthorizeResume, StillCurrent, records
<1>4. ASSUME NEW r \in Requests, CreateResume(r)
      PROVE  RelaysOnlyWhileActive'
  BY <1>4 DEF CreateResume
<1>5. ASSUME NEW r \in Requests, BurnResume(r) \/ BurnFails(r)
      PROVE  RelaysOnlyWhileActive'
  BY <1>5 DEF BurnResume, BurnFails, CallsAgreeWithRecords
<1>6. ASSUME NEW s \in SessionIds, NEW c \in Credentials, RelayCloses(s, c)
      PROVE  RelaysOnlyWhileActive'
  BY <1>6 DEF RelayCloses, records
<1>7. ASSUME UNCHANGED <<sessions, relays>>
      PROVE  RelaysOnlyWhileActive'
  BY <1>7
<1> QED
  BY <1>1, <1>2, <1>3, <1>4, <1>5, <1>6, <1>7
     DEF Next, Start, RuntimeAnswers, Resume, Environment, CreateStart, ObserveStart,
         IssueStart, ExchangeStart, AuthorizeStart, CreateAnswers, InspectAnswers,
         TabAnswers, DestroyAnswers, CreateFails, ResumeRefused, GetResume, TabResume,
         TabReturns, IssueResume, ExchangeResume, ContainerStops, ContainerVanishes, CreatedLate,
         EngineForgets, Expire, CutOff, vars, records

\* A step that ends the burn of a session takes it out of "burning".
LEMMA BurningStep ==
    ASSUME IInv, [Next]_vars
    PROVE  BurningHasBurn'
<1> USE DEF IInv, TypeOK, BurningHasBurn, InFlight
<1> DEFINE BurnsGoOn == \A q \in Requests : calls[q].op = "burn" =>
                            calls'[q].op = "burn" /\ calls'[q].id = calls[q].id
           FewerBurning == \A s \in SessionIds : sessions'[s] = "burning" =>
                            sessions[s] = "burning"
<1>1. ASSUME NEW r \in Requests, NEW s \in SessionIds, BurnStart(r, s)
      PROVE  BurningHasBurn'
  BY <1>1 DEF BurnStart, Begin, Idle
<1>2. ASSUME NEW r \in Requests, BurnResume(r) \/ BurnFails(r)
      PROVE  BurningHasBurn'
  BY <1>2 DEF BurnResume, BurnFails, Return, Idle
<1>3. ASSUME NEW r \in Requests, Start(r), ~\E s \in SessionIds : BurnStart(r, s)
      PROVE  BurnsGoOn /\ UNCHANGED sessions
  BY <1>3 DEF Start, CreateStart, ObserveStart, IssueStart, ExchangeStart,
              AuthorizeStart, Begin, Idle, records
<1>4. ASSUME NEW r \in Requests, RuntimeAnswers(r)
      PROVE  BurnsGoOn /\ UNCHANGED sessions
  <2>1. PICK a \in Answers : Answer(r, a)
    BY <1>4 DEF RuntimeAnswers, CreateAnswers, CreateLeaves, InspectAnswers, TabAnswers,
                DestroyAnswers, Answers
  <2>2. BurnsGoOn
    BY <2>1 DEF Answer, Calls
  <2> QED
    BY <1>4, <2>2 DEF RuntimeAnswers, CreateAnswers, CreateLeaves, InspectAnswers, TabAnswers,
                      DestroyAnswers, records
<1>5. ASSUME NEW r \in Requests, Resume(r), ~BurnResume(r), ~BurnFails(r)
      PROVE  BurnsGoOn /\ FewerBurning
  <2>1. calls[r].op # "burn"
    BY <1>5 DEF Resume, CreateResume, CreateFails, ResumeRuntimeLost, ResumeRefused,
         GetResume, TabResume, TabReturns, IssueResume, ExchangeResume,
         AuthorizeResume, Observers
  <2>2. \A q \in Requests \ {r} : calls'[q] = calls[q]
    BY <1>5 DEF Resume, CreateResume, CreateFails, ResumeRuntimeLost, ResumeRefused,
         GetResume, TabResume, TabReturns, IssueResume, ExchangeResume,
         AuthorizeResume, Return
  <2>3. FewerBurning
    BY <1>5 DEF Resume, CreateResume, CreateFails, ResumeRuntimeLost, ResumeRefused,
         GetResume, TabResume, TabReturns, IssueResume, ExchangeResume,
         AuthorizeResume, records, Phases
  <2> QED
    BY <2>1, <2>2, <2>3
<1>6. ASSUME UNCHANGED <<sessions, calls>>
      PROVE  BurningHasBurn'
  BY <1>6
<1>8. ASSUME NEW r \in Requests, CutOff(r)
      PROVE  BurnsGoOn /\ UNCHANGED sessions
  <2>1. CallsTyped
    BY DEF CallsTyped
  <2> QED
    BY <1>8, <2>1, CutOffEffect DEF records, Observers
<1>7. ASSUME BurnsGoOn, FewerBurning
      PROVE  BurningHasBurn'
  BY <1>7
<1> QED
  BY <1>1, <1>2, <1>3, <1>4, <1>5, <1>6, <1>7, <1>8
     DEF Next, Start, Environment, ContainerStops, ContainerVanishes, CreatedLate,
         EngineForgets, Expire, RelayCloses, vars, records

\* No step of another call makes a creation or a burn in progress find its
\* session in a state it does not expect.
LEMMA CallsStep ==
    ASSUME IInv, [Next]_vars
    PROVE  CallsAgreeWithRecords'
<1> USE NoneAssumption DEF IInv, TypeOK, CallsAgreeWithRecords
<1>1. ASSUME NEW r \in Requests, NEW t \in Tenants, NEW s \in SessionIds,
             NEW c \in Credentials, CreateStart(r, t, s, c)
      PROVE  CallsAgreeWithRecords'
  BY <1>1 DEF CreateStart, FreshId, Begin
<1>2. ASSUME NEW r \in Requests, NEW op \in {"get", "tab"}, NEW s \in SessionIds,
             ObserveStart(r, op, s)
      PROVE  CallsAgreeWithRecords'
  BY <1>2 DEF ObserveStart, Begin, records
<1>3. ASSUME NEW r \in Requests, NEW s \in SessionIds, NEW c \in Credentials,
             IssueStart(r, s, c)
      PROVE  CallsAgreeWithRecords'
  BY <1>3 DEF IssueStart, Begin, records
<1>4. ASSUME NEW r \in Requests, NEW k \in Credentials, NEW n \in Credentials,
             ExchangeStart(r, k, n)
      PROVE  CallsAgreeWithRecords'
  <2>1. CASE UNCHANGED calls
    BY <1>4, <2>1 DEF ExchangeStart, records
  <2>2. CASE sessions[pairingTickets[k]] = "active" /\ Begin(r, "exchange", pairingTickets[k], n)
    BY <1>4, <2>2 DEF ExchangeStart, Begin, records
  <2> QED
    BY <1>4, <2>1, <2>2 DEF ExchangeStart
<1>5. ASSUME NEW r \in Requests, NEW k \in Credentials, AuthorizeStart(r, k)
      PROVE  CallsAgreeWithRecords'
  <2>1. CASE UNCHANGED calls
    BY <1>5, <2>1 DEF AuthorizeStart, records
  <2>2. CASE sessions[signalingTokens[k]] = "active" /\ Begin(r, "authorize", signalingTokens[k], k)
    BY <1>5, <2>2 DEF AuthorizeStart, Begin, records
  <2> QED
    BY <1>5, <2>1, <2>2 DEF AuthorizeStart
<1>6. ASSUME NEW r \in Requests, NEW s \in SessionIds, BurnStart(r, s)
      PROVE  CallsAgreeWithRecords'
  BY <1>6 DEF BurnStart, Begin
<1>7. ASSUME NEW r \in Requests, RuntimeAnswers(r)
      PROVE  CallsAgreeWithRecords'
  <2> DEFINE Answered(a) == /\ calls' = [calls EXCEPT ![r].answer = a]
                            /\ \A q \in Requests : /\ calls'[q].op = calls[q].op
                                                   /\ calls'[q].id = calls[q].id
                            /\ \A q \in Requests \ {r} : calls'[q] = calls[q]
                            /\ calls'[r].answer = a
  <2>0. ASSUME NEW a \in Answers, Answer(r, a)
        PROVE  Answered(a)
    BY <2>0 DEF Answer, Calls
  <2>1. CASE CreateAnswers(r)
    <3>1. /\ UNCHANGED <<sessions, reservations, burned>>
          /\ calls[r].op = "create"
          /\ \A q \in Requests \ {r} : calls[q].id # calls[r].id
          /\ calls[r].id \in SessionIds
      BY <2>1 DEF CreateAnswers, records
    <3>2. \A s \in SessionIds \ {calls[r].id} :
             container'[s] = container[s] /\ (s \in abandoned' <=> s \in abandoned)
      BY <2>1, <3>1 DEF CreateAnswers, CreateLeaves
    <3>3. CASE Answer(r, "ok")
      <4>1. Answered("ok")
        BY <2>0, <3>3 DEF Answers
      <4> QED
        BY <3>1, <3>2, <4>1 DEF Observers
    <3>4. CASE Answer(r, "error") /\ CreateLeaves(calls[r].id)
      <4>1. Answered("error")
        BY <2>0, <3>4 DEF Answers
      <4>2. calls[r].id \in abandoned'
        BY <3>4 DEF CreateLeaves
      <4> QED
        BY <3>1, <3>2, <4>1, <4>2 DEF Observers
    <3> QED
      BY <2>1, <3>3, <3>4 DEF CreateAnswers
  <2>2. CASE InspectAnswers(r) \/ TabAnswers(r)
    <3>1. PICK a \in Answers : Answer(r, a) /\ (a = "lost" =>
             container[calls[r].id] # "running")
      BY <2>2 DEF InspectAnswers, TabAnswers, Answers
    <3>2. /\ calls[r].op \notin {"create", "burn"}
          /\ UNCHANGED <<sessions, reservations, container, abandoned, burned>>
      BY <2>2 DEF InspectAnswers, TabAnswers, Observers, records
    <3>3. Answered(a)
      BY <2>0, <3>1
    <3> QED
      BY <3>1, <3>2, <3>3
  <2>3. CASE DestroyAnswers(r)
    <3>1. /\ UNCHANGED <<sessions, reservations, abandoned, burned>>
          /\ calls[r].op = "burn" /\ calls[r].id \in SessionIds
      BY <2>3 DEF DestroyAnswers, records
    <3>2. \A s \in SessionIds : container'[s] \in {container[s], "none"}
      BY <2>3, <3>1 DEF DestroyAnswers
    <3>3. CASE Answer(r, "ok") /\ container' = [container EXCEPT ![calls[r].id] = "none"]
      <4>1. Answered("ok")
        BY <2>0, <3>3 DEF Answers
      <4>2. container'[calls[r].id] = "none"
        BY <3>1, <3>3
      <4> QED
        BY <3>1, <3>2, <4>1, <4>2 DEF Observers
    <3>4. CASE Answer(r, "error")
      <4>1. Answered("error")
        BY <2>0, <3>4 DEF Answers
      <4> QED
        BY <3>1, <3>2, <4>1 DEF Observers
    <3> QED
      BY <2>3, <3>3, <3>4 DEF DestroyAnswers
  <2> QED
    BY <1>7, <2>1, <2>2, <2>3 DEF RuntimeAnswers
<1>8. ASSUME NEW r \in Requests, Resume(r)
      PROVE  CallsAgreeWithRecords'
  <2>1. CASE CreateResume(r)
    BY <2>1 DEF CreateResume, Return, Idle
  <2>2. CASE CreateFails(r)
    BY <2>2 DEF CreateFails, Return, Idle
  <2>3. CASE ResumeRuntimeLost(r)
    BY <2>3 DEF ResumeRuntimeLost, Return, Idle, Observers, StillCurrent
  <2>4. CASE TabResume(r)
    BY <2>4 DEF TabResume, records, Calls
  <2>5. CASE BurnResume(r)
    BY <2>5 DEF BurnResume, Return, Idle
  <2>6. CASE BurnFails(r)
    BY <2>6 DEF BurnFails, Return, Idle
  <2>7. CASE \/ ResumeRefused(r) \/ GetResume(r) \/ TabReturns(r) \/ IssueResume(r)
             \/ ExchangeResume(r) \/ AuthorizeResume(r)
    BY <2>7 DEF ResumeRefused, GetResume, TabReturns, IssueResume, ExchangeResume,
                AuthorizeResume, Return, Idle, records
  <2> QED
    BY <1>8, <2>1, <2>2, <2>3, <2>4, <2>5, <2>6, <2>7 DEF Resume
<1>9. CASE Environment
  <2>1. ASSUME NEW s \in SessionIds, ContainerStops(s)
        PROVE  CallsAgreeWithRecords'
    BY <2>1 DEF ContainerStops, records
  <2>2. ASSUME NEW s \in SessionIds, ContainerVanishes(s)
        PROVE  CallsAgreeWithRecords'
    BY <2>2 DEF ContainerVanishes, records
  <2>3. ASSUME NEW s \in SessionIds, CreatedLate(s) \/ EngineForgets(s)
        PROVE  CallsAgreeWithRecords'
    <3>1. /\ s \in abandoned /\ UNCHANGED <<sessions, reservations, calls, burned>>
          /\ container[s] = "none" /\ container'[s] \in {"none", "stopped"}
          /\ \A u \in SessionIds \ {s} : container'[u] = container[u]
                                        /\ (u \in abandoned' <=> u \in abandoned)
          /\ container'[s] = "none" \/ s \in abandoned'
      BY <2>3 DEF CreatedLate, EngineForgets, records
    <3>2. \A r \in Requests : calls[r].id = s => calls[r].op = "create"
      BY <3>1 DEF AbandonedNeverBegan
    <3> QED
      BY <3>1, <3>2 DEF Observers
  <2>4. ASSUME NEW s \in SessionIds, NEW c \in Credentials, Expire(c) \/ RelayCloses(s, c)
        PROVE  CallsAgreeWithRecords'
    BY <2>4 DEF Expire, RelayCloses, records
  <2>5. ASSUME NEW c \in Credentials, Expire(c)
        PROVE  CallsAgreeWithRecords'
    BY <2>5 DEF Expire, records
  <2> QED
    BY <1>9, <2>1, <2>2, <2>3, <2>4, <2>5 DEF Environment
<1>10. CASE UNCHANGED vars
  BY <1>10 DEF vars, records
<1>11. ASSUME NEW r \in Requests, CutOff(r)
       PROVE  CallsAgreeWithRecords'
  <2>1. CallsTyped
    BY DEF CallsTyped
  <2>2. \A s \in SessionIds : container'[s] = "running" => container[s] = "running"
    BY <1>11 DEF CutOff, CreateLeaves
  <2>3. CASE calls[r].op = "create"
    BY <1>11, <2>1, <2>2, <2>3, CutOffEffect DEF CutOff, CreateLeaves, Observers, records
  <2>4. CASE calls[r].op # "create"
    <3>1. UNCHANGED abandoned
      BY <1>11, <2>4 DEF CutOff
    <3>2. \A s \in SessionIds : container[s] = "none" => container'[s] = "none"
      BY <1>11, <2>4 DEF CutOff
    <3> QED
      BY <1>11, <2>1, <2>2, <2>4, <3>1, <3>2, CutOffEffect DEF Observers, records
  <2> QED
    BY <2>3, <2>4
<1> QED
  BY <1>1, <1>2, <1>3, <1>4, <1>5, <1>6, <1>7, <1>8, <1>9, <1>10, <1>11 DEF Next, Start

\* No step drops the last record of a container that still exists.
LEMMA ContainerStep ==
    ASSUME IInv, [Next]_vars
    PROVE  NoOrphanContainer'
<1> USE DEF IInv, TypeOK, NoOrphanContainer, Present
<1>1. ASSUME NEW r \in Requests, Start(r)
      PROVE  NoOrphanContainer'
  BY <1>1 DEF Start, CreateStart, ObserveStart, IssueStart, ExchangeStart,
              AuthorizeStart, BurnStart, records
<1>2. ASSUME NEW r \in Requests, RuntimeAnswers(r)
      PROVE  NoOrphanContainer'
  BY <1>2 DEF RuntimeAnswers, CreateAnswers, CreateLeaves, InspectAnswers, TabAnswers,
              DestroyAnswers, records, CallsAgreeWithRecords
<1>3. ASSUME NEW r \in Requests, Resume(r)
      PROVE  NoOrphanContainer'
  BY <1>3 DEF Resume, CreateResume, CreateFails, ResumeRuntimeLost, ResumeRefused,
         GetResume, TabResume, TabReturns, IssueResume, ExchangeResume,
         AuthorizeResume, BurnResume, BurnFails, records, CallsAgreeWithRecords
<1>4. CASE Environment
  BY <1>4 DEF Environment, ContainerStops, ContainerVanishes, CreatedLate,
         EngineForgets, Expire, RelayCloses, records
<1>5. CASE UNCHANGED vars
  BY <1>5 DEF vars, records
<1>6. ASSUME NEW r \in Requests, CutOff(r)
      PROVE  NoOrphanContainer'
  BY <1>6 DEF CutOff, CreateLeaves, records, CallsAgreeWithRecords
<1> QED
  BY <1>1, <1>2, <1>3, <1>4, <1>5, <1>6 DEF Next

\* A creation that the service gives up was alone on its session, and its id is not
\* drawn again while anything may come of it.
LEMMA AbandonedStep ==
    ASSUME IInv, [Next]_vars
    PROVE  AbandonedNeverBegan'
<1> USE NoneAssumption DEF IInv, TypeOK, AbandonedNeverBegan
<1>2. ASSUME NEW r \in Requests, Start(r)
      PROVE  AbandonedNeverBegan'
  <2>1. ASSUME NEW op, NEW s \in SessionIds, NEW c, Begin(r, op, s, c), s \notin abandoned,
               \A u \in SessionIds \ {s} : sessions'[u] = sessions[u], UNCHANGED abandoned
        PROVE  AbandonedNeverBegan'
    BY <2>1 DEF Begin
  <2>2. CASE \E t \in Tenants, s \in SessionIds, c \in Credentials : CreateStart(r, t, s, c)
    BY <2>1, <2>2 DEF CreateStart, FreshId
  <2>3. CASE \E op \in {"get", "tab"}, s \in SessionIds : ObserveStart(r, op, s)
    BY <2>1, <2>3 DEF ObserveStart, records
  <2>4. CASE \E s \in SessionIds, c \in Credentials : IssueStart(r, s, c)
    BY <2>1, <2>4 DEF IssueStart, records
  <2>5. CASE \E k, n \in Credentials : ExchangeStart(r, k, n)
    <3>1. PICK k \in Credentials, n \in Credentials : ExchangeStart(r, k, n)
      BY <2>5
    <3>2. CASE UNCHANGED calls
      BY <3>1, <3>2 DEF ExchangeStart, records
    <3>3. CASE sessions[pairingTickets[k]] = "active"
                 /\ Begin(r, "exchange", pairingTickets[k], n)
      BY <2>1, <3>1, <3>3 DEF ExchangeStart, records
    <3> QED
      BY <3>1, <3>2, <3>3 DEF ExchangeStart
  <2>6. CASE \E k \in Credentials : AuthorizeStart(r, k)
    <3>1. PICK k \in Credentials : AuthorizeStart(r, k)
      BY <2>6
    <3>2. CASE UNCHANGED calls
      BY <3>1, <3>2 DEF AuthorizeStart, records
    <3>3. CASE sessions[signalingTokens[k]] = "active"
                 /\ Begin(r, "authorize", signalingTokens[k], k)
      BY <2>1, <3>1, <3>3 DEF AuthorizeStart, records
    <3> QED
      BY <3>1, <3>2, <3>3 DEF AuthorizeStart
  <2>7. CASE \E s \in SessionIds : BurnStart(r, s)
    BY <2>1, <2>7 DEF BurnStart
  <2> QED
    BY <1>2, <2>2, <2>3, <2>4, <2>5, <2>6, <2>7 DEF Start
<1>3. ASSUME NEW r \in Requests, NEW a \in Answers, Answer(r, a), UNCHANGED sessions,
             calls[r].answer = "none",
             \/ UNCHANGED abandoned
             \/ /\ calls[r].op = "create" /\ a \in {"error", "cut"}
                /\ abandoned' = abandoned \union {calls[r].id}
      PROVE  AbandonedNeverBegan'
  <2>1. \A q \in Requests : calls'[q].op = calls[q].op /\ calls'[q].id = calls[q].id
    BY <1>3 DEF Answer, Calls
  <2>2. calls'[r].answer = a /\ \A q \in Requests \ {r} : calls'[q] = calls[q]
    BY <1>3 DEF Answer, Calls
  <2>3. calls[r].id \notin abandoned
    BY <1>3
  <2> QED
    BY <1>3, <2>1, <2>2, <2>3 DEF CallsAgreeWithRecords
<1>4. ASSUME NEW r \in Requests, RuntimeAnswers(r)
      PROVE  AbandonedNeverBegan'
  BY <1>3, <1>4 DEF RuntimeAnswers, CreateAnswers, CreateLeaves, InspectAnswers,
                    TabAnswers, DestroyAnswers, records, Answers
<1>5. ASSUME NEW r \in Requests, CutOff(r)
      PROVE  AbandonedNeverBegan'
  <2>1. CASE calls[r].op \in Observers
    <3>1. CallsTyped
      BY DEF CallsTyped
    <3> QED
      BY <1>5, <2>1, <3>1, CutOffEffect DEF CutOff, Observers, records
  <2>2. CASE calls[r].op \notin Observers
    BY <1>3, <1>5, <2>2 DEF CutOff, CreateLeaves, records, Answers
  <2> QED
    BY <2>1, <2>2
<1>6. ASSUME NEW r \in Requests, Resume(r)
      PROVE  AbandonedNeverBegan'
  <2>1. UNCHANGED abandoned
    BY <1>6 DEF Resume, CreateResume, CreateFails, ResumeRuntimeLost, ResumeRefused,
         GetResume, TabResume, TabReturns, IssueResume, ExchangeResume,
         AuthorizeResume, BurnResume, BurnFails
  <2>2. CASE TabResume(r)
    BY <2>2 DEF TabResume, records, Calls
  <2>3. CASE ~TabResume(r)
    <3>1. Return(r) /\ calls[r].op # "none"
      BY <1>6, <2>3 DEF Resume, CreateResume, CreateFails, ResumeRuntimeLost,
           ResumeRefused, GetResume, TabReturns, IssueResume, ExchangeResume,
           AuthorizeResume, BurnResume, BurnFails, Observers
    <3>2. \A q \in Requests : calls'[q] \in {calls[q], Idle}
      BY <3>1 DEF Return
    <3>3. \A s \in abandoned : sessions'[s] = sessions[s]
      <4>1. CASE calls[r].id \notin abandoned
        BY <1>6, <4>1 DEF Resume, CreateResume, CreateFails, ResumeRuntimeLost,
           ResumeRefused, GetResume, TabResume, TabReturns, IssueResume, ExchangeResume,
           AuthorizeResume, BurnResume, BurnFails, records
      <4>2. CASE calls[r].id \in abandoned
        <5>1. CreateFails(r)
          BY <1>6, <2>3, <4>2 DEF Resume, CreateResume, CreateFails, ResumeRuntimeLost,
             ResumeRefused, GetResume, TabReturns, IssueResume, ExchangeResume,
             AuthorizeResume, BurnResume, BurnFails, Observers
        <5> QED
          BY <5>1 DEF CreateFails
      <4> QED
        BY <4>1, <4>2
    <3> QED
      BY <2>1, <3>2, <3>3 DEF Idle
  <2> QED
    BY <2>2, <2>3
<1>7. CASE Environment
  BY <1>7 DEF Environment, ContainerStops, ContainerVanishes, CreatedLate,
              EngineForgets, Expire, RelayCloses, records
<1>8. CASE UNCHANGED vars
  BY <1>8 DEF vars, records
<1> QED
  BY <1>2, <1>4, <1>5, <1>6, <1>7, <1>8 DEF Next

LEMMA IInvHolds == Spec => []IInv
<1>1. IInv /\ [Next]_vars => IInv'
  BY TypeStep, CredentialStep, RelayStep, BurningStep, CallsStep, ContainerStep,
     AbandonedStep DEF IInv
<1> QED
  BY InitIInv, <1>1, PTL DEF Spec

\* Every ticket and token that would be accepted can be revoked through its
\* session, which is active.
THEOREM CredentialsAreRevocable == Spec => []CredentialsRevocable
<1>1. IInv => CredentialsRevocable
  BY DEF IInv
<1> QED
  BY <1>1, IInvHolds, PTL

\* Relays exist only for active sessions.
THEOREM RelaysEndWithSession == Spec => []RelaysOnlyWhileActive
<1>1. IInv => RelaysOnlyWhileActive
  BY DEF IInv
<1> QED
  BY <1>1, IInvHolds, PTL

\* A session that is burning has a burn in progress.
THEOREM BurningIsInProgress == Spec => []BurningHasBurn
<1>1. IInv => BurningHasBurn
  BY DEF IInv
<1> QED
  BY <1>1, IInvHolds, PTL

\* A container that exists can be burned through the record of its session, or its
\* session is still being created, or it is what a creation that was rejected or
\* cut off has left: nothing else makes the service forget one.
THEOREM ContainersAreOwned == Spec => []NoOrphanContainer
<1>1. IInv => NoOrphanContainer
  BY DEF IInv
<1> QED
  BY <1>1, IInvHolds, PTL

\* A phase changes only by the creation, the runtime loss or the burn that the
\* change belongs to: an inspection that comes back to a session that has failed or
\* was burned meanwhile changes nothing.
THEOREM PhasesFollowTheirCalls == Spec => PhasesFollowCalls
<1> DEFINE Explained(s) ==
        \/ sessions[s] = "absent" /\ sessions'[s] = "active" /\ s \in reservations
        \/ sessions[s] = "active" /\ sessions'[s] = "failed" /\ container[s] # "running"
        \/ sessions'[s] # "active" /\ BurnsOf(s)' # BurnsOf(s)
<1>1. ASSUME IInv, [Next]_vars, NEW s \in SessionIds, sessions'[s] # sessions[s]
      PROVE  Explained(s)
  <2> USE DEF IInv
  <2>0. ASSUME NEW r \in Requests,
               ~(calls[r].op = "burn" /\ calls[r].id = s
                   <=> calls'[r].op = "burn" /\ calls'[r].id = s)
        PROVE  BurnsOf(s)' # BurnsOf(s)
    <3>1. /\ r \in BurnsOf(s) <=> calls[r].op = "burn" /\ calls[r].id = s
          /\ r \in BurnsOf(s)' <=> calls'[r].op = "burn" /\ calls'[r].id = s
      BY DEF BurnsOf
    <3> QED
      BY <2>0, <3>1
  <2>1. ASSUME NEW r \in Requests, BurnStart(r, s)
        PROVE  sessions'[s] # "active" /\ BurnsOf(s)' # BurnsOf(s)
    <3>1. /\ calls[r].op # "burn"
          /\ calls'[r].op = "burn" /\ calls'[r].id = s
      BY <1>1, <2>1 DEF BurnStart, Begin, Idle, TypeOK
    <3> QED
      BY <1>1, <2>0, <2>1, <3>1 DEF BurnStart, TypeOK
  <2>2. ASSUME NEW r \in Requests, BurnResume(r) \/ BurnFails(r)
        PROVE  sessions'[s] # "active" /\ BurnsOf(s)' # BurnsOf(s)
    <3>1. calls[r].op = "burn" /\ calls[r].id = s
      BY <1>1, <2>2 DEF BurnResume, BurnFails, TypeOK
    <3>2. calls'[r].op # "burn"
      BY <1>1, <2>2, <3>1 DEF BurnResume, BurnFails, Return, Idle, TypeOK
    <3> QED
      BY <1>1, <2>0, <2>2, <3>1, <3>2 DEF BurnResume, BurnFails, TypeOK
  <2>3. ASSUME NEW r \in Requests, CreateResume(r)
        PROVE  Explained(s)
    BY <1>1, <2>3 DEF CreateResume, TypeOK, CallsAgreeWithRecords
  <2>4. ASSUME NEW r \in Requests, ResumeRuntimeLost(r)
        PROVE  Explained(s)
    BY <1>1, <2>4 DEF ResumeRuntimeLost, StillCurrent, TypeOK, CallsAgreeWithRecords
  <2>5. ASSUME NEW r \in Requests, Start(r), NEW u \in SessionIds, BurnStart(r, u)
        PROVE  Explained(s)
    <3>1. u = s
      BY <1>1, <2>5 DEF BurnStart, TypeOK
    <3> QED
      BY <2>1, <2>5, <3>1
  <2>6. ASSUME NEW r \in Requests, Start(r), ~\E u \in SessionIds : BurnStart(r, u)
        PROVE  UNCHANGED sessions
    BY <2>6 DEF Start, CreateStart, ObserveStart, IssueStart, ExchangeStart,
                AuthorizeStart, records
  <2>7. ASSUME NEW r \in Requests, RuntimeAnswers(r) \/ CutOff(r)
        PROVE  UNCHANGED sessions
    BY <2>7 DEF RuntimeAnswers, CutOff, CreateAnswers, InspectAnswers, TabAnswers,
                DestroyAnswers, records
  <2>8. ASSUME NEW r \in Requests, Resume(r)
        PROVE  Explained(s) \/ UNCHANGED sessions
    BY <2>2, <2>3, <2>4, <2>8 DEF Resume, CreateFails, ResumeRefused, GetResume,
         TabResume, TabReturns, IssueResume, ExchangeResume, AuthorizeResume, records
  <2>9. ASSUME Environment \/ UNCHANGED vars
        PROVE  UNCHANGED sessions
    BY <2>9 DEF Environment, ContainerStops, ContainerVanishes, CreatedLate,
                EngineForgets, Expire, RelayCloses, records, vars
  <2> HIDE DEF Explained
  <2> QED
    BY <1>1, <2>5, <2>6, <2>7, <2>8, <2>9 DEF Next
<1>2. IInv /\ [Next]_vars => [\A s \in SessionIds : sessions'[s] # sessions[s] => Explained(s)]_vars
  BY <1>1
<1> QED
  BY <1>2, IInvHolds, PTL DEF Spec, PhasesFollowCalls
-----------------------------------------------------------------------------
(* The quota.  Only create adds to what is held, by one session, after it  *)
(* has counted the records and the reservations.                           *)

\* What the constructor of the service has accepted, field by field.
LEMMA QuotaFacts ==
    /\ MaximumSessionsPerTenant \in Nat /\ MaximumSessionsPerTenant > 0
    /\ \A n \in {Quota.memoryMiB, Quota.cpuShares, Quota.pids,
                 HostCapacity.maximumSessions, HostCapacity.memoryMiB,
                 HostCapacity.cpuShares, HostCapacity.pids} : n \in Nat /\ n > 0
    /\ Quota.memoryMiB <= HostCapacity.memoryMiB
    /\ Quota.cpuShares <= HostCapacity.cpuShares
    /\ Quota.pids <= HostCapacity.pids
BY QuotaAssumption
   DEF OptionsAreAccepted, Positive, validateQuota, validateHostCapacity, fitsWithin

LEMMA Monotone ==
    ASSUME NEW m \in Nat, NEW n \in Nat, m <= n, NEW q \in Nat
    PROVE  m * q <= n * q
<1>1. PICK d \in Nat : n = m + d
  BY n - m \in Nat, n = m + (n - m)
<1>2. n * q = m * q + d * q
  BY <1>1
<1>3. d * q \in Nat /\ m * q \in Nat
  OBVIOUS
<1> QED
  BY <1>2, <1>3

LEMMA FewerFit ==
    ASSUME NEW m \in Nat, NEW n \in Nat, m <= n, FitsHost(n)
    PROVE  FitsHost(m)
<1>1. /\ m * Quota.memoryMiB <= n * Quota.memoryMiB
      /\ m * Quota.cpuShares <= n * Quota.cpuShares
      /\ m * Quota.pids <= n * Quota.pids
  BY Monotone, QuotaFacts
<1> QED
  BY <1>1, QuotaFacts DEF FitsHost

LEMMA SmallerSet ==
    ASSUME NEW S \in SUBSET SessionIds, NEW T \in SUBSET SessionIds, S \subseteq T
    PROVE  /\ Cardinality(S) \in Nat /\ Cardinality(T) \in Nat
           /\ Cardinality(S) <= Cardinality(T)
BY FiniteAssumption, FS_Subset, FS_CardinalityType

\* A session more than a part of two sets is at most one more than both sizes.
LEMMA OneMore ==
    ASSUME NEW S \in SUBSET SessionIds, NEW T \in SUBSET SessionIds,
           NEW U \in SUBSET SessionIds, NEW s \in SessionIds,
           U \subseteq (S \union T) \union {s}
    PROVE  /\ Cardinality(U) \in Nat
           /\ Cardinality(S) \in Nat /\ Cardinality(T) \in Nat
           /\ Cardinality(U) <= Cardinality(S) + Cardinality(T) + 1
<1>1. IsFiniteSet(S) /\ IsFiniteSet(T) /\ IsFiniteSet(S \union T)
  BY FiniteAssumption, FS_Subset, FS_Union
<1>2. /\ Cardinality(S \union T) = Cardinality(S) + Cardinality(T) - Cardinality(S \cap T)
      /\ Cardinality(S \cap T) \in Nat
  BY <1>1, FS_Union, FS_Intersection, FS_CardinalityType
<1>3. /\ IsFiniteSet((S \union T) \union {s})
      /\ Cardinality((S \union T) \union {s}) <= Cardinality(S \union T) + 1
  <2> DEFINE V == S \union T
  <2>1. IsFiniteSet(V) /\ Cardinality(V) \in Nat
    BY <1>1, FS_CardinalityType
  <2> HIDE DEF V
  <2>2. /\ IsFiniteSet(V \union {s})
        /\ Cardinality(V \union {s}) = IF s \in V THEN Cardinality(V) ELSE Cardinality(V) + 1
    BY <2>1, FS_AddElement
  <2>3. Cardinality(V \union {s}) <= Cardinality(V) + 1
    BY <2>1, <2>2
  <2> QED
    BY <2>2, <2>3 DEF V
<1>4. Cardinality(U) <= Cardinality((S \union T) \union {s})
  BY <1>3, FS_Subset
<1> QED
  BY <1>1, <1>2, <1>3, <1>4, FS_CardinalityType, FS_Subset

LEMMA QuotaStep ==
    ASSUME IInv, WithinQuota, [Next]_vars
    PROVE  WithinQuota'
<1>t. TypeOK /\ TypeOK'
  BY TypeStep DEF IInv
<1>0. Held \subseteq SessionIds /\ Held' \subseteq SessionIds
  BY <1>t DEF Held, Present, TypeOK
<1> USE DEF IInv, TypeOK
<1>1. ASSUME NEW r \in Requests, NEW t \in Tenants, NEW s \in SessionIds,
             NEW c \in Credentials, CreateStart(r, t, s, c)
      PROVE  WithinQuota'
  <2>1. /\ Held' \subseteq (Present \union reservations) \union {s}
        /\ Present \subseteq SessionIds
    BY <1>1 DEF CreateStart, Held, Present
  <2>2. /\ Cardinality(Held') \in Nat
        /\ Allocated \in Nat
        /\ Cardinality(Held') <= Allocated + 1
    BY <1>0, <2>1, OneMore DEF Allocated
  <2>3. FitsHost(Cardinality(Held'))
    <3>1. FitsHost(Allocated + 1)
      BY <1>1 DEF CreateStart, MayReserve, FitsHost
    <3> QED
      BY <2>2, <3>1, FewerFit
  <2>4. ASSUME NEW u \in Tenants
        PROVE  Cardinality(OfTenant(Held, u)') <= MaximumSessionsPerTenant
    <3>1. CASE u = t
      <4>1. /\ OfTenant(Held, t)' \subseteq
                   (OfTenant(Present, t) \union OfTenant(reservations, t)) \union {s}
            /\ OfTenant(Held, t)' \subseteq SessionIds
            /\ OfTenant(Present, t) \subseteq SessionIds
            /\ OfTenant(reservations, t) \subseteq SessionIds
        BY <1>0, <1>1, <2>1 DEF CreateStart, OfTenant
      <4>2. Cardinality(OfTenant(Present, t)) + Cardinality(OfTenant(reservations, t))
                < MaximumSessionsPerTenant
        BY <1>1 DEF CreateStart, MayReserve
      <4> QED
        BY <3>1, <4>1, <4>2, OneMore, QuotaFacts
    <3>2. CASE u # t
      <4>1. /\ OfTenant(Held, u)' \subseteq OfTenant(Held, u)
            /\ OfTenant(Held, u) \subseteq SessionIds
        BY <1>0, <1>1, <3>2 DEF CreateStart, OfTenant, Held, Present
      <4>2. Cardinality(OfTenant(Held, u)) <= MaximumSessionsPerTenant
        BY DEF WithinQuota
      <4> QED
        BY <4>1, <4>2, SmallerSet, QuotaFacts
    <3> QED
      BY <3>1, <3>2
  <2> QED
    BY <2>3, <2>4 DEF WithinQuota, FitsHost
<1>2. ASSUME Held' \subseteq Held, UNCHANGED tenantOf
      PROVE  WithinQuota'
  <2>1. FitsHost(Cardinality(Held'))
    BY <1>0, <1>2, SmallerSet, FewerFit DEF WithinQuota
  <2>2. ASSUME NEW u \in Tenants
        PROVE  Cardinality(OfTenant(Held, u)') <= MaximumSessionsPerTenant
    <3>1. /\ OfTenant(Held, u)' \subseteq OfTenant(Held, u)
          /\ OfTenant(Held, u) \subseteq SessionIds
      BY <1>0, <1>2 DEF OfTenant
    <3>2. Cardinality(OfTenant(Held, u)) <= MaximumSessionsPerTenant
      BY DEF WithinQuota
    <3> QED
      BY <3>1, <3>2, SmallerSet, QuotaFacts
  <2> QED
    BY <2>1, <2>2 DEF WithinQuota, FitsHost
<1>3. ASSUME NEW r \in Requests, Start(r),
             ~\E t \in Tenants, s \in SessionIds, c \in Credentials : CreateStart(r, t, s, c)
      PROVE  Held' \subseteq Held /\ UNCHANGED tenantOf
  BY <1>3 DEF Start, ObserveStart, IssueStart, ExchangeStart, AuthorizeStart,
              BurnStart, records, Held, Present
<1>4. ASSUME NEW r \in Requests, Resume(r)
      PROVE  Held' \subseteq Held /\ UNCHANGED tenantOf
  <2>1. CASE BurnFails(r)
    BY <2>1 DEF BurnFails, CallsAgreeWithRecords, Held, Present
  <2>2. CASE CreateResume(r)
    BY <2>2 DEF CreateResume, CallsAgreeWithRecords, Held, Present
  <2> QED
    BY <1>4, <2>1, <2>2 DEF Resume, CreateFails, ResumeRuntimeLost, ResumeRefused,
         GetResume, TabResume, TabReturns, IssueResume, ExchangeResume,
         AuthorizeResume, BurnResume, StillCurrent, records, Held, Present
<1>5. ASSUME UNCHANGED <<records, burned>>
      PROVE  Held' \subseteq Held /\ UNCHANGED tenantOf
  BY <1>5 DEF records, Held, Present
<1> QED
  BY <1>1, <1>2, <1>3, <1>4, <1>5
     DEF Next, Start, RuntimeAnswers, CreateAnswers, InspectAnswers, TabAnswers,
         DestroyAnswers, Environment, ContainerStops, ContainerVanishes, CreatedLate,
         EngineForgets, Expire, RelayCloses, CutOff, vars

\* Concurrent creations never admit more sessions than the tenant's limit and
\* the host's capacity allow, for any quota and any number of callers.
THEOREM QuotaIsKept == Spec => []WithinQuota
<1>1. Init => WithinQuota
  <2>1. ASSUME Init
        PROVE  /\ Held = {}
               /\ \A t \in Tenants : OfTenant(Held, t) = {}
    BY <2>1 DEF Init, Held, Present, OfTenant
  <2>2. Cardinality({}) = 0
    BY FS_EmptySet
  <2>3. FitsHost(0)
    BY QuotaFacts DEF FitsHost
  <2> QED
    BY <2>1, <2>2, <2>3, QuotaFacts DEF WithinQuota
<1>2. IInv /\ WithinQuota /\ [Next]_vars => WithinQuota'
  BY QuotaStep
<1> QED
  BY <1>1, <1>2, IInvHolds, PTL DEF Spec

-----------------------------------------------------------------------------
(* SessionService implements SessionAuthority                               *)

\* What the refinement needs beyond IInv: the hashes a session lists are in the
\* maps under that session, only active sessions list any, and the credential
\* that a call may mint is in no map and is carried by no other call.
Minters == {"create", "issue", "exchange"}

HashesListed ==
    \A s \in SessionIds, c \in Credentials :
        /\ ticketHash[s] = c => pairingTickets[c] = s
        /\ c \in tokenHashes[s] => signalingTokens[c] = s

CredentialedActive == \A s \in credentialed : sessions[s] = "active"

MintsFresh ==
    \A r \in Requests : calls[r].op \in Minters =>
        /\ pairingTickets[calls[r].cred] = None
        /\ signalingTokens[calls[r].cred] = None
        /\ \A q \in Requests \ {r} :
              calls[q].op \in Minters => calls[q].cred # calls[r].cred

RInv == IInv /\ HashesListed /\ CredentialedActive /\ MintsFresh

LEMMA InitRInv == Init => RInv
BY InitIInv, NoneAssumption
   DEF Init, RInv, HashesListed, CredentialedActive, MintsFresh, Minters, Idle

\* A session that is not active lists no credential.
LEMMA InactiveListsNothing ==
    ASSUME RInv, NEW s \in SessionIds, sessions[s] # "active", NEW c \in Credentials
    PROVE  ticketHash[s] # c /\ c \notin tokenHashes[s]
BY DEF RInv, IInv, HashesListed, CredentialsRevocable

LEMMA HashesStep ==
    ASSUME RInv, [Next]_vars
    PROVE  HashesListed'
<1> USE NoneAssumption DEF RInv, IInv, TypeOK, HashesListed
<1>1. ASSUME NEW r \in Requests, NEW k \in Credentials, NEW n \in Credentials,
             ExchangeStart(r, k, n)
      PROVE  HashesListed'
  BY <1>1 DEF ExchangeStart
<1>2. ASSUME NEW r \in Requests, NEW k \in Credentials, AuthorizeStart(r, k)
      PROVE  HashesListed'
  BY <1>2 DEF AuthorizeStart
<1>3. ASSUME NEW r \in Requests, NEW s \in SessionIds, BurnStart(r, s)
      PROVE  HashesListed'
  BY <1>3 DEF BurnStart, revokeCredentials, Forget
<1>4. ASSUME NEW r \in Requests, CreateResume(r)
      PROVE  HashesListed'
  BY <1>4 DEF CreateResume, rotateSignalingTicket, Bearers, MintsFresh, Minters
<1>5. ASSUME NEW r \in Requests, ResumeRuntimeLost(r)
      PROVE  HashesListed'
  BY <1>5 DEF ResumeRuntimeLost, revokeCredentials, Forget, Observers
<1>6. ASSUME NEW r \in Requests, IssueResume(r)
      PROVE  HashesListed'
  BY <1>6 DEF IssueResume, rotateSignalingTicket, Bearers, MintsFresh, Minters
<1>7. ASSUME NEW r \in Requests, ExchangeResume(r)
      PROVE  HashesListed'
  BY <1>7 DEF ExchangeResume, Bearers, MintsFresh, Minters
<1>8. ASSUME UNCHANGED <<pairingTickets, signalingTokens, ticketHash, tokenHashes>>
      PROVE  HashesListed'
  BY <1>8
<1> QED
  BY <1>1, <1>2, <1>3, <1>4, <1>5, <1>6, <1>7, <1>8
     DEF Next, Start, RuntimeAnswers, Resume, Environment, CreateStart, ObserveStart,
         IssueStart, CreateAnswers, InspectAnswers, TabAnswers, DestroyAnswers,
         CreateFails, ResumeRefused, GetResume, TabResume, TabReturns,
         AuthorizeResume, BurnResume, BurnFails, ContainerStops, ContainerVanishes, CreatedLate,
         EngineForgets, Expire,
         RelayCloses, CutOff, vars, credentials

LEMMA CredentialedStep ==
    ASSUME RInv, [Next]_vars
    PROVE  CredentialedActive'
<1> USE DEF RInv, IInv, TypeOK, CredentialedActive
<1>1. ASSUME NEW r \in Requests, Start(r)
      PROVE  CredentialedActive'
  BY <1>1 DEF Start, CreateStart, ObserveStart, IssueStart, ExchangeStart,
              AuthorizeStart, BurnStart, revokeCredentials, records, credentials
<1>2. ASSUME NEW r \in Requests, Resume(r)
      PROVE  CredentialedActive'
  BY <1>2 DEF Resume, CreateResume, CreateFails, ResumeRuntimeLost, ResumeRefused,
         GetResume, TabResume, TabReturns, IssueResume, ExchangeResume,
         AuthorizeResume, BurnResume, BurnFails, revokeCredentials, records,
         credentials, CallsAgreeWithRecords, Observers
<1>3. ASSUME UNCHANGED <<sessions, credentialed>>
      PROVE  CredentialedActive'
  BY <1>3
<1> QED
  BY <1>1, <1>2, <1>3 DEF Next, RuntimeAnswers, CreateAnswers, InspectAnswers,
     TabAnswers, DestroyAnswers, Environment, ContainerStops, ContainerVanishes, CreatedLate,
         EngineForgets, Expire, RelayCloses,
     CutOff, vars, records, credentials

\* A call that begins draws a credential nobody has; the others keep theirs.
LEMMA FreshStep ==
    ASSUME RInv, [Next]_vars
    PROVE  MintsFresh'
<1> USE NoneAssumption DEF MintsFresh, Minters
<1>t. TypeOK /\ CredentialsRevocable /\ HashesListed /\ MintsFresh
  BY DEF RInv, IInv
<1> DEFINE KeepsCalls == \A q \in Requests : calls'[q].op \in Minters =>
                calls[q].op = calls'[q].op /\ calls[q].cred = calls'[q].cred
           FewerOutstanding == \A c \in Credentials :
                /\ pairingTickets'[c] = None \/ pairingTickets'[c] = pairingTickets[c]
                /\ signalingTokens'[c] = None \/ signalingTokens'[c] = signalingTokens[c]
<1>1. ASSUME KeepsCalls, FewerOutstanding
      PROVE  MintsFresh'
  BY <1>t, <1>1 DEF TypeOK, Bearers
<1>2. ASSUME NEW r \in Requests, NEW op \in Minters, NEW s \in SessionIds,
             NEW n \in Credentials, FreshCredential(n), FewerOutstanding,
             Begin(r, op, s, n)
      PROVE  MintsFresh'
  BY <1>t, <1>2 DEF Begin, FreshCredential, TypeOK, Bearers
<1>3. ASSUME NEW r \in Requests, NEW t \in Tenants, NEW s \in SessionIds,
             NEW c \in Credentials, CreateStart(r, t, s, c)
      PROVE  MintsFresh'
  <2>1. FewerOutstanding /\ FreshCredential(c) /\ Begin(r, "create", s, c)
    BY <1>3 DEF CreateStart, credentials
  <2> QED
    BY <1>2, <2>1
<1>4. ASSUME NEW r \in Requests, NEW s \in SessionIds, NEW c \in Credentials,
             IssueStart(r, s, c)
      PROVE  MintsFresh'
  <2>1. FewerOutstanding /\ FreshCredential(c) /\ Begin(r, "issue", s, c)
    BY <1>4 DEF IssueStart, credentials
  <2> QED
    BY <1>2, <2>1
<1>5. ASSUME NEW r \in Requests, NEW k \in Credentials, NEW n \in Credentials,
             ExchangeStart(r, k, n)
      PROVE  MintsFresh'
  <2>1. FewerOutstanding /\ FreshCredential(n) /\ pairingTickets[k] \in SessionIds
    BY <1>t, <1>5 DEF ExchangeStart, TypeOK
  <2>2. CASE UNCHANGED calls
    BY <1>1, <2>1, <2>2
  <2>3. CASE Begin(r, "exchange", pairingTickets[k], n)
    BY <1>2, <2>1, <2>3
  <2> QED
    BY <1>5, <2>2, <2>3 DEF ExchangeStart
<1>6. ASSUME NEW r \in Requests,
             \/ \E op \in {"get", "tab"}, s \in SessionIds : ObserveStart(r, op, s)
             \/ \E k \in Credentials : AuthorizeStart(r, k)
             \/ \E s \in SessionIds : BurnStart(r, s)
      PROVE  MintsFresh'
  <2>1. KeepsCalls
    BY <1>t, <1>6 DEF ObserveStart, AuthorizeStart, BurnStart, Begin, TypeOK, Calls
  <2>2. FewerOutstanding
    BY <1>t, <1>6 DEF ObserveStart, AuthorizeStart, BurnStart, revokeCredentials,
                      Forget, TypeOK, credentials
  <2> QED
    BY <1>1, <2>1, <2>2
<1>7. ASSUME NEW r \in Requests, RuntimeAnswers(r)
      PROVE  MintsFresh'
  <2>1. PICK a \in Answers : Answer(r, a)
    BY <1>7 DEF RuntimeAnswers, CreateAnswers, CreateLeaves, InspectAnswers, TabAnswers,
                DestroyAnswers, Answers
  <2>2. KeepsCalls
    BY <1>t, <2>1 DEF Answer, TypeOK, Calls
  <2>3. FewerOutstanding
    BY <1>7 DEF RuntimeAnswers, CreateAnswers, CreateLeaves, InspectAnswers, TabAnswers,
                DestroyAnswers, credentials
  <2> QED
    BY <1>1, <2>2, <2>3
<1>8. ASSUME NEW r \in Requests, Return(r), FewerOutstanding
      PROVE  MintsFresh'
  <2>1. KeepsCalls
    BY <1>t, <1>8 DEF Return, Idle, TypeOK
  <2> QED
    BY <1>1, <1>8, <2>1
<1>9. ASSUME NEW r \in Requests, calls[r].op \in Minters, Return(r),
             \A c \in Credentials \ {calls[r].cred} :
                /\ pairingTickets'[c] = None \/ pairingTickets'[c] = pairingTickets[c]
                /\ signalingTokens'[c] = None \/ signalingTokens'[c] = signalingTokens[c]
      PROVE  MintsFresh'
  <2>1. \A q \in Requests : calls'[q].op \in Minters => q # r /\ calls'[q] = calls[q]
    BY <1>t, <1>9 DEF Return, Idle, TypeOK
  <2> QED
    BY <1>t, <1>9, <2>1 DEF TypeOK, Bearers
<1>10. ASSUME NEW r \in Requests, Resume(r)
       PROVE  MintsFresh'
  <2>1. CASE CreateResume(r)
    BY <1>9, <2>1 DEF CreateResume, rotateSignalingTicket
  <2>2. CASE IssueResume(r)
    BY <1>8, <1>9, <2>2 DEF IssueResume, rotateSignalingTicket
  <2>3. CASE ExchangeResume(r)
    <3>1. \A c \in Credentials \ {calls[r].cred} :
                /\ pairingTickets'[c] = pairingTickets[c]
                /\ signalingTokens'[c] = signalingTokens[c]
      BY <1>t, <2>3 DEF ExchangeResume, TypeOK
    <3> QED
      BY <1>9, <2>3, <3>1 DEF ExchangeResume
  <2>4. CASE ResumeRuntimeLost(r)
    BY <1>8, <2>4 DEF ResumeRuntimeLost, revokeCredentials, Forget
  <2>5. CASE TabResume(r)
    <3>1. KeepsCalls
      BY <1>t, <2>5 DEF TabResume, TypeOK, Calls
    <3> QED
      BY <1>1, <2>5, <3>1 DEF TabResume, credentials
  <2>6. CASE \/ CreateFails(r) \/ ResumeRefused(r) \/ GetResume(r) \/ TabReturns(r)
             \/ AuthorizeResume(r) \/ BurnResume(r) \/ BurnFails(r)
    BY <1>8, <2>6 DEF CreateFails, ResumeRefused, GetResume, TabReturns,
                      AuthorizeResume, BurnResume, BurnFails, credentials
  <2> QED
    BY <1>10, <2>1, <2>2, <2>3, <2>4, <2>5, <2>6 DEF Resume
<1>11. CASE Environment
  BY <1>1, <1>11 DEF Environment, ContainerStops, ContainerVanishes, CreatedLate,
         EngineForgets, Expire, RelayCloses, credentials
<1>12. CASE UNCHANGED vars
  BY <1>1, <1>12 DEF vars, credentials
<1>13. ASSUME NEW r \in Requests, CutOff(r)
       PROVE  MintsFresh'
  <2>1. CallsTyped
    BY <1>t DEF TypeOK, CallsTyped
  <2>2. KeepsCalls
    BY <1>13, <2>1, CutOffEffect
  <2>3. FewerOutstanding
    BY <1>13 DEF CutOff, credentials
  <2> QED
    BY <1>1, <2>2, <2>3
<1> QED
  BY <1>3, <1>4, <1>5, <1>6, <1>7, <1>10, <1>11, <1>12, <1>13 DEF Next, Start

LEMMA RInvHolds == Spec => []RInv
<1>1. IInv /\ [Next]_vars => IInv'
  BY TypeStep, CredentialStep, RelayStep, BurningStep, CallsStep, ContainerStep,
     AbandonedStep DEF IInv
<1>2. RInv /\ [Next]_vars => RInv'
  BY <1>1, HashesStep, CredentialedStep, FreshStep DEF RInv
<1> QED
  BY InitRInv, <1>2, PTL DEF Spec
-----------------------------------------------------------------------------
(* The simulation: every step of the service is a step of the authority or *)
(* leaves the authority's state alone.                                     *)

LEMMA ClaimsChange ==
    ASSUME TypeOK, NEW r \in Requests, NEW call, calls' = [calls EXCEPT ![r] = call]
    PROVE  claims' = [claims EXCEPT ![r] = ClaimOf(call)]
BY DEF TypeOK, claims

LEMMA ClaimsKept ==
    ASSUME TypeOK, NEW r \in Requests, NEW call, calls' = [calls EXCEPT ![r] = call],
           ClaimOf(call) = ClaimOf(calls[r])
    PROVE  claims' = claims
BY DEF TypeOK, claims

LEMMA ReturnCloses ==
    ASSUME TypeOK, NEW r \in Requests, Return(r)
    PROVE  Authority!Close(r)
<1>1. claims' = [claims EXCEPT ![r] = ClaimOf(Idle)]
  BY ClaimsChange DEF Return
<1>2. ClaimOf(Idle) = Authority!NoClaim
  BY DEF ClaimOf, Idle, Authority!NoClaim
<1> QED
  BY <1>1, <1>2 DEF Authority!Close

LEMMA OtherReturns ==
    ASSUME TypeOK, NEW r \in Requests, Return(r),
           calls[r].op # "exchange", calls[r].op # "authorize"
    PROVE  claims' = claims
BY ClaimsKept DEF Return, ClaimOf, Idle

LEMMA OtherBegins ==
    ASSUME TypeOK, NEW r \in Requests, NEW op, NEW s, NEW c, Begin(r, op, s, c),
           op # "exchange", op # "authorize"
    PROVE  claims' = claims
<1> DEFINE call == [op |-> op, id |-> s, cred |-> c, answer |-> "none"]
<1>1. calls[r] = Idle /\ calls' = [calls EXCEPT ![r] = call]
  BY DEF Begin
<1>2. ClaimOf(call) = ClaimOf(Idle)
  BY DEF ClaimOf, Idle
<1> HIDE DEF call
<1> QED
  BY <1>1, <1>2, ClaimsKept

LEMMA ClaimFacts ==
    ASSUME TypeOK, NEW r \in Requests
    PROVE  /\ calls[r].op = "exchange" =>
                claims[r].kind = "ticket" /\ claims[r].id = calls[r].id
           /\ calls[r].op = "authorize" =>
                claims[r].kind = "token" /\ claims[r].id = calls[r].id
           /\ calls[r].op \in {"exchange", "authorize"} => claims[r] # Authority!NoClaim
           /\ calls[r] = Idle => claims[r] = Authority!NoClaim
           /\ claims[r].id \in {calls[r].id, None}
BY DEF claims, ClaimOf, Authority!NoClaim, Idle

\* revokeCredentials takes exactly the session's tickets and tokens away.
LEMMA RevokeEnds ==
    ASSUME RInv, NEW s \in SessionIds, sessions[s] = "active", revokeCredentials(s)
    PROVE  /\ pairingTickets' = Authority!Without(pairingTickets, s)
           /\ signalingTokens' = Authority!Without(signalingTokens, s)
<1>1. ASSUME NEW c \in Credentials
      PROVE  /\ pairingTickets[c] = s <=> s \in credentialed /\ ticketHash[s] = c
             /\ signalingTokens[c] = s <=> s \in credentialed /\ c \in tokenHashes[s]
  <2>1. pairingTickets[c] = s => s \in credentialed /\ ticketHash[s] = c
    BY DEF RInv, IInv, CredentialsRevocable
  <2>2. signalingTokens[c] = s => s \in credentialed /\ c \in tokenHashes[s]
    BY DEF RInv, IInv, CredentialsRevocable
  <2> QED
    BY <2>1, <2>2 DEF RInv, HashesListed
<1> QED
  BY <1>1 DEF RInv, IInv, TypeOK, revokeCredentials, Forget, Authority!Without

\* Without an active session there is nothing to take away.
LEMMA RevokeNothing ==
    ASSUME RInv, NEW s \in SessionIds, sessions[s] # "active", revokeCredentials(s)
    PROVE  UNCHANGED <<pairingTickets, signalingTokens>>
<1>1. s \notin credentialed
  BY DEF RInv, CredentialedActive
<1> QED
  BY <1>1 DEF RInv, IInv, TypeOK, revokeCredentials, Forget

LEMMA Simulation ==
    ASSUME RInv, [Next]_vars
    PROVE  [Authority!Next]_Authority!avars
<1>t. TypeOK /\ CredentialsRevocable /\ RelaysOnlyWhileActive
        /\ CallsAgreeWithRecords /\ CredentialedActive /\ MintsFresh
  BY DEF RInv, IInv
<1> DEFINE Same == /\ UNCHANGED <<pairingTickets, signalingTokens, relays>>
                   /\ live' = live /\ claims' = claims
<1>s. ASSUME Same
      PROVE  UNCHANGED Authority!avars
  BY <1>s DEF Authority!avars
<1>1. ASSUME NEW r \in Requests,
             \/ \E t \in Tenants, s \in SessionIds, c \in Credentials : CreateStart(r, t, s, c)
             \/ \E op \in {"get", "tab"}, s \in SessionIds : ObserveStart(r, op, s)
             \/ \E s \in SessionIds, c \in Credentials : IssueStart(r, s, c)
      PROVE  Same
  <2>1. PICK op \in {"create", "get", "tab", "issue"}, s \in SessionIds,
             c \in Credentials \union {None} : Begin(r, op, s, c)
    BY <1>1 DEF CreateStart, ObserveStart, IssueStart
  <2>2. claims' = claims
    BY <1>t, <2>1, OtherBegins
  <2> QED
    BY <1>1, <2>2 DEF CreateStart, ObserveStart, IssueStart, records, credentials, live
<1>2. ASSUME NEW r \in Requests, NEW k \in Credentials, NEW n \in Credentials,
             ExchangeStart(r, k, n)
      PROVE  Authority!Present(r, "ticket", k)
  <2>1. /\ claims[r] = Authority!NoClaim /\ pairingTickets[k] # None
        /\ pairingTickets' = [pairingTickets EXCEPT ![k] = None]
        /\ UNCHANGED <<signalingTokens, relays>>
        /\ live' = live
    BY <1>t, <1>2, ClaimFacts DEF ExchangeStart, records, live
  <2>2. CASE UNCHANGED calls
    BY <2>1, <2>2 DEF Authority!Present, claims
  <2>3. CASE Begin(r, "exchange", pairingTickets[k], n)
    <3>1. claims' = [claims EXCEPT ![r] = [kind |-> "ticket", id |-> pairingTickets[k]]]
      BY <1>t, <2>3, ClaimsChange DEF Begin, ClaimOf
    <3> QED
      BY <2>1, <3>1 DEF Authority!Present
  <2> QED
    BY <1>2, <2>2, <2>3 DEF ExchangeStart
<1>3. ASSUME NEW r \in Requests, NEW k \in Credentials, AuthorizeStart(r, k)
      PROVE  Authority!Present(r, "token", k)
  <2>1. /\ claims[r] = Authority!NoClaim /\ signalingTokens[k] # None
        /\ signalingTokens' = [signalingTokens EXCEPT ![k] = None]
        /\ UNCHANGED <<pairingTickets, relays>>
        /\ live' = live
    BY <1>t, <1>3, ClaimFacts DEF AuthorizeStart, records, live
  <2>2. CASE UNCHANGED calls
    BY <2>1, <2>2 DEF Authority!Present, claims
  <2>3. CASE Begin(r, "authorize", signalingTokens[k], k)
    <3>1. claims' = [claims EXCEPT ![r] = [kind |-> "token", id |-> signalingTokens[k]]]
      BY <1>t, <2>3, ClaimsChange DEF Begin, ClaimOf
    <3> QED
      BY <2>1, <3>1 DEF Authority!Present
  <2> QED
    BY <1>3, <2>2, <2>3 DEF AuthorizeStart
<1>4. ASSUME NEW r \in Requests, NEW s \in SessionIds, BurnStart(r, s)
      PROVE  Same \/ Authority!End(s)
  <2>1. claims' = claims
    BY <1>t, <1>4, OtherBegins DEF BurnStart
  <2>2. CASE sessions[s] = "active"
    <3>1. live' = live \ {s} /\ s \in live
      BY <1>t, <1>4, <2>2 DEF BurnStart, live, TypeOK
    <3> QED
      BY <1>4, <2>1, <2>2, <3>1, RevokeEnds
         DEF BurnStart, revokeSignalingConnections, Authority!End
  <2>3. CASE sessions[s] # "active"
    <3>1. live' = live
      BY <1>t, <1>4, <2>3 DEF BurnStart, live, TypeOK
    <3>2. relays' = relays
      BY <1>t, <1>4, <2>3
         DEF BurnStart, revokeSignalingConnections, RelaysOnlyWhileActive, TypeOK
    <3> QED
      BY <1>4, <2>1, <2>3, <3>1, <3>2, RevokeNothing DEF BurnStart
  <2> QED
    BY <2>2, <2>3
<1>5. ASSUME NEW r \in Requests, RuntimeAnswers(r)
      PROVE  Same
  <2>1. PICK a : Answer(r, a)
    BY <1>5 DEF RuntimeAnswers, CreateAnswers, CreateLeaves, InspectAnswers, TabAnswers, DestroyAnswers
  <2>2. \A q \in Requests : calls'[q].op = calls[q].op /\ calls'[q].id = calls[q].id
    BY <1>t, <2>1 DEF Answer, TypeOK, Calls
  <2>3. claims' = claims
    BY <2>2 DEF claims, ClaimOf
  <2> QED
    BY <1>5, <2>3 DEF RuntimeAnswers, CreateAnswers, CreateLeaves, InspectAnswers, TabAnswers,
         DestroyAnswers, records, credentials, live
<1>6. ASSUME NEW r \in Requests, CreateResume(r)
      PROVE  Authority!Open(calls[r].id, calls[r].cred)
  <2> DEFINE s == calls[r].id  c == calls[r].cred
  <2>1. s \in SessionIds /\ c \in Credentials /\ sessions[s] = "absent"
    BY <1>t, <1>6 DEF CreateResume, TypeOK, Bearers, CallsAgreeWithRecords
  <2>2. s \notin live /\ live' = live \union {s}
    BY <1>t, <1>6, <2>1 DEF CreateResume, live, TypeOK
  <2>3. Authority!Unused(c)
    BY <1>t, <1>6 DEF CreateResume, MintsFresh, Minters, Authority!Unused
  <2>4. \A q \in Requests : claims[q].id # s
    <3>1. TAKE q \in Requests
    <3>2. CASE q = r
      BY <1>6, <2>1, <3>2, NoneAssumption DEF CreateResume, claims, ClaimOf
    <3>3. CASE q # r
      BY <1>t, <1>6, <2>1, <3>3, ClaimFacts, NoneAssumption
         DEF CreateResume, CallsAgreeWithRecords
    <3> QED
      BY <3>2, <3>3
  <2>5. \A d \in Credentials : ticketHash[s] # d /\ d \notin tokenHashes[s]
    BY <2>1, InactiveListsNothing
  <2>6. /\ pairingTickets' = [pairingTickets EXCEPT ![c] = s]
        /\ UNCHANGED <<signalingTokens, relays>>
    BY <1>t, <1>6, <2>1, <2>5 DEF CreateResume, rotateSignalingTicket, TypeOK
  <2>7. claims' = claims
    BY <1>t, <1>6, OtherReturns DEF CreateResume
  <2> QED
    BY <2>2, <2>3, <2>4, <2>6, <2>7 DEF Authority!Open
<1>7. ASSUME NEW r \in Requests, IssueResume(r)
      PROVE  Same \/ Authority!Rotate(calls[r].id, calls[r].cred)
  <2> DEFINE s == calls[r].id  c == calls[r].cred
  <2>1. /\ s \in SessionIds /\ c \in Credentials /\ s \in live /\ live' = live
        /\ sessions[s] = "active"
    BY <1>t, <1>7 DEF IssueResume, TypeOK, Bearers, live, records, StillCurrent
  <2>2. claims' = claims /\ relays' = relays
    BY <1>t, <1>7, OtherReturns DEF IssueResume
  <2>3. CASE s \in credentialed
    <3>1. Authority!Unused(c)
      BY <1>t, <1>7 DEF IssueResume, MintsFresh, Minters, Authority!Unused
    <3>2. \A d \in Credentials : /\ pairingTickets[d] = s <=> ticketHash[s] = d
                                 /\ signalingTokens[d] = s <=> d \in tokenHashes[s]
      BY <1>t, <2>1 DEF RInv, HashesListed, CredentialsRevocable
    <3>3. /\ pairingTickets' = [Authority!Without(pairingTickets, s) EXCEPT ![c] = s]
          /\ signalingTokens' = Authority!Without(signalingTokens, s)
      BY <1>t, <1>7, <2>1, <2>3, <3>2
         DEF IssueResume, rotateSignalingTicket, Authority!Without, TypeOK
    <3> QED
      BY <2>1, <2>2, <3>1, <3>3 DEF Authority!Rotate
  <2>4. CASE s \notin credentialed
    BY <1>7, <2>1, <2>2, <2>4 DEF IssueResume
  <2> QED
    BY <2>3, <2>4
<1>8. ASSUME NEW r \in Requests, ExchangeResume(r)
      PROVE  Authority!Mint(r, calls[r].cred) \/ Authority!Deny(r)
  <2> DEFINE s == calls[r].id  c == calls[r].cred
  <2>1. /\ s \in SessionIds /\ c \in Credentials /\ s \in live /\ live' = live
        /\ claims[r].kind = "ticket" /\ claims[r].id = s
        /\ claims[r] # Authority!NoClaim
    BY <1>t, <1>8, ClaimFacts
       DEF ExchangeResume, TypeOK, Bearers, live, records, StillCurrent
  <2>2. Authority!Close(r) /\ UNCHANGED <<pairingTickets, relays>>
    BY <1>t, <1>8, ReturnCloses DEF ExchangeResume
  <2>3. CASE s \in credentialed
    BY <1>t, <1>8, <2>1, <2>2, <2>3
       DEF ExchangeResume, MintsFresh, Minters, Authority!Unused, Authority!Mint
  <2>4. CASE s \notin credentialed
    BY <1>8, <2>1, <2>2, <2>4 DEF ExchangeResume, Authority!Deny
  <2> QED
    BY <2>3, <2>4
<1>9. ASSUME NEW r \in Requests, AuthorizeResume(r)
      PROVE  Authority!Grant(r, calls[r].cred)
  <2>1. /\ calls[r].id \in live /\ live' = live
        /\ claims[r].kind = "token" /\ claims[r].id = calls[r].id
    BY <1>t, <1>9, ClaimFacts
       DEF AuthorizeResume, TypeOK, live, records, StillCurrent
  <2>2. Authority!Close(r)
    BY <1>t, <1>9, ReturnCloses DEF AuthorizeResume
  <2> QED
    BY <1>9, <2>1, <2>2 DEF AuthorizeResume, Authority!Grant, credentials
<1>10. ASSUME NEW r \in Requests, ResumeRuntimeLost(r)
       PROVE  Authority!End(calls[r].id)
  <2> DEFINE s == calls[r].id
  <2>1. s \in SessionIds /\ sessions[s] = "active"
    BY <1>t, <1>10 DEF ResumeRuntimeLost, TypeOK, Observers, StillCurrent
  <2>2. s \in live /\ live' = live \ {s}
    BY <1>t, <1>10, <2>1 DEF ResumeRuntimeLost, live, TypeOK
  <2>3. UNCHANGED claims \/ \E q \in Requests : claims[q].id = s /\ Authority!Close(q)
    <3>1. CASE calls[r].op \in {"exchange", "authorize"}
      BY <1>t, <1>10, <3>1, ClaimFacts, ReturnCloses DEF ResumeRuntimeLost
    <3>2. CASE calls[r].op \notin {"exchange", "authorize"}
      BY <1>t, <1>10, <3>2, OtherReturns DEF ResumeRuntimeLost
    <3> QED
      BY <3>1, <3>2
  <2> QED
    BY <1>10, <2>1, <2>2, <2>3, RevokeEnds
       DEF ResumeRuntimeLost, revokeSignalingConnections, Authority!End
<1>11. ASSUME NEW r \in Requests, ResumeRefused(r)
       PROVE  Same \/ Authority!Deny(r)
  <2>1. UNCHANGED <<pairingTickets, signalingTokens, relays>> /\ live' = live
    BY <1>11 DEF ResumeRefused, records, credentials, live
  <2>2. CASE calls[r].op \in {"exchange", "authorize"}
    BY <1>t, <1>11, <2>1, <2>2, ClaimFacts, ReturnCloses DEF ResumeRefused, Authority!Deny
  <2>3. CASE calls[r].op \notin {"exchange", "authorize"}
    BY <1>t, <1>11, <2>1, <2>3, OtherReturns DEF ResumeRefused
  <2> QED
    BY <2>2, <2>3
<1>12. ASSUME NEW r \in Requests,
              CreateFails(r) \/ GetResume(r) \/ TabReturns(r) \/ BurnResume(r) \/ BurnFails(r)
       PROVE  Same
  <2>1. claims' = claims
    BY <1>t, <1>12, OtherReturns
       DEF CreateFails, GetResume, TabReturns, BurnResume, BurnFails
  <2>2. live' = live
    BY <1>t, <1>12 DEF CreateFails, GetResume, TabReturns, BurnResume, BurnFails, live,
         records, CallsAgreeWithRecords, TypeOK
  <2> QED
    BY <1>12, <2>1, <2>2
       DEF CreateFails, GetResume, TabReturns, BurnResume, BurnFails, credentials
<1>13. ASSUME NEW r \in Requests, TabResume(r)
       PROVE  Same
  <2>1. \A q \in Requests : ClaimOf(calls'[q]) = ClaimOf(calls[q])
    BY <1>t, <1>13 DEF TabResume, TypeOK, Calls, ClaimOf
  <2> QED
    BY <1>13, <2>1 DEF TabResume, claims, live, records, credentials
<1>14. ASSUME NEW s \in SessionIds, NEW c \in Credentials, RelayCloses(s, c)
       PROVE  Authority!HangUp(s, c)
  BY <1>14 DEF RelayCloses, Authority!HangUp, records, credentials, live, claims
<1>15. CASE \/ \E s \in SessionIds : \/ ContainerStops(s) \/ ContainerVanishes(s)
                                     \/ CreatedLate(s) \/ EngineForgets(s)
            \/ \E c \in Credentials : Expire(c)
  BY <1>15, <1>s DEF ContainerStops, ContainerVanishes, CreatedLate,
         EngineForgets, Expire, records, credentials, live, claims
<1>16. CASE UNCHANGED vars
  BY <1>16, <1>s DEF vars, records, credentials, live, claims
<1>17. ASSUME NEW r \in Requests, Resume(r)
       PROVE  Authority!Next \/ Same
  <2>1. calls[r].op \in Bearers => calls[r].cred \in Credentials /\ calls[r].id \in SessionIds
    BY <1>t DEF TypeOK, Bearers
  <2>2. CASE CreateResume(r)
    BY <1>6, <2>1, <2>2 DEF CreateResume, Bearers, Authority!Next
  <2>3. CASE IssueResume(r)
    BY <1>7, <2>1, <2>3 DEF IssueResume, Bearers, Authority!Next
  <2>4. CASE ExchangeResume(r)
    BY <1>8, <2>1, <2>4 DEF ExchangeResume, Bearers, Authority!Next
  <2>5. CASE AuthorizeResume(r)
    BY <1>9, <2>1, <2>5 DEF AuthorizeResume, Bearers, Authority!Next
  <2>6. CASE ResumeRuntimeLost(r)
    <3>1. calls[r].id \in SessionIds
      BY <1>t, <2>6 DEF ResumeRuntimeLost, Observers, TypeOK
    <3> QED
      BY <1>10, <2>6, <3>1 DEF Authority!Next
  <2>7. CASE ResumeRefused(r)
    BY <1>11, <2>7 DEF Authority!Next
  <2> QED
    BY <1>12, <1>13, <1>17, <2>2, <2>3, <2>4, <2>5, <2>6, <2>7 DEF Resume
<1>18. ASSUME NEW r \in Requests, Start(r)
       PROVE  Authority!Next \/ Same
  BY <1>1, <1>2, <1>3, <1>4, <1>18 DEF Start, Authority!Next
<1>19. CASE Environment
  BY <1>14, <1>15, <1>19 DEF Environment, Authority!Next
<1>20. ASSUME NEW r \in Requests, CutOff(r)
       PROVE  Same \/ Authority!Deny(r)
  <2> DEFINE gone == [Idle EXCEPT !.answer = "cut"]
  <2>1. UNCHANGED <<pairingTickets, signalingTokens, relays>> /\ live' = live
    BY <1>20 DEF CutOff, records, credentials, live
  <2>2. ClaimOf(gone) = Authority!NoClaim
    BY DEF ClaimOf, Idle, Authority!NoClaim
  <2>3. CASE calls[r].op \in {"exchange", "authorize"}
    <3>1. calls' = [calls EXCEPT ![r] = gone]
      BY <1>20, <2>3 DEF CutOff
    <3> HIDE DEF gone
    <3>2. claims' = [claims EXCEPT ![r] = Authority!NoClaim]
      BY <1>t, <2>2, <3>1, ClaimsChange
    <3> QED
      BY <1>t, <2>1, <2>3, <3>2, ClaimFacts DEF Authority!Deny, Authority!Close
  <2>4. CASE calls[r].op \in Observers \ {"exchange", "authorize"}
    <3>1. calls' = [calls EXCEPT ![r] = gone]
      BY <1>20, <2>4 DEF CutOff, Observers
    <3>2. ClaimOf(calls[r]) = Authority!NoClaim
      BY <2>4 DEF ClaimOf, Authority!NoClaim
    <3> HIDE DEF gone
    <3> QED
      BY <1>t, <2>1, <2>2, <3>1, <3>2, ClaimsKept
  <2>5. CASE calls[r].op \in {"create", "burn"}
    <3>1. Answer(r, "cut")
      BY <1>20, <2>5 DEF CutOff, Observers
    <3>2. \A q \in Requests : calls'[q].op = calls[q].op /\ calls'[q].id = calls[q].id
      BY <1>t, <3>1 DEF Answer, TypeOK, Calls
    <3> QED
      BY <2>1, <3>2 DEF claims, ClaimOf
  <2> QED
    BY <1>20, <2>3, <2>4, <2>5 DEF CutOff
<1>21. ASSUME NEW r \in Requests, CutOff(r)
       PROVE  Authority!Next \/ Same
  BY <1>20, <1>21 DEF Authority!Next
<1> QED
  BY <1>s, <1>5, <1>16, <1>17, <1>18, <1>19, <1>21 DEF Next

\* The service's answers about credentials are those of the authority: each
\* token comes from one presented ticket, each relay from one presented token,
\* only for a session that is active at that moment, and the end of a session is
\* the end of everything it gave out.
THEOREM ServiceImplementsAuthority == Spec => ImplementsAuthority
<1>1. Init => Authority!Init
  BY DEF Init, Authority!Init, Authority!NoClaim, live, claims, ClaimOf, Idle
<1>2. RInv /\ [Next]_vars => [Authority!Next]_Authority!avars
  BY Simulation
<1> QED
  BY <1>1, <1>2, RInvHolds, PTL DEF Spec, ImplementsAuthority, Authority!Spec
=============================================================================
