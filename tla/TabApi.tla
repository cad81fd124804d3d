------------------------------- MODULE TabApi -------------------------------
(***************************************************************************)
(* The way of one tab request: the route of the HTTP API (src/app.ts),     *)
(* the authenticator, SessionService.activeRuntime, the control request of *)
(* DockerEngineRuntime, handleTabRequest in the supervisor of whichever    *)
(* container listens on the port, its TabController, and the answer back   *)
(* through all of them.  InMemoryRuntime, which takes the place of         *)
(* everything behind the session service in the repository's tests, is the *)
(* second implementation of the same operations.                           *)
(*                                                                         *)
(* An exchange is one step: what the queue of the controller and the pipes *)
(* to the native runtime do with concurrent operations is the subject of   *)
(* TabControl, and phases that change under a waiting call of              *)
(* SessionService.  Times and URLs of tabs are left out; a URL and an id   *)
(* of a request are known by the class that the checks of the code tell    *)
(* apart.  Only containers of the same host answer on a published port.    *)
(***************************************************************************)
EXTENDS Naturals, Sequences, FiniteSets, SequencesExt

CONSTANTS
    Sessions,       \* sessions, each of a tenant and with a container of its own
    Ids,            \* ids of tabs, drawn by randomUUID
    MaximumTabs,    \* 4 in the code
    None

ASSUME TabApiAssumption == MaximumTabs \in Nat \ {0} /\ None \notin Sessions \union Ids

VARIABLES
    authenticator,  \* which Authenticator main.ts built
    containers,     \* per session, the tabs of the TabController in its container
    exchange        \* the request answered last, until the client has read it

vars == <<authenticator, containers, exchange>>

\* TabController: its tabs in the order of the Map, and activeTabId.
TabLists == {l \in [tabs : UNION {[1..n -> Ids] : n \in 1..MaximumTabs}, active : Ids] :
                /\ \A i, j \in DOMAIN l.tabs : l.tabs[i] = l.tabs[j] => i = j
                /\ \E i \in DOMAIN l.tabs : l.tabs[i] = l.active}

IdsOf(list) == {list.tabs[i] : i \in DOMAIN list.tabs}

\* "spelled" is the uuid of a tab in upper case or with its urn prefix.
TabNames == Ids \union {"unknown", "spelled", "malformed"}

\* "packaged" is the file route of the home page; "expanding" is accepted as it
\* is and longer than the limit once it is normalized; "long" has at most 4096
\* characters but more bytes, "bulky" also more than 8 KiB as JSON; "oversized"
\* has more than 4096 characters or none; "unparsable" stands for a body that is
\* no JSON or has more than 16 KiB.
Urls == {"omitted", "home", "packaged", "public", "expanding", "unsafe", "long", "bulky",
         "oversized", "unparsable"}

Requests ==
    [op : {"list"}, tab : {None}, url : {None}]
        \union [op : {"create"}, tab : {None}, url : Urls]
        \union [op : {"activate", "delete"}, tab : TabNames, url : {None}]
        \union [op : {"navigate"}, tab : TabNames, url : Urls]

\* "accepted" names a tenant; "rejected" is a well-formed token whose signature,
\* claims or key server fail, or a development token with unsafe names.
Headers == {"absent", "otherScheme", "garbled", "rejected", "accepted"}

-----------------------------------------------------------------------------
(* Errors                                                                  *)

\* Those of ErrorCode that the way of a tab request knows, and the supervisor's own.
Codes == {"VALIDATION_FAILED", "AUTH_REQUIRED", "AUTH_INVALID", "SESSION_NOT_FOUND",
          "TAB_NOT_FOUND", "TAB_LIMIT_REACHED", "TAB_MINIMUM_REACHED", "TAB_URL_INVALID",
          "TAB_RUNTIME_UNAVAILABLE", "RUNTIME_FAILURE",
          "TAB_RUNTIME_FAILURE", "INTERNAL_AUTH_REQUIRED", "TAB_ROUTE_NOT_FOUND"}

\* The value that stands for no answer is no error.
ASSUME NoAnswerAssumption == None \notin [status : Nat, body : Codes]

\* The status of each code where it is thrown, in the supervisor's table and in
\* the table of the adapter; activeRuntime gives TAB_RUNTIME_UNAVAILABLE 409.
StatusOf(code) ==
    CASE code \in {"VALIDATION_FAILED", "TAB_URL_INVALID"} -> 400
      [] code \in {"AUTH_REQUIRED", "AUTH_INVALID", "INTERNAL_AUTH_REQUIRED"} -> 401
      [] code \in {"SESSION_NOT_FOUND", "TAB_NOT_FOUND", "TAB_ROUTE_NOT_FOUND"} -> 404
      [] code \in {"TAB_LIMIT_REACHED", "TAB_MINIMUM_REACHED"} -> 409
      [] OTHER -> 503

Fail(code)  == [status |-> StatusOf(code), body |-> code]
Unavailable == Fail("TAB_RUNTIME_UNAVAILABLE")
IsError(a)  == a.status >= 400

Done(list, status, body) == [list |-> list, reply |-> [status |-> status, body |-> body]]
Refuse(list, code)       == [list |-> list, reply |-> Fail(code)]

-----------------------------------------------------------------------------
(* The supervisor of a container                                           *)

\* normalizeTabUrl, and encodeUrl which normalizes its result once more.
UrlRefused(url) == url \in {"expanding", "unsafe", "long"}

Tab(id, isActive) == [id |-> id, active |-> isActive]
View(list) == [i \in DOMAIN list.tabs |-> Tab(list.tabs[i], list.tabs[i] = list.active)]

\* Defect variant: the answer of the runtime is not looked at.
AfterCommand_Ignored(native, list, done) ==
    IF native = "OK" THEN done ELSE [list |-> list, reply |-> done.reply]

\* What a command to the native runtime comes to: the list changes only on OK.
AfterCommand(native, list, done) ==
    CASE native = "OK"  -> done
      [] native = "ERR" -> Refuse(list, "TAB_RUNTIME_FAILURE")
      [] OTHER          -> Refuse(list, "TAB_RUNTIME_UNAVAILABLE")

ControllerCreate(list, url, id, native) ==
    CASE Len(list.tabs) >= MaximumTabs -> Refuse(list, "TAB_LIMIT_REACHED")
      [] Len(list.tabs) < MaximumTabs /\ UrlRefused(url) -> Refuse(list, "TAB_URL_INVALID")
      [] OTHER -> AfterCommand(native, list,
            Done([tabs |-> Append(list.tabs, id), active |-> id], 201, Tab(id, TRUE)))

ControllerActivate(list, id, native) ==
    CASE id \notin IdsOf(list) -> Refuse(list, "TAB_NOT_FOUND")
      [] id = list.active      -> Done(list, 200, Tab(id, TRUE))
      [] OTHER -> AfterCommand(native, list, Done([list EXCEPT !.active = id], 200, Tab(id, TRUE)))

ControllerNavigate(list, id, url, native) ==
    CASE id \notin IdsOf(list) -> Refuse(list, "TAB_NOT_FOUND")
      [] id \in IdsOf(list) /\ UrlRefused(url) -> Refuse(list, "TAB_URL_INVALID")
      [] OTHER -> AfterCommand(native, list, Done(list, 200, Tab(id, id = list.active)))

\* Map.delete keeps the order of the other keys.
Without(list, id) == RemoveAt(list.tabs, CHOOSE i \in DOMAIN list.tabs : list.tabs[i] = id)

\* Defect variant: the tab that goes stays the active one.
ControllerRemove_Active(list, id, native) ==
    CASE id \notin IdsOf(list) -> Refuse(list, "TAB_NOT_FOUND")
      [] id \in IdsOf(list) /\ Len(list.tabs) = 1 -> Refuse(list, "TAB_MINIMUM_REACHED")
      [] OTHER -> AfterCommand(native, list,
                    Done([list EXCEPT !.tabs = Without(list, id)], 204, "empty"))

\* The first tab that remains takes over from the active one.
ControllerRemove(list, id, native) ==
    CASE id \notin IdsOf(list) -> Refuse(list, "TAB_NOT_FOUND")
      [] id \in IdsOf(list) /\ Len(list.tabs) = 1 -> Refuse(list, "TAB_MINIMUM_REACHED")
      [] OTHER ->
            LET rest == Without(list, id)
                next == IF id = list.active THEN rest[1] ELSE list.active
            IN  AfterCommand(native, list, Done([tabs |-> rest, active |-> next], 204, "empty"))

\* Defect variant: any bearer is let in.
internalRequestAuthorized_Any(secret, own) == TRUE

internalRequestAuthorized(secret, own) == secret = own

\* readJsonBody takes at most 8 KiB; the route of a tab 36 lower-case characters.
BodyRefused(r) == r.op \in {"create", "navigate"} /\ r.url = "bulky"
NoRoute(r)     == r.op \in {"activate", "navigate", "delete"} /\ r.tab = "spelled"

handleTabRequest(own, list, r, secret, id, native) ==
    CASE ~internalRequestAuthorized(secret, own) -> Refuse(list, "INTERNAL_AUTH_REQUIRED")
      [] internalRequestAuthorized(secret, own) /\ NoRoute(r) ->
            Refuse(list, "TAB_ROUTE_NOT_FOUND")
      [] internalRequestAuthorized(secret, own) /\ ~NoRoute(r) /\ BodyRefused(r) ->
            Refuse(list, "VALIDATION_FAILED")
      [] OTHER ->
            CASE r.op = "list"     -> Done(list, 200, View(list))
              [] r.op = "create"   -> ControllerCreate(list, r.url, id, native)
              [] r.op = "activate" -> ControllerActivate(list, r.tab, native)
              [] r.op = "navigate" -> ControllerNavigate(list, r.tab, r.url, native)
              [] r.op = "delete"   -> ControllerRemove(list, r.tab, native)

-----------------------------------------------------------------------------
(* The adapter                                                             *)

\* The codes that parseTabRuntimeError lets through, with their own status only.
Relayed == {"TAB_NOT_FOUND", "TAB_LIMIT_REACHED", "TAB_MINIMUM_REACHED", "TAB_URL_INVALID"}

parseTabRuntimeError(reply) ==
    IF reply.body \in Relayed /\ reply.status = StatusOf(reply.body)
    THEN Fail(reply.body) ELSE Unavailable

\* What listTabs accepts.
ListIsValid(body) ==
    /\ Len(body) \in 1..MaximumTabs
    /\ \A i, j \in DOMAIN body : body[i].id = body[j].id => i = j
    /\ Cardinality({i \in DOMAIN body : body[i].active}) = 1

Expected(op) == CASE op = "create" -> 201 [] op = "delete" -> 204 [] OTHER -> 200

\* controlRequest and the method that called it, for a reply that arrived whole.
controlAnswer(op, reply) ==
    CASE reply.status # Expected(op) -> parseTabRuntimeError(reply)
      [] op = "list" /\ reply.status = 200 /\ ~ListIsValid(reply.body) -> Unavailable
      [] OTHER -> reply

-----------------------------------------------------------------------------
(* The control plane                                                       *)

\* Fastify parses the body, then validates it; both come before the handler.
Invalid(r) == \/ r.tab = "malformed"
              \/ r.url = "oversized"
              \/ r.op = "navigate" /\ r.url = "omitted"

\* DevelopmentAuthenticator and OidcAuthenticator, for a header that names no tenant.
AuthFailure(header) ==
    IF header = "absent" \/ (authenticator = "development" /\ header = "otherScheme")
    THEN "AUTH_REQUIRED" ELSE "AUTH_INVALID"

\* The key of a record is the tenant with the id; a session has the tenant of
\* the same name here.
Found(session, tenant) == session # None /\ session = tenant

\* What the control plane answers without asking a container, or None.
\* "error" is an inspection that fails, "stopped" a session that is not active.
AnsweredAtOnce(r, session, header, tenant, inspection) ==
    CASE r.url = "unparsable" -> [status |-> 500, body |-> "RUNTIME_FAILURE"]
      [] r.url # "unparsable" /\ Invalid(r) -> Fail("VALIDATION_FAILED")
      [] r.url # "unparsable" /\ ~Invalid(r) /\ header # "accepted" -> Fail(AuthFailure(header))
      [] OTHER ->
            CASE ~Found(session, tenant) -> Fail("SESSION_NOT_FOUND")
              [] Found(session, tenant) /\ inspection = "error"   -> Fail("RUNTIME_FAILURE")
              [] Found(session, tenant) /\ inspection = "stopped" ->
                    [status |-> 409, body |-> "TAB_RUNTIME_UNAVAILABLE"]
              [] OTHER -> None

\* The id of a created tab is fresh.
Unused == Ids \ UNION {IdsOf(containers[s]) : s \in Sessions}

Record(r, session, tenant, answer) ==
    [request |-> r, session |-> session, tenant |-> tenant, answer |-> answer]

\* The request ends before the adapter is called.
Refused(r) ==
    \E session \in Sessions \union {None}, header \in Headers, tenant \in Sessions,
       inspection \in {"running", "stopped", "error"} :
        LET answer == AnsweredAtOnce(r, session, header, tenant, inspection)
        IN  /\ answer # None
            /\ exchange' = Record(r, session, IF header = "accepted" THEN tenant ELSE None, answer)
            /\ UNCHANGED containers

\* The request is sent to the port of the session, where the container of any
\* session may listen by then (peer), or nobody; the answer may be lost.
Forwarded(r) ==
    \E session \in Sessions, tenant \in Sessions, peer \in Sessions \union {None},
       native \in {"OK", "ERR", "gone"}, lost \in BOOLEAN :
        /\ AnsweredAtOnce(r, session, "accepted", tenant, "running") = None
        /\ IF peer = None
           THEN /\ exchange' = Record(r, session, tenant, Unavailable)
                /\ UNCHANGED containers
           ELSE \E id \in (IF r.op = "create" THEN Unused ELSE {None}) :
                    LET outcome == handleTabRequest(peer, containers[peer], r, session, id, native)
                    IN  /\ containers' = [containers EXCEPT ![peer] = outcome.list]
                        /\ exchange' = Record(r, session, tenant,
                                IF lost THEN Unavailable ELSE controlAnswer(r.op, outcome.reply))

Serve(op) ==
    /\ exchange = None
    /\ \E r \in {q \in Requests : q.op = op} : Refused(r) \/ Forwarded(r)
    /\ UNCHANGED authenticator

ListTabs    == Serve("list")
CreateTab   == Serve("create")
ActivateTab == Serve("activate")
NavigateTab == Serve("navigate")
DeleteTab   == Serve("delete")

\* The client has the answer.
Deliver ==
    /\ exchange # None
    /\ exchange' = None
    /\ UNCHANGED <<authenticator, containers>>

Init ==
    /\ authenticator \in {"development", "oidc"}
    /\ containers \in [Sessions -> {[tabs |-> <<id>>, active |-> id] : id \in Ids}]
    /\ \A s, t \in Sessions : containers[s] = containers[t] => s = t
    /\ exchange = None

Next == ListTabs \/ CreateTab \/ ActivateTab \/ NavigateTab \/ DeleteTab \/ Deliver

Spec == Init /\ [][Next]_vars

-----------------------------------------------------------------------------
(* InMemoryRuntime, on a list whose tabs carry their flags                 *)

MemoryOf(list) == View(list)

MemoryRefuses(url) == url \in {"packaged", "unsafe", "long", "bulky"}
HasTab(tabs, id)   == \E i \in DOMAIN tabs : tabs[i].id = id
At(tabs, id)       == CHOOSE i \in DOMAIN tabs : tabs[i].id = id
Flagged(tabs, on(_)) == [i \in DOMAIN tabs |-> Tab(tabs[i].id, on(tabs[i]))]

\* createTab clears the flags before it looks at the URL.
Cleared(tabs) == Flagged(tabs, LAMBDA t : FALSE)

MemoryCreate(tabs, url, id) ==
    CASE Len(tabs) >= MaximumTabs -> Refuse(tabs, "TAB_LIMIT_REACHED")
      [] Len(tabs) < MaximumTabs /\ MemoryRefuses(url) ->
            Refuse(Cleared(tabs), "TAB_URL_INVALID")
      [] OTHER -> Done(Append(Cleared(tabs), Tab(id, TRUE)), 201, Tab(id, TRUE))

MemoryActivate(tabs, id) ==
    IF HasTab(tabs, id)
    THEN Done(Flagged(tabs, LAMBDA t : t.id = id), 200, Tab(id, TRUE))
    ELSE Refuse(tabs, "TAB_NOT_FOUND")

MemoryNavigate(tabs, id, url) ==
    CASE ~HasTab(tabs, id) -> Refuse(tabs, "TAB_NOT_FOUND")
      [] HasTab(tabs, id) /\ MemoryRefuses(url) -> Refuse(tabs, "TAB_URL_INVALID")
      [] OTHER -> Done(tabs, 200, tabs[At(tabs, id)])

\* Defect variant: no tab takes over from the active one.
MemoryDelete_NoFallback(tabs, id) ==
    CASE ~HasTab(tabs, id) -> Refuse(tabs, "TAB_NOT_FOUND")
      [] HasTab(tabs, id) /\ Len(tabs) = 1 -> Refuse(tabs, "TAB_MINIMUM_REACHED")
      [] OTHER -> Done(RemoveAt(tabs, At(tabs, id)), 204, "empty")

MemoryDelete(tabs, id) ==
    CASE ~HasTab(tabs, id) -> Refuse(tabs, "TAB_NOT_FOUND")
      [] HasTab(tabs, id) /\ Len(tabs) = 1 -> Refuse(tabs, "TAB_MINIMUM_REACHED")
      [] OTHER ->
            LET rest == RemoveAt(tabs, At(tabs, id))
                lost == tabs[At(tabs, id)].active
            IN  Done(IF lost THEN [rest EXCEPT ![1].active = TRUE] ELSE rest, 204, "empty")

InMemory(tabs, r, id) ==
    CASE r.op = "list"     -> Done(tabs, 200, tabs)
      [] r.op = "create"   -> MemoryCreate(tabs, r.url, id)
      [] r.op = "activate" -> MemoryActivate(tabs, r.tab)
      [] r.op = "navigate" -> MemoryNavigate(tabs, r.tab, r.url)
      [] r.op = "delete"   -> MemoryDelete(tabs, r.tab)

-----------------------------------------------------------------------------
(* Properties                                                              *)

\* Every list a TabController can come to is one that listTabs of the adapter
\* accepts (docker-engine-runtime.ts:273): the checks of the control plane never
\* turn a healthy session into an unavailable one.
ListsAreAccepted ==
    /\ containers \in [Sessions -> TabLists]
    /\ \A s \in Sessions : ListIsValid(View(containers[s]))

\* What the operation of an exchange does to the list when it succeeds.
Performed(e, before, after) ==
    CASE e.request.op = "list"     -> after = before /\ e.answer.body = View(before)
      [] e.request.op = "create"   -> /\ after.tabs = Append(before.tabs, e.answer.body.id)
                                      /\ after.active = e.answer.body.id
      [] e.request.op = "activate" -> /\ after.tabs = before.tabs
                                      /\ after.active = e.request.tab
      [] e.request.op = "navigate" -> after = before /\ e.request.tab \in IdsOf(before)
      [] e.request.op = "delete"   -> /\ e.request.tab \in IdsOf(before)
                                      /\ IdsOf(after) = IdsOf(before) \ {e.request.tab}
                                      /\ after.active \in IdsOf(after)

\* The condition of the list that a relayed code tells of.
ReasonIsReal(e, before) ==
    CASE e.answer.body = "TAB_NOT_FOUND"       -> e.request.tab \notin IdsOf(before)
      [] e.answer.body = "TAB_LIMIT_REACHED"   -> Len(before.tabs) = MaximumTabs
      [] e.answer.body = "TAB_MINIMUM_REACHED" -> IdsOf(before) = {e.request.tab}
      [] OTHER                                 -> TRUE

\* What the client is told is what happened in the container of its session: a
\* success was performed there, and an error other than "unavailable" means that
\* nothing was changed anywhere and that its reason holds.  Only 503
\* TAB_RUNTIME_UNAVAILABLE leaves the client in doubt.
AnswersAreTrue ==
    [][exchange = None =>
        LET e == exchange'
        IN  IF ~IsError(e.answer)
            THEN Performed(e, containers[e.session], containers'[e.session])
            ELSE e.answer # Unavailable =>
                    /\ UNCHANGED containers
                    /\ e.answer.body \in Relayed => ReasonIsReal(e, containers[e.session])
      ]_vars

\* Whoever listens on the port by then, a request changes no tabs but those of
\* the session it names, and only when it comes from the tenant of that session.
OnlyOwnTabs ==
    [][\A s \in Sessions : containers'[s] # containers[s] =>
            exchange'.session = s /\ exchange'.tenant = s]_vars

\* Requests on which the two adapters answer differently: the file route of the
\* home page, URLs that grow past the limit or do not fit the internal body, and
\* other spellings of a uuid.
Plain(r) == /\ r.tab \notin {"spelled", "malformed"}
            /\ r.url \notin {"packaged", "expanding", "bulky", "oversized", "unparsable"}
            /\ ~Invalid(r)

\* On every list a session can come to, the adapter the tests use answers a plain
\* request as the one that is deployed.  It comes to the same list, but after a
\* creation that both refuse for its URL: there the deployed adapter keeps its
\* list, and the other keeps its tabs without an active one.
AdaptersAgree ==
    \A s \in Sessions, r \in {q \in Requests : Plain(q)} :
        \A id \in (IF r.op = "create" THEN Unused ELSE {None}) :
            LET docker == handleTabRequest(s, containers[s], r, s, id, "OK")
                memory == InMemory(MemoryOf(containers[s]), r, id)
            IN  /\ controlAnswer(r.op, docker.reply) = memory.reply
                /\ IF r.op = "create" /\ memory.reply = Fail("TAB_URL_INVALID")
                   THEN /\ docker.list = containers[s]
                        /\ memory.list = Cleared(MemoryOf(docker.list))
                   ELSE memory.list = MemoryOf(docker.list)
=============================================================================
