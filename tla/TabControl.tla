----------------------------- MODULE TabControl -----------------------------
(***************************************************************************)
(* Tab control inside a session container: TabController and               *)
(* NativeTabDriver (src/session/tab-control.mjs) in the supervisor, the    *)
(* tabs of the native runtime (src/session/fireball-session-runtime.cc),   *)
(* and the two pipes between the processes.                                *)
(*                                                                         *)
(* The controller executes one operation after the other.  Its driver      *)
(* writes a numbered command, and waits for the reply with that number     *)
(* until a timer ends.  Nothing takes a command back: the native runtime   *)
(* may execute it after the controller has given it up.                    *)
(*                                                                         *)
(* Tab ids and command numbers are drawn, when the operation is asked for, *)
(* from finite sets, among the names that nothing refers to.  URLs, which  *)
(* only navigate changes, are left out: an operation may be refused for    *)
(* its URL.  The specification begins when the runtime has sent READY.     *)
(***************************************************************************)
EXTENDS Naturals, FiniteSets, Sequences, SequencesExt

CONSTANTS
    Callers,        \* HTTP requests to the internal tab API that can be open
    TabIds,         \* values of randomUUID()
    Numbers,        \* values of nextRequest: commands in the pipes or wanted
    None,
    InitialTab,     \* initialTab and --initial-tab-id
    MaximumTabs     \* maximumTabs and kMaximumTabs

ASSUME MaximumTabsAssumption == MaximumTabs \in 1..8
ASSUME InitialTabAssumption == InitialTab \in TabIds
ASSUME NoTabAssumption == None \notin TabIds \union Numbers \union Callers

VARIABLES
    tabs,           \* keys of TabController.tabs, in insertion order
    activeTabId,    \* TabController.activeTabId
    request,        \* what each caller asks for, or that its last request succeeded
    waiting,        \* operations chained behind #operation, by caller
    current,        \* the caller whose command is in driver.pending
    stdin,          \* commands the native runtime has not read
    stdout,         \* replies the driver has not read
    native,         \* tabs_ and active_tab_id_ of the native runtime
    running,        \* the native process runs
    ended,          \* a write to it has failed and ended the supervisor
    exited,         \* the supervisor has seen it exit
    closing,        \* the supervisor shuts down
    missed          \* some command was given up before its reply was read

controller == <<tabs, activeTabId>>
pipes      == <<stdin, stdout>>
process    == <<native, running, ended>>
vars       == <<controller, request, waiting, current, pipes, process, exited, closing, missed>>

Ops      == {"create", "activate", "navigate", "remove"}
Idle     == [state |-> "idle", op |-> "none", id |-> None, number |-> None]
Command  == [op : Ops, id : TabIds, number : Numbers, fallback : TabIds \union {None}]
Reply    == [ok : BOOLEAN, number : Numbers]

Asking   == {c \in Callers : request[c].state = "asking"}
InTabs(id) == \E i \in DOMAIN tabs : tabs[i] = id
Without(id) == RemoveAt(tabs, CHOOSE i \in DOMAIN tabs : tabs[i] = id)

FreshId(id) ==
    /\ ~InTabs(id) /\ id \notin native.tabs
    /\ \A i \in DOMAIN stdin : stdin[i].id # id
    /\ \A c \in Asking : request[c].id # id

FreshNumber(n) ==
    /\ \A i \in DOMAIN stdin : stdin[i].number # n
    /\ \A i \in DOMAIN stdout : stdout[i].number # n
    /\ \A c \in Asking : request[c].number # n

-----------------------------------------------------------------------------
(* TabController                                                           *)

\* handleTabRequest calls an operation, which #serialize chains.
Ask(c, op, id, n) ==
    /\ ~closing /\ ~ended /\ c \notin Asking
    /\ FreshNumber(n)
    /\ op = "create" => FreshId(id)
    /\ request' = [request EXCEPT ![c] =
                      [state |-> "asking", op |-> op, id |-> id, number |-> n]]
    /\ waiting' = Append(waiting, c)
    /\ UNCHANGED <<controller, current, pipes, process, exited, closing, missed>>

Succeed(c) == request' = [request EXCEPT ![c] = [Idle EXCEPT !.state = "ok"]]
Reject(c)  == request' = [request EXCEPT ![c] = Idle]

\* What the controller refuses before it asks the driver, apart from the URL.
Refuses(op, id) ==
    CASE op = "create" -> Len(tabs) >= MaximumTabs
      [] op = "remove" -> ~InTabs(id) \/ Len(tabs) = 1
      [] OTHER         -> ~InTabs(id)

\* #command rejects at once.
DriverUnavailable == exited

Operation == Head(waiting)

\* The operation ends without a command: it is refused, the URL is, the tab is
\* already active, or the driver has no runtime.
EndsAtOnce ==
    LET q == request[Operation] IN
    /\ current = None /\ waiting # <<>> /\ ~ended
    /\ \/ /\ Refuses(q.op, q.id) \/ q.op \in {"create", "navigate"} \/ DriverUnavailable
          /\ Reject(Operation)
       \/ /\ q.op = "activate" /\ q.id = activeTabId /\ InTabs(q.id)
          /\ Succeed(Operation)
    /\ waiting' = Tail(waiting)
    /\ UNCHANGED <<controller, current, pipes, process, exited, closing, missed>>

\* The tab that is shown when id is removed.
Fallback(id) == IF id = activeTabId THEN Head(Without(id)) ELSE activeTabId

\* The operation comes to the write of its command.
Writes ==
    LET q == request[Operation] IN
    /\ current = None /\ waiting # <<>>
    /\ ~Refuses(q.op, q.id) /\ ~DriverUnavailable
    /\ ~(q.op = "activate" /\ q.id = activeTabId)

\* #command: the command is written and its timer armed.
SendCommand ==
    LET q == request[Operation] IN
    /\ Writes /\ running
    /\ current' = Operation /\ waiting' = Tail(waiting)
    /\ stdin' = Append(stdin, [op |-> q.op, id |-> q.id, number |-> q.number,
                         fallback |-> IF q.op = "remove" THEN Fallback(q.id) ELSE None])
    /\ UNCHANGED <<controller, request, stdout, process, exited, closing, missed>>

\* A command, or SHUTDOWN, is written for a process that has ended unseen.  #command
\* rejects, but nothing listens to the error of the pipe, which ends the supervisor
\* before the answer is sent.
WriteFails ==
    /\ ~running /\ ~exited /\ ~ended
    /\ Writes \/ (closing /\ Asking = {})
    /\ ended' = TRUE
    /\ UNCHANGED <<controller, request, waiting, current, pipes, native, running, exited,
                   closing, missed>>

\* The rest of the operation, after the driver's promise has resolved.
Complete(q) ==
    /\ tabs' = IF q.op = "create" THEN Append(tabs, q.id)
               ELSE IF q.op = "remove" THEN Without(q.id) ELSE tabs
    /\ activeTabId' = CASE q.op \in {"create", "activate"}          -> q.id
                        [] q.op = "remove" /\ q.id = activeTabId    -> Fallback(q.id)
                        [] OTHER                                    -> activeTabId

GiveUp ==
    /\ Reject(current)
    /\ current' = None
    /\ UNCHANGED <<controller, waiting, closing>>

-----------------------------------------------------------------------------
(* NativeTabDriver                                                         *)

\* Defect variant: a reply settles whatever command is pending.
HandleLine_AnyNumber ==
    LET line == Head(stdout) IN
    /\ stdout # <<>> /\ ~ended
    /\ stdout' = Tail(stdout)
    /\ IF current # None
       THEN IF line.ok
            THEN /\ Complete(request[current]) /\ Succeed(current) /\ current' = None
                 /\ UNCHANGED <<waiting, closing>>
            ELSE GiveUp
       ELSE UNCHANGED <<controller, request, waiting, current, closing>>
    /\ UNCHANGED <<stdin, process, exited, missed>>

\* #handleLine: the reply to a command that was given up is dropped.
HandleLine ==
    LET line == Head(stdout) IN
    /\ stdout # <<>> /\ ~ended
    /\ stdout' = Tail(stdout)
    /\ IF current # None /\ request[current].number = line.number
       THEN IF line.ok
            THEN /\ Complete(request[current]) /\ Succeed(current) /\ current' = None
                 /\ UNCHANGED <<waiting, closing>>
            ELSE GiveUp
       ELSE UNCHANGED <<controller, request, waiting, current, closing>>
    /\ UNCHANGED <<stdin, process, exited, missed>>

\* The command's timer.
CommandTimeout ==
    /\ current # None
    /\ GiveUp
    /\ missed' = TRUE
    /\ UNCHANGED <<pipes, process, exited>>

\* Defect variant: the pending commands are forgotten.
Fail_KeepsPending ==
    /\ ~running /\ ~exited /\ ~ended
    /\ exited' = TRUE /\ missed' = TRUE
    /\ current' = None
    /\ UNCHANGED <<controller, request, waiting, closing, pipes, process>>

\* The "exit" event: #fail rejects what is pending, and main shuts down.
Fail ==
    /\ ~running /\ ~exited /\ ~ended
    /\ exited' = TRUE /\ closing' = TRUE
    /\ IF current # None
       THEN Reject(current) /\ current' = None /\ missed' = TRUE
       ELSE UNCHANGED <<request, current, missed>>
    /\ UNCHANGED <<controller, waiting, pipes, process>>

-----------------------------------------------------------------------------
(* main's shutdown                                                         *)

\* SIGTERM or SIGINT: proxy.close admits no further request.
Shutdown ==
    /\ ~closing /\ ~ended
    /\ closing' = TRUE
    /\ UNCHANGED <<controller, request, waiting, current, pipes, process, exited, missed>>

\* Defect variant: a runtime that ignores SHUTDOWN is not killed.
StopNative_NoKill ==
    /\ closing /\ Asking = {} /\ running
    /\ UNCHANGED vars

\* proxy.close returns when the open requests are answered; then SHUTDOWN is
\* written and, three seconds later, the process killed.
StopNative ==
    /\ closing /\ Asking = {} /\ running
    /\ running' = FALSE /\ stdin' = <<>>
    /\ UNCHANGED <<controller, request, waiting, current, stdout, native, ended, exited, closing,
                   missed>>

-----------------------------------------------------------------------------
(* The native runtime                                                      *)

\* Defect variant: the tab that was shown is removed and nothing else is shown.
Executed_NoFallback(cmd) ==
    CASE cmd.op = "create"   -> [tabs |-> native.tabs \union {cmd.id}, active |-> cmd.id]
      [] cmd.op = "activate" -> [native EXCEPT !.active = cmd.id]
      [] cmd.op = "remove"   -> [native EXCEPT !.tabs = @ \ {cmd.id}]
      [] OTHER               -> native

\* CreateTab (which activates), ActivateTab, RemoveTab and NavigateTab.
Executed(cmd) ==
    CASE cmd.op = "create"   -> [tabs |-> native.tabs \union {cmd.id}, active |-> cmd.id]
      [] cmd.op = "activate" -> [native EXCEPT !.active = cmd.id]
      [] cmd.op = "remove"   -> [tabs |-> native.tabs \ {cmd.id},
                                 active |-> IF native.active = cmd.id THEN cmd.fallback
                                            ELSE native.active]
      [] OTHER               -> native

\* The checks of the four functions.
Accepts(cmd) ==
    CASE cmd.op = "create" ->
            Cardinality(native.tabs) < MaximumTabs /\ cmd.id \notin native.tabs
      [] cmd.op = "remove" ->
            /\ cmd.id \in native.tabs /\ cmd.fallback \in native.tabs \ {cmd.id}
            /\ native.active \in {cmd.id, cmd.fallback}
      [] OTHER -> cmd.id \in native.tabs

\* HandleCommand: a command that is not accepted, and a creation whose pipeline
\* elements fail, are answered with ERR and change nothing.
HandleCommand ==
    LET cmd == Head(stdin) IN
    /\ running /\ stdin # <<>>
    /\ stdin' = Tail(stdin)
    /\ \/ /\ Accepts(cmd)
          /\ native' = Executed(cmd)
          /\ stdout' = Append(stdout, [ok |-> TRUE, number |-> cmd.number])
       \/ /\ ~Accepts(cmd) \/ cmd.op = "create"
          /\ stdout' = Append(stdout, [ok |-> FALSE, number |-> cmd.number])
          /\ UNCHANGED native
    /\ UNCHANGED <<controller, request, waiting, current, running, ended, exited, closing,
                   missed>>

\* A pipeline error, the end of the stream or a crash ends the process.
NativeExits ==
    /\ running
    /\ running' = FALSE /\ stdin' = <<>>
    /\ UNCHANGED <<controller, request, waiting, current, stdout, native, ended, exited, closing,
                   missed>>

-----------------------------------------------------------------------------
Init ==
    /\ tabs = <<InitialTab>> /\ activeTabId = InitialTab
    /\ native = [tabs |-> {InitialTab}, active |-> InitialTab]
    /\ request = [c \in Callers |-> Idle]
    /\ waiting = <<>> /\ current = None
    /\ stdin = <<>> /\ stdout = <<>>
    /\ running = TRUE /\ ended = FALSE /\ exited = FALSE /\ closing = FALSE /\ missed = FALSE

Supervisor ==
    \/ EndsAtOnce
    \/ SendCommand
    \/ WriteFails
    \/ HandleLine
    \/ CommandTimeout
    \/ Fail
    \/ StopNative

Next ==
    \/ \E c \in Callers, op \in Ops, id \in TabIds, n \in Numbers : Ask(c, op, id, n)
    \/ Supervisor
    \/ Shutdown
    \/ HandleCommand
    \/ NativeExits

Spec == Init /\ [][Next]_vars

\* The supervisor's event loop and its timers run; the native runtime owes
\* nothing, it may hang.
FairSpec ==
    /\ Spec
    /\ WF_vars(EndsAtOnce \/ SendCommand \/ WriteFails)
    /\ WF_vars(HandleLine)
    /\ WF_vars(CommandTimeout)
    /\ WF_vars(Fail)
    /\ WF_vars(StopNative)

-----------------------------------------------------------------------------
(* Properties                                                              *)

Requests == [state : {"idle", "asking", "ok"}, op : Ops \union {"none"},
             id : TabIds \union {None}, number : Numbers \union {None}]

\* The state has the types of the two programs' variables and of the protocol.
TypeOK ==
    /\ tabs \in Seq(TabIds) /\ activeTabId \in TabIds
    /\ request \in [Callers -> Requests]
    /\ waiting \in Seq(Callers) /\ current \in Callers \union {None}
    /\ stdin \in Seq(Command) /\ stdout \in Seq(Reply)
    /\ native \in [tabs : SUBSET TabIds, active : TabIds]
    /\ {running, ended, exited, closing, missed} \subseteq BOOLEAN

Listed == {tabs[i] : i \in DOMAIN tabs}

\* Both sides always have one to MaximumTabs tabs, and the active one is one of
\* them: neither a late command nor a late reply breaks the bounds that
\* docs/session-image.md states and DockerEngineRuntime.listTabs demands.
OneToMaximumTabs ==
    /\ Len(tabs) \in 1..MaximumTabs /\ Cardinality(Listed) = Len(tabs)
    /\ activeTabId \in Listed
    /\ Cardinality(native.tabs) \in 1..MaximumTabs
    /\ native.active \in native.tabs

\* When no command was given up and none is on its way, what the API lists is
\* what the native runtime has, in particular after commands that it rejected.
SameTabs ==
    ~missed /\ current = None => Listed = native.tabs /\ activeTabId = native.active

\* The two tab lists are sound: each within its bounds, and the same wherever
\* the supervisor has not given up a command.
TabsAreSound == OneToMaximumTabs /\ SameTabs

AnsweredOk(c) == request[c].state = "asking" /\ request'[c].state = "ok"

\* A creation, a removal and the activation of a tab that the controller does not
\* take for the active one, once answered with success, have been executed and are
\* not undone, also when earlier commands were given up: the created or activated
\* tab is shown, the removed one is gone.  A late reply is never taken for another
\* command's.  (The activation of activeTabId is answered without a command: see
\* ActivationSelects.  A navigation changes nothing that is modelled.)
SuccessIsReal ==
    [][\A c \in Callers : AnsweredOk(c) =>
          /\ \/ request[c].op = "create"
             \/ request[c].op = "activate" /\ request[c].id # activeTabId
             => native.active = request[c].id
          /\ request[c].op = "remove" => request[c].id \notin native.tabs]_vars

\* Every operation is answered, also when the native runtime hangs or exits, unless
\* a write to a runtime that has ended unseen takes the supervisor down with it.
OperationsEnd == \A c \in Callers : (c \in Asking) ~> (c \notin Asking \/ ended)

\* A shutdown ends the native process although operations are still chained: each of
\* them is answered, or given up by its timer, before SHUTDOWN is written.
ShutdownCompletes == closing ~> ~running

\* README.md: PUT .../active selects the tab whose video feeds the session
\* stream.
ActivationSelects ==
    [][\A c \in Callers : AnsweredOk(c) /\ request[c].op = "activate" =>
          native.active = request[c].id]_vars
=============================================================================
