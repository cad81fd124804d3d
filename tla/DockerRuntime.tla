---------------------------- MODULE DockerRuntime ----------------------------
(***************************************************************************)
(* DockerEngineRuntime (src/src/runtime/docker-engine-runtime.ts): the     *)
(* creation of a session's network and container with its rollback, their  *)
(* removal, and the reconciliation that runs before the control plane      *)
(* listens (src/src/main.ts).                                              *)
(*                                                                         *)
(* Every call to the Docker Engine is one step here, with the outcomes     *)
(* that the transport can report: it succeeded, the engine refused it, or  *)
(* no answer came in time.  In the last case the request stays with the    *)
(* engine, which may still execute it at any later moment; the same holds  *)
(* for the calls in progress when the control plane crashes.  A response   *)
(* that is cut off is not reported at all: the job then waits for ever, as *)
(* does a start-up, which simply takes no further step here.               *)
(***************************************************************************)
EXTENDS Naturals, FiniteSets

CONSTANTS
    SessionIds,
    HealthAttempts      \* startupHealthAttempts

ASSUME HealthAssumption == HealthAttempts \in Nat \ {0}

VARIABLES
    job,         \* what the control plane does, or last did, for a session
    container,   \* external: the session's container in the engine
    networks,    \* external: sessions whose network exists in the engine
    late,        \* external: requests that the engine may still execute
    plane,       \* the control plane: reconciling, listening or down
    todo,        \* resources that reconcile still has to remove
    broken,      \* some removal of this reconciliation failed
    unseen,      \* resources whose creation the control plane never learned of
    faults       \* sessions for which a removal failed in the engine

engine == <<container, networks, late>>
boot   == <<plane, todo, broken>>
ghosts == <<unseen, faults>>
vars   == <<job, engine, boot, ghosts>>

\* What create and destroy are about to ask the engine.
Creating   == {"network", "container", "start", "health"}
Undoing    == {"undoContainer", "undoNetwork"}
Destroying == {"rmContainer", "rmNetwork"}
Busy       == Creating \union Undoing \union Destroying
Steps      == Busy \union {"none", "created", "createFailed", "destroyed",
                           "destroyFailed", "createHung", "destroyHung", "forgotten"}

Jobs == [at : Steps, containerCreated : BOOLEAN, failure : BOOLEAN, attempt : 1..HealthAttempts]

NewJob == [at |-> "none", containerCreated |-> FALSE, failure |-> FALSE, attempt |-> 1]

Requests == {"network", "container", "start", "rmContainer", "rmNetwork"}

\* The request behind each step; reading the health changes nothing.
RequestOf(at) ==
    CASE at \in {"undoContainer", "rmContainer"} -> {"rmContainer"}
      [] at \in {"undoNetwork", "rmNetwork"}     -> {"rmNetwork"}
      [] at \in {"network", "container", "start"} -> {at}
      [] OTHER                                   -> {}

-----------------------------------------------------------------------------
(* The engine                                                              *)

\* A container is created in its network, only a container that exists starts,
\* and the network of a running container cannot be removed.
Applies(s, request) ==
    CASE request = "network"     -> s \notin networks
      [] request = "container"   -> container[s] = "none" /\ s \in networks
      [] request = "start"       -> container[s] # "none"
      [] request = "rmContainer" -> TRUE
      [] request = "rmNetwork"   -> container[s] # "running"

Effect(s, request) ==
    /\ container' = CASE request = "container"   -> [container EXCEPT ![s] = "created"]
                      [] request = "start"       -> [container EXCEPT ![s] = "running"]
                      [] request = "rmContainer" -> [container EXCEPT ![s] = "none"]
                      [] OTHER                   -> container
    /\ networks' = CASE request = "network"   -> networks \union {s}
                     [] request = "rmNetwork" -> networks \ {s}
                     [] OTHER                 -> networks

\* The outcomes of a call, as the caller sees them.
Succeeds(s, request) == Applies(s, request) /\ Effect(s, request) /\ UNCHANGED late
Refused              == UNCHANGED engine
TimesOut(s, request) == late' = late \union {<<s, request>>} /\ UNCHANGED <<container, networks>>
Fails(s, request)    == Refused \/ TimesOut(s, request)

\* A refusal that is not a fault: the engine keeps the network of a container
\* that is running.
Rejects(s, request) == ~Applies(s, request) /\ Refused

-----------------------------------------------------------------------------
(* create                                                                  *)

To(s, at) == job' = [job EXCEPT ![s].at = at]

\* A creation that failed after the network exists rolls back: the container
\* first, if it was created.
Rollback(s) ==
    job' = [job EXCEPT ![s].at = IF job[s].containerCreated THEN "undoContainer"
                                 ELSE "undoNetwork"]

Create(s) ==
    /\ plane = "listening" /\ job[s].at = "none"
    /\ To(s, "network")
    /\ UNCHANGED <<engine, boot, ghosts>>

\* Nothing is rolled back when the first call fails.
CreateNetwork(s) ==
    /\ job[s].at = "network"
    /\ \/ Succeeds(s, "network") /\ To(s, "container")
       \/ Fails(s, "network") /\ To(s, "createFailed")
    /\ UNCHANGED <<boot, ghosts>>

\* Defect variant: a container whose id did not come back is not rolled back.
CreateContainer_IdOnly(s) ==
    /\ job[s].at = "container"
    /\ \/ /\ Succeeds(s, "container")
          /\ \/ job' = [job EXCEPT ![s].at = "start", ![s].containerCreated = TRUE]
             \/ To(s, "undoNetwork")
       \/ Fails(s, "container") /\ Rollback(s)
    /\ UNCHANGED <<boot, ghosts>>

\* The response may lack an id: the container is then rolled back by its name.
CreateContainer(s) ==
    /\ job[s].at = "container"
    /\ \/ /\ Succeeds(s, "container")
          /\ \E next \in {"start", "undoContainer"} :
                job' = [job EXCEPT ![s].at = next, ![s].containerCreated = TRUE]
       \/ Fails(s, "container") /\ Rollback(s)
    /\ UNCHANGED <<boot, ghosts>>

StartContainer(s) ==
    /\ job[s].at = "start"
    /\ \/ Succeeds(s, "start") /\ To(s, "health")
       \/ Fails(s, "start") /\ Rollback(s)
    /\ UNCHANGED <<boot, ghosts>>

\* Defect variant: the attempts are not counted.
WaitForHealthy_Forever(s) ==
    /\ job[s].at = "health"
    /\ container[s] = "running" /\ To(s, "created")
    /\ UNCHANGED <<engine, boot, ghosts>>

\* waitForHealthy: a poll finds the container healthy, still starting, or
\* neither (unhealthy, no health check, no published port, a failed call).
WaitForHealthy(s) ==
    /\ job[s].at = "health"
    /\ \/ container[s] = "running" /\ To(s, "created")
       \/ job[s].attempt < HealthAttempts /\ job' = [job EXCEPT ![s].attempt = @ + 1]
       \/ Rollback(s)
    /\ UNCHANGED <<engine, boot, ghosts>>

\* A failed removal is remembered and does not stop the rollback.
Removal(s, request, next) ==
    \/ /\ Succeeds(s, request) /\ To(s, next)
       /\ UNCHANGED faults
    \/ /\ Fails(s, request)
       /\ job' = [job EXCEPT ![s].at = next, ![s].failure = TRUE]
       /\ faults' = faults \union {s}
    \/ /\ Rejects(s, request)
       /\ job' = [job EXCEPT ![s].at = next, ![s].failure = TRUE]
       /\ UNCHANGED faults

UndoContainer(s) ==
    /\ job[s].at = "undoContainer"
    /\ Removal(s, "rmContainer", "undoNetwork")
    /\ UNCHANGED <<boot, unseen>>

UndoNetwork(s) ==
    /\ job[s].at = "undoNetwork"
    /\ Removal(s, "rmNetwork", "createFailed")
    /\ UNCHANGED <<boot, unseen>>

-----------------------------------------------------------------------------
(* destroy, which a later burn may call again                              *)

Destroy(s) ==
    /\ plane = "listening" /\ job[s].at \in {"created", "destroyFailed", "destroyHung"}
    /\ job' = [job EXCEPT ![s].at = "rmContainer", ![s].failure = FALSE]
    /\ UNCHANGED <<engine, boot, ghosts>>

RemoveContainer(s) ==
    /\ job[s].at = "rmContainer"
    /\ Removal(s, "rmContainer", "rmNetwork")
    /\ UNCHANGED <<boot, unseen>>

\* Defect variant: only the removal of the network decides.
RemoveNetwork_LastOnly(s) ==
    /\ job[s].at = "rmNetwork"
    /\ \/ Succeeds(s, "rmNetwork") /\ To(s, "destroyed") /\ UNCHANGED faults
       \/ Fails(s, "rmNetwork") /\ To(s, "destroyFailed") /\ faults' = faults \union {s}
    /\ UNCHANGED <<boot, unseen>>

RemoveNetwork(s) ==
    /\ job[s].at = "rmNetwork"
    /\ \/ /\ Succeeds(s, "rmNetwork")
          /\ To(s, IF job[s].failure THEN "destroyFailed" ELSE "destroyed")
          /\ UNCHANGED faults
       \/ /\ Fails(s, "rmNetwork") \/ Rejects(s, "rmNetwork")
          /\ To(s, "destroyFailed")
          /\ faults' = faults \union {s}
    /\ UNCHANGED <<boot, unseen>>

-----------------------------------------------------------------------------
(* A response that is cut off                                              *)

\* The engine closes the connection in the middle of a response.  Only "data" and
\* "end" of a response are listened for, so the promise of the call is never
\* settled and its job goes no further.  The engine has done, or refused, what it
\* was asked; a start or a removal that it has done has no body to be cut off.
CutOff(s) ==
    /\ job[s].at \in Busy
    /\ \/ UNCHANGED engine
       \/ \E q \in RequestOf(job[s].at) \intersect {"network", "container"} : Succeeds(s, q)
    /\ To(s, IF job[s].at \in Destroying THEN "destroyHung" ELSE "createHung")
    /\ UNCHANGED <<boot, ghosts>>

-----------------------------------------------------------------------------
(* Start-up                                                                *)

Resources == SessionIds \X {"container", "network"}

Existing ==
    {r \in Resources : IF r[2] = "container" THEN container[r[1]] # "none" ELSE r[1] \in networks}

OfKind(S, kind) == {r \in S : r[2] = kind}

\* main starts: reconcile lists the instance's containers, or the call fails and
\* the process ends.
Boot ==
    /\ plane = "down"
    /\ plane' = "containers" /\ todo' = OfKind(Existing, "container") /\ broken' = FALSE
    /\ UNCHANGED <<job, engine, ghosts>>

\* The removal of one listed resource: a failure is counted and the loop goes on.
ReconcileRemoves(s, kind, request) ==
    /\ <<s, kind>> \in todo
    /\ todo' = todo \ {<<s, kind>>}
    /\ \/ Succeeds(s, request) /\ UNCHANGED broken
       \/ (Fails(s, request) \/ Rejects(s, request)) /\ broken' = TRUE
    /\ UNCHANGED <<job, plane, ghosts>>

ReconcileContainer(s) == plane = "containers" /\ ReconcileRemoves(s, "container", "rmContainer")
ReconcileNetwork(s)   == plane = "networks" /\ ReconcileRemoves(s, "network", "rmNetwork")

\* The networks are listed when the containers are done.
ListNetworks ==
    /\ plane = "containers" /\ todo = {}
    /\ plane' = "networks" /\ todo' = OfKind(Existing, "network")
    /\ UNCHANGED <<job, engine, broken, ghosts>>

\* Defect variant: main listens although something could not be removed.
Listen_Regardless ==
    /\ plane = "networks" /\ todo = {}
    /\ plane' = "listening"
    /\ UNCHANGED <<job, engine, todo, broken, ghosts>>

\* app.listen, only when reconcile did not throw.
Listen ==
    /\ plane = "networks" /\ todo = {} /\ ~broken
    /\ plane' = "listening"
    /\ UNCHANGED <<job, engine, todo, broken, ghosts>>

\* The process ends: by a crash, by a failed list or because reconcile threw.
\* The calls in progress stay with the engine.
Crash ==
    /\ plane # "down"
    /\ plane' = "down" /\ todo' = {} /\ broken' = FALSE
    /\ job' = [s \in SessionIds |->
                  IF job[s].at = "none" THEN job[s] ELSE [NewJob EXCEPT !.at = "forgotten"]]
    /\ late' = late \union {r \in SessionIds \X Requests : r[2] \in RequestOf(job[r[1]].at)}
    /\ UNCHANGED <<container, networks, ghosts>>

-----------------------------------------------------------------------------
(* The engine on its own                                                   *)

\* A request nobody waits for is executed.
LateExecutes(s, request) ==
    /\ <<s, request>> \in late /\ Applies(s, request)
    /\ late' = late \ {<<s, request>>}
    /\ Effect(s, request)
    /\ unseen' = unseen \union ({<<s, request>>} \intersect Resources)
    /\ UNCHANGED <<job, boot, faults>>

LateDropped(s, request) ==
    /\ <<s, request>> \in late
    /\ late' = late \ {<<s, request>>}
    /\ UNCHANGED <<job, container, networks, boot, ghosts>>

ContainerExits(s) ==
    /\ container[s] = "running"
    /\ container' = [container EXCEPT ![s] = "exited"]
    /\ UNCHANGED <<job, networks, late, boot, ghosts>>

-----------------------------------------------------------------------------
Init ==
    /\ job = [s \in SessionIds |-> NewJob]
    /\ container = [s \in SessionIds |-> "none"]
    /\ networks = {} /\ late = {}
    /\ plane = "down" /\ todo = {} /\ broken = FALSE
    /\ unseen = {} /\ faults = {}

JobStep(s) ==
    \/ CreateNetwork(s)
    \/ CreateContainer(s)
    \/ StartContainer(s)
    \/ WaitForHealthy(s)
    \/ UndoContainer(s)
    \/ UndoNetwork(s)
    \/ RemoveContainer(s)
    \/ RemoveNetwork(s)

Next ==
    \/ \E s \in SessionIds :
          \/ Create(s) \/ Destroy(s) \/ JobStep(s) \/ CutOff(s)
          \/ ReconcileContainer(s) \/ ReconcileNetwork(s)
          \/ \E q \in Requests : LateExecutes(s, q) \/ LateDropped(s, q)
          \/ ContainerExits(s)
    \/ Boot \/ ListNetworks \/ Listen \/ Crash

Spec == Init /\ [][Next]_vars

\* A request whose response has not begun is bounded by the timeout of the
\* transport, and a response that has begun ends or is cut off, which disables the
\* job for good.
FairSpec == Spec /\ \A s \in SessionIds : WF_vars(JobStep(s))

-----------------------------------------------------------------------------
(* Properties                                                              *)

\* The state has the types of the code's variables and of the engine's objects.
TypeOK ==
    /\ job \in [SessionIds -> Jobs]
    /\ container \in [SessionIds -> {"none", "created", "running", "exited"}]
    /\ networks \subseteq SessionIds
    /\ late \subseteq SessionIds \X Requests
    /\ plane \in {"down", "containers", "networks", "listening"}
    /\ todo \subseteq Resources
    /\ broken \in BOOLEAN
    /\ unseen \subseteq Resources
    /\ faults \subseteq SessionIds

Left(s) == {r \in Existing : r[1] = s}

\* A creation that failed leaves something behind only when the engine failed to
\* remove it, or made it after the control plane had stopped waiting: every
\* other way in which create can fail, at whichever call, is rolled back.
RollbackComplete ==
    \A s \in SessionIds : job[s].at = "createFailed" /\ s \notin faults =>
        Left(s) \subseteq unseen

\* A destroy that reported success removed the container and the network, also
\* when it was the repetition of one that had failed half-way.
DestroyedLeavesNothing ==
    \A s \in SessionIds : job[s].at = "destroyed" => Left(s) = {}

\* When the control plane begins to listen, nothing of an earlier process is
\* left but what the engine made for a request nobody waited for any more.
ListensClean ==
    [][plane' = "listening" /\ plane # "listening" => Existing \subseteq unseen]_vars

\* Every creation and destruction comes to an end, for the health poll is bounded,
\* or is left waiting for a response that was cut off.
JobsEnd == \A s \in SessionIds : (job[s].at \in Busy) ~> (job[s].at \notin Busy)

\* README.md: a creation is transactional, partial network and container starts
\* are rolled back.
CreateTransactional ==
    \A s \in SessionIds : job[s].at = "createFailed" /\ s \notin faults => Left(s) = {}
=============================================================================
