------------------------ MODULE DockerRuntimeProofs ------------------------
(***************************************************************************)
(* Theorems about DockerRuntime, for any number of sessions and of health  *)
(* polls: what a failed creation, a destruction and a reconciliation leave *)
(* in the engine.                                                          *)
(***************************************************************************)
EXTENDS DockerRuntime, TLAPS

\* What the control plane has made and nobody has removed.
OwnsContainer(s) == container[s] # "none" /\ <<s, "container">> \notin unseen
OwnsNetwork(s)   == s \in networks /\ <<s, "network">> \notin unseen

WithContainer == {"start", "health", "undoContainer", "created", "destroyed",
                  "destroyFailed", "destroyHung"} \union Destroying

\* Jobs of which the control plane knows nothing, or which it will not continue.
Lost == {"createHung", "forgotten"}

\* What the position of a job tells of its flags and of the late requests: the
\* engine executes a late creation only for a job that has given it up.
Positions(s) ==
    LET j == job[s] IN
    /\ plane # "listening" => j.at \in {"none", "forgotten"}
    /\ j.at \in {"none", "network", "container"} =>
          ~j.containerCreated /\ <<s, "container">> \notin late
    /\ j.at \in WithContainer => j.containerCreated
    /\ j.at \notin Lost /\ j.containerCreated => <<s, "container">> \notin late
    /\ j.at \notin Lost /\ ~j.containerCreated =>
          <<s, "start">> \notin late /\ container[s] # "running"
    /\ j.at \notin {"createFailed"} \union Lost => <<s, "network">> \notin late

\* What it tells of the session's resources.
Leavings(s) ==
    LET j == job[s] IN
    /\ j.at \notin Lost /\ ~j.containerCreated => ~OwnsContainer(s)
    /\ j.at \in {"none", "network"} => ~OwnsNetwork(s)
    /\ j.at = "undoNetwork" /\ j.containerCreated /\ s \notin faults => container[s] = "none"
    /\ j.at = "createFailed" /\ s \notin faults => ~OwnsContainer(s) /\ ~OwnsNetwork(s)
    /\ j.at = "rmNetwork" /\ ~j.failure => container[s] = "none"
    /\ j.at = "destroyed" => container[s] = "none" /\ s \notin networks

\* What reconcile has not listed, or has removed, is not there.
Reconciled(s) ==
    /\ plane = "containers" /\ ~broken /\ OwnsContainer(s) => <<s, "container">> \in todo
    /\ plane = "networks" /\ ~broken =>
          ~OwnsContainer(s) /\ (OwnsNetwork(s) => <<s, "network">> \in todo)

Held(s) == Positions(s) /\ Leavings(s) /\ Reconciled(s)

IInv == TypeOK /\ \A s \in SessionIds : Held(s)

LEMMA InitHolds == Init => IInv
<1> SUFFICES ASSUME Init PROVE IInv
  OBVIOUS
<1>1. NewJob \in Jobs
  BY HealthAssumption DEF NewJob, Jobs, Steps
<1>2. TypeOK
  BY <1>1 DEF Init, TypeOK
<1>3. ASSUME NEW s \in SessionIds PROVE Held(s)
  <2>1. /\ job[s].at = "none" /\ job[s].containerCreated = FALSE
        /\ container[s] = "none" /\ s \notin networks /\ plane = "down"
        /\ late = {}
    BY DEF Init, NewJob
  <2> QED
    BY <2>1 DEF Held, Positions, Leavings, Reconciled, OwnsContainer, OwnsNetwork,
                WithContainer, Lost, Destroying
<1> QED
  BY <1>2, <1>3 DEF IInv

-----------------------------------------------------------------------------
(* What a step does to the session it is about, and to the others.         *)

Same(t) ==
    /\ job'[t] = job[t] /\ container'[t] = container[t]
    /\ t \in networks' <=> t \in networks
    /\ \A q \in Requests : <<t, q>> \in late' <=> <<t, q>> \in late
    /\ \A kind \in {"container", "network"} : <<t, kind>> \in unseen' <=> <<t, kind>> \in unseen
    /\ t \in faults' <=> t \in faults

LEMMA SameKeeps ==
    ASSUME NEW t \in SessionIds, Held(t), Same(t), plane' = plane,
           <<t, "container">> \in todo => <<t, "container">> \in todo',
           <<t, "network">> \in todo => <<t, "network">> \in todo',
           broken => broken'
    PROVE  Held(t)'
<1>1. /\ <<t, "container">> \in late' <=> <<t, "container">> \in late
      /\ <<t, "network">> \in late' <=> <<t, "network">> \in late
      /\ <<t, "start">> \in late' <=> <<t, "start">> \in late
  BY DEF Same, Requests
<1>2. (OwnsContainer(t)' <=> OwnsContainer(t)) /\ (OwnsNetwork(t)' <=> OwnsNetwork(t))
  BY DEF Same, OwnsContainer, OwnsNetwork
<1>3. Positions(t)'
  BY <1>1 DEF Held, Positions, Same
<1>4. Leavings(t)'
  BY <1>2 DEF Held, Leavings, Same
<1>5. Reconciled(t)'
  BY <1>2 DEF Held, Reconciled
<1> QED
  BY <1>3, <1>4, <1>5 DEF Held

\* What a request does, for its session and the others.
LEMMA EffectIs ==
    ASSUME TypeOK, NEW s \in SessionIds, NEW q \in Requests, Effect(s, q)
    PROVE  /\ container' \in [SessionIds -> {"none", "created", "running", "exited"}]
           /\ networks' \subseteq SessionIds
           /\ container'[s] = CASE q = "container"   -> "created"
                                [] q = "start"       -> "running"
                                [] q = "rmContainer" -> "none"
                                [] OTHER             -> container[s]
           /\ s \in networks' <=> q = "network" \/ (q # "rmNetwork" /\ s \in networks)
           /\ \A t \in SessionIds \ {s} : /\ container'[t] = container[t]
                                          /\ t \in networks' <=> t \in networks
<1>1. q \in {"network", "container", "start", "rmContainer", "rmNetwork"}
  BY DEF Requests
<1>2. CASE q = "network"
  BY <1>2 DEF Effect, TypeOK
<1>3. CASE q = "container"
  BY <1>3 DEF Effect, TypeOK
<1>4. CASE q = "start"
  BY <1>4 DEF Effect, TypeOK
<1>5. CASE q = "rmContainer"
  BY <1>5 DEF Effect, TypeOK
<1>6. CASE q = "rmNetwork"
  BY <1>6 DEF Effect, TypeOK
<1> QED
  BY <1>1, <1>2, <1>3, <1>4, <1>5, <1>6

\* The outcomes of a call, as one fact: the other sessions have what they had, and
\* this one gains at most the late request.
LEMMA CallIs ==
    ASSUME TypeOK, NEW s \in SessionIds, NEW q \in Requests,
           Succeeds(s, q) \/ Fails(s, q) \/ Rejects(s, q)
    PROVE  /\ container' \in [SessionIds -> {"none", "created", "running", "exited"}]
           /\ networks' \subseteq SessionIds
           /\ late' \subseteq SessionIds \X Requests
           /\ \A t \in SessionIds \ {s} :
                 /\ container'[t] = container[t] /\ (t \in networks' <=> t \in networks)
                 /\ \A p \in Requests : <<t, p>> \in late' <=> <<t, p>> \in late
           /\ \A p \in Requests \ {q} : <<s, p>> \in late' <=> <<s, p>> \in late
           /\ Fails(s, q) \/ Rejects(s, q) => UNCHANGED <<container, networks>>
<1>1. CASE Succeeds(s, q)
  <2>1. Effect(s, q) /\ late' = late
    BY <1>1 DEF Succeeds
  <2>2. /\ container' \in [SessionIds -> {"none", "created", "running", "exited"}]
        /\ networks' \subseteq SessionIds
        /\ \A t \in SessionIds \ {s} : /\ container'[t] = container[t]
                                       /\ t \in networks' <=> t \in networks
    BY <2>1, EffectIs
  <2>3. Fails(s, q) \/ Rejects(s, q) => UNCHANGED <<container, networks>>
    BY DEF Fails, Rejects, Refused, TimesOut, engine
  <2> QED
    BY <2>1, <2>2, <2>3 DEF TypeOK
<1>2. CASE Fails(s, q) \/ Rejects(s, q)
  <2>1. UNCHANGED <<container, networks>> /\ (late' = late \/ late' = late \union {<<s, q>>})
    BY <1>2 DEF Fails, Rejects, Refused, TimesOut, engine
  <2> QED
    BY <2>1 DEF TypeOK
<1> QED
  BY <1>1, <1>2

\* A job changes for one session.
LEMMA JobIs ==
    ASSUME TypeOK, NEW s \in SessionIds, NEW j \in Jobs, job' = [job EXCEPT ![s] = j]
    PROVE  /\ job' \in [SessionIds -> Jobs] /\ job'[s] = j
           /\ \A t \in SessionIds \ {s} : job'[t] = job[t]
BY DEF TypeOK

LEMMA ToIs ==
    ASSUME TypeOK, NEW s \in SessionIds, NEW at \in Steps, To(s, at)
    PROVE  /\ job' \in [SessionIds -> Jobs]
           /\ \A t \in SessionIds \ {s} : job'[t] = job[t]
           /\ job'[s].at = at /\ job'[s].containerCreated = job[s].containerCreated
           /\ job'[s].failure = job[s].failure
<1> DEFINE j == [job[s] EXCEPT !.at = at]
<1>1. j \in Jobs /\ j.at = at /\ j.containerCreated = job[s].containerCreated
      /\ j.failure = job[s].failure
  BY DEF TypeOK, Jobs
<1>2. job' = [job EXCEPT ![s] = j]
  BY DEF To, TypeOK
<1> HIDE DEF j
<1> QED
  BY <1>1, <1>2, JobIs

\* A step of a job, once its own session is seen to.
LEMMA CallStep ==
    ASSUME IInv, NEW s \in SessionIds, job[s].at \in Busy,
           \/ \E q \in Requests : Succeeds(s, q) \/ Fails(s, q) \/ Rejects(s, q)
           \/ UNCHANGED engine,
           job' \in [SessionIds -> Jobs], \A t \in SessionIds \ {s} : job'[t] = job[t],
           UNCHANGED <<boot, unseen>>, faults' = faults \/ faults' = faults \union {s},
           Positions(s)', Leavings(s)'
    PROVE  IInv'
<1>0. TypeOK /\ plane = "listening"
  <2>1. Positions(s) /\ TypeOK
    BY DEF IInv, Held
  <2> QED
    BY <2>1 DEF Positions, Busy, Creating, Undoing, Destroying, TypeOK
<1>1. /\ container' \in [SessionIds -> {"none", "created", "running", "exited"}]
      /\ networks' \subseteq SessionIds
      /\ late' \subseteq SessionIds \X Requests
      /\ \A t \in SessionIds \ {s} :
            /\ container'[t] = container[t] /\ (t \in networks' <=> t \in networks)
            /\ \A p \in Requests : <<t, p>> \in late' <=> <<t, p>> \in late
  <2>1. CASE UNCHANGED engine
    BY <1>0, <2>1 DEF engine, TypeOK
  <2>2. ASSUME NEW q \in Requests, Succeeds(s, q) \/ Fails(s, q) \/ Rejects(s, q)
        PROVE  /\ container' \in [SessionIds -> {"none", "created", "running", "exited"}]
               /\ networks' \subseteq SessionIds
               /\ late' \subseteq SessionIds \X Requests
               /\ \A t \in SessionIds \ {s} :
                     /\ container'[t] = container[t] /\ (t \in networks' <=> t \in networks)
                     /\ \A p \in Requests : <<t, p>> \in late' <=> <<t, p>> \in late
    BY <1>0, <2>2, CallIs
  <2> QED
    BY <2>1, <2>2
<1>2. UNCHANGED <<plane, todo, broken, unseen>>
  BY DEF boot
<1>3. TypeOK'
  BY <1>0, <1>1, <1>2 DEF TypeOK
<1>4. ASSUME NEW t \in SessionIds \ {s} PROVE Held(t)'
  <2>1. Same(t)
    BY <1>1, <1>2 DEF Same
  <2> QED
    BY <1>2, <2>1, SameKeeps DEF IInv
<1>5. Held(s)'
  BY <1>0, <1>2 DEF Held, Reconciled
<1> QED
  BY <1>3, <1>4, <1>5 DEF IInv

\* The effect of each request that is answered.
LEMMA SucceedsIs ==
    ASSUME TypeOK, NEW s \in SessionIds, NEW q \in Requests, Succeeds(s, q)
    PROVE  /\ Applies(s, q) /\ late' = late
           /\ q = "container"   => container'[s] = "created"
           /\ q = "start"       => container'[s] = "running"
           /\ q = "rmContainer" => container'[s] = "none"
           /\ q \in {"network", "rmNetwork"} => container'[s] = container[s]
           /\ q = "rmNetwork"   => s \notin networks'
           /\ q \notin {"network", "rmNetwork"} => (s \in networks' <=> s \in networks)
<1>1. Applies(s, q) /\ late' = late /\ Effect(s, q)
  BY DEF Succeeds
<1> QED
  BY <1>1, EffectIs

LEMMA FailsIs ==
    ASSUME TypeOK, NEW s \in SessionIds, NEW q \in Requests, Fails(s, q) \/ Rejects(s, q)
    PROVE  /\ container' = container /\ networks' = networks
           /\ \A p \in Requests \ {q} : <<s, p>> \in late' <=> <<s, p>> \in late
BY DEF Fails, Rejects, Refused, TimesOut, engine

-----------------------------------------------------------------------------
(* create and destroy                                                      *)

LEMMA CreateNetworkHolds ==
    ASSUME IInv, NEW s \in SessionIds, CreateNetwork(s)
    PROVE  IInv'
<1>0. TypeOK /\ Positions(s) /\ Leavings(s) /\ job[s].at = "network" /\ "network" \in Requests
  BY DEF IInv, Held, CreateNetwork, Requests
<1>1. UNCHANGED <<boot, unseen, faults>>
  BY DEF CreateNetwork, ghosts
<1>2. CASE Succeeds(s, "network") /\ To(s, "container")
  <2>1. /\ job' \in [SessionIds -> Jobs] /\ \A t \in SessionIds \ {s} : job'[t] = job[t]
        /\ job'[s].at = "container" /\ job'[s].containerCreated = job[s].containerCreated
    BY <1>0, <1>2, ToIs DEF Steps, Busy, Creating
  <2>2. late' = late /\ container'[s] = container[s]
    BY <1>0, <1>2, SucceedsIs
  <2>3. Positions(s)' /\ Leavings(s)'
    BY <1>0, <1>1, <2>1, <2>2
       DEF Positions, Leavings, OwnsContainer, OwnsNetwork, WithContainer, Lost, Destroying, boot
  <2> QED
    BY <1>0, <1>1, <1>2, <2>1, <2>3, CallStep DEF Busy, Creating
<1>3. CASE Fails(s, "network") /\ To(s, "createFailed")
  <2>1. /\ job' \in [SessionIds -> Jobs] /\ \A t \in SessionIds \ {s} : job'[t] = job[t]
        /\ job'[s].at = "createFailed" /\ job'[s].containerCreated = job[s].containerCreated
    BY <1>0, <1>3, ToIs DEF Steps
  <2>2. /\ container' = container /\ networks' = networks
        /\ \A p \in Requests \ {"network"} : <<s, p>> \in late' <=> <<s, p>> \in late
    BY <1>0, <1>3, FailsIs
  <2>3. /\ <<s, "container">> \in late' <=> <<s, "container">> \in late
        /\ <<s, "start">> \in late' <=> <<s, "start">> \in late
    BY <2>2 DEF Requests
  <2>4. Positions(s)' /\ Leavings(s)'
    BY <1>0, <1>1, <2>1, <2>2, <2>3
       DEF Positions, Leavings, OwnsContainer, OwnsNetwork, WithContainer, Lost, Destroying, boot,
           Busy, Creating
  <2> QED
    BY <1>0, <1>1, <1>3, <2>1, <2>4, CallStep DEF Busy, Creating
<1> QED
  BY <1>2, <1>3 DEF CreateNetwork

\* A failed creation goes on with its rollback.
LEMMA RollbackIs ==
    ASSUME TypeOK, NEW s \in SessionIds, Rollback(s)
    PROVE  /\ job' \in [SessionIds -> Jobs] /\ \A t \in SessionIds \ {s} : job'[t] = job[t]
           /\ job'[s].at = (IF job[s].containerCreated THEN "undoContainer" ELSE "undoNetwork")
           /\ job'[s].containerCreated = job[s].containerCreated
<1> DEFINE at == IF job[s].containerCreated THEN "undoContainer" ELSE "undoNetwork"
<1>1. To(s, at) /\ at \in Steps
  BY DEF Rollback, To, Steps, Busy, Undoing
<1> HIDE DEF at
<1>2. /\ job' \in [SessionIds -> Jobs] /\ \A t \in SessionIds \ {s} : job'[t] = job[t]
      /\ job'[s].at = at /\ job'[s].containerCreated = job[s].containerCreated
  BY <1>1, ToIs
<1> QED
  BY <1>2 DEF at

\* What a rollback may begin with: its flag says whether there is a container.
LEMMA RollbackHolds ==
    ASSUME IInv, NEW s \in SessionIds, job[s].at \in {"container", "start", "health"},
           Rollback(s), UNCHANGED <<boot, unseen, faults>>,
           \/ UNCHANGED engine
           \/ \E q \in {"container", "start"} : q = job[s].at /\ Fails(s, q)
    PROVE  IInv'
<1>0. TypeOK /\ Positions(s) /\ Leavings(s)
  BY DEF IInv, Held
<1>1. /\ job' \in [SessionIds -> Jobs] /\ \A t \in SessionIds \ {s} : job'[t] = job[t]
      /\ job'[s].at = (IF job[s].containerCreated THEN "undoContainer" ELSE "undoNetwork")
      /\ job'[s].containerCreated = job[s].containerCreated
  BY <1>0, RollbackIs
<1>2. /\ container' = container
      /\ \A p \in Requests : p # job[s].at => (<<s, p>> \in late' <=> <<s, p>> \in late)
  <2>1. CASE UNCHANGED engine
    BY <2>1 DEF engine
  <2>2. ASSUME NEW q \in {"container", "start"}, q = job[s].at, Fails(s, q)
        PROVE  /\ container' = container
               /\ \A p \in Requests : p # job[s].at => (<<s, p>> \in late' <=> <<s, p>> \in late)
    BY <1>0, <2>2, FailsIs DEF Requests
  <2> QED
    BY <2>1, <2>2
<1>3. /\ <<s, "network">> \in late' <=> <<s, "network">> \in late
      /\ job[s].at # "container" => (<<s, "container">> \in late' <=> <<s, "container">> \in late)
      /\ job[s].at # "start" => (<<s, "start">> \in late' <=> <<s, "start">> \in late)
  BY <1>2 DEF Requests
<1>4. plane' = plane /\ plane = "listening"
  BY <1>0 DEF Positions, boot, TypeOK
<1>5. /\ job[s].at = "container" => ~job[s].containerCreated
      /\ job[s].at # "container" => job[s].containerCreated
  BY <1>0 DEF Positions, WithContainer
<1>6. Positions(s)'
  BY <1>0, <1>1, <1>2, <1>3, <1>4, <1>5 DEF Positions, WithContainer, Lost, Destroying
<1>7. Leavings(s)'
  BY <1>0, <1>1, <1>2, <1>5 DEF Leavings, Lost, OwnsContainer, OwnsNetwork
<1>8. \/ UNCHANGED engine
      \/ \E q \in Requests : Succeeds(s, q) \/ Fails(s, q) \/ Rejects(s, q)
  BY DEF Requests
<1> QED
  BY <1>1, <1>6, <1>7, <1>8, CallStep DEF Busy, Creating

LEMMA CreateContainerHolds ==
    ASSUME IInv, NEW s \in SessionIds, CreateContainer(s)
    PROVE  IInv'
<1>0. /\ TypeOK /\ Positions(s) /\ Leavings(s) /\ job[s].at = "container"
      /\ "container" \in Requests
  BY DEF IInv, Held, CreateContainer, Requests
<1>1. UNCHANGED <<boot, unseen, faults>>
  BY DEF CreateContainer, ghosts
<1>2. ASSUME NEW next \in {"start", "undoContainer"}, Succeeds(s, "container"),
             job' = [job EXCEPT ![s].at = next, ![s].containerCreated = TRUE]
      PROVE  IInv'
  <2> DEFINE j == [job[s] EXCEPT !.at = next, !.containerCreated = TRUE]
  <2>1. j \in Jobs /\ j.at = next /\ j.containerCreated = TRUE /\ job' = [job EXCEPT ![s] = j]
    BY <1>0, <1>2 DEF TypeOK, Jobs, Steps, Busy, Creating, Undoing
  <2> HIDE DEF j
  <2>2. /\ job' \in [SessionIds -> Jobs] /\ \A t \in SessionIds \ {s} : job'[t] = job[t]
        /\ job'[s].at = next /\ job'[s].containerCreated = TRUE
    BY <1>0, <2>1, JobIs
  <2>3. late' = late
    BY <1>0, <1>2, SucceedsIs
  <2>4. Positions(s)'
    BY <1>0, <1>1, <2>2, <2>3 DEF Positions, boot, WithContainer, Lost, Destroying
  <2>5. Leavings(s)'
    BY <2>2 DEF Leavings, Lost
  <2> QED
    BY <1>0, <1>1, <1>2, <2>2, <2>4, <2>5, CallStep DEF Busy, Creating
<1>3. CASE Fails(s, "container") /\ Rollback(s)
  BY <1>0, <1>1, <1>3, RollbackHolds
<1> QED
  BY <1>2, <1>3 DEF CreateContainer

LEMMA StartContainerHolds ==
    ASSUME IInv, NEW s \in SessionIds, StartContainer(s)
    PROVE  IInv'
<1>0. /\ TypeOK /\ Positions(s) /\ Leavings(s) /\ job[s].at = "start" /\ "start" \in Requests
  BY DEF IInv, Held, StartContainer, Requests
<1>1. UNCHANGED <<boot, unseen, faults>>
  BY DEF StartContainer, ghosts
<1>2. CASE Succeeds(s, "start") /\ To(s, "health")
  <2>1. /\ job' \in [SessionIds -> Jobs] /\ \A t \in SessionIds \ {s} : job'[t] = job[t]
        /\ job'[s].at = "health" /\ job'[s].containerCreated = job[s].containerCreated
    BY <1>0, <1>2, ToIs DEF Steps, Busy, Creating
  <2>2. late' = late /\ job[s].containerCreated
    BY <1>0, <1>2, SucceedsIs DEF Positions, WithContainer
  <2>3. Positions(s)'
    BY <1>0, <1>1, <2>1, <2>2 DEF Positions, boot, WithContainer, Lost, Destroying
  <2>4. Leavings(s)'
    BY <2>1, <2>2 DEF Leavings, Lost
  <2> QED
    BY <1>0, <1>1, <1>2, <2>1, <2>3, <2>4, CallStep DEF Busy, Creating
<1>3. CASE Fails(s, "start") /\ Rollback(s)
  BY <1>0, <1>1, <1>3, RollbackHolds
<1> QED
  BY <1>2, <1>3 DEF StartContainer

LEMMA WaitForHealthyHolds ==
    ASSUME IInv, NEW s \in SessionIds, WaitForHealthy(s)
    PROVE  IInv'
<1>0. TypeOK /\ Positions(s) /\ Leavings(s) /\ job[s].at = "health"
  BY DEF IInv, Held, WaitForHealthy
<1>1. UNCHANGED <<engine, boot, unseen, faults>>
  BY DEF WaitForHealthy, ghosts
<1>2. ASSUME NEW j \in Jobs, job' = [job EXCEPT ![s] = j], j.at \in {"created", "health"},
             j.containerCreated = job[s].containerCreated
      PROVE  IInv'
  <2>1. /\ job' \in [SessionIds -> Jobs] /\ \A t \in SessionIds \ {s} : job'[t] = job[t]
        /\ job'[s] = j
    BY <1>0, <1>2, JobIs
  <2>2. job[s].containerCreated
    BY <1>0 DEF Positions, WithContainer
  <2>3. Positions(s)'
    BY <1>0, <1>1, <1>2, <2>1, <2>2 DEF Positions, boot, engine, WithContainer, Lost, Destroying
  <2>4. Leavings(s)'
    BY <1>2, <2>1, <2>2 DEF Leavings, Lost
  <2> QED
    BY <1>0, <1>1, <2>1, <2>3, <2>4, CallStep DEF Busy, Creating
<1>3. CASE To(s, "created")
  <2> DEFINE j == [job[s] EXCEPT !.at = "created"]
  <2>1. /\ j \in Jobs /\ j.at = "created" /\ j.containerCreated = job[s].containerCreated
        /\ job' = [job EXCEPT ![s] = j]
    BY <1>0, <1>3 DEF To, TypeOK, Jobs, Steps
  <2> QED
    BY <1>2, <2>1
<1>4. CASE job[s].attempt < HealthAttempts /\ job' = [job EXCEPT ![s].attempt = @ + 1]
  <2> DEFINE j == [job[s] EXCEPT !.attempt = @ + 1]
  <2>1. job[s] \in Jobs /\ job[s].attempt + 1 \in 1..HealthAttempts
    BY <1>0, <1>4, HealthAssumption DEF TypeOK, Jobs
  <2>2. /\ j \in Jobs /\ j.at = "health" /\ j.containerCreated = job[s].containerCreated
        /\ job' = [job EXCEPT ![s] = j]
    BY <1>0, <1>4, <2>1 DEF TypeOK, Jobs
  <2> QED
    BY <1>2, <2>2
<1>5. CASE Rollback(s)
  BY <1>0, <1>1, <1>5, RollbackHolds
<1> QED
  BY <1>3, <1>4, <1>5 DEF WaitForHealthy

\* A removal: the job goes on in any case, and remembers a failure.
LEMMA RemovalIs ==
    ASSUME TypeOK, NEW s \in SessionIds, NEW q \in Requests, NEW next \in Steps,
           Removal(s, q, next)
    PROVE  /\ job' \in [SessionIds -> Jobs] /\ \A t \in SessionIds \ {s} : job'[t] = job[t]
           /\ job'[s].at = next /\ job'[s].containerCreated = job[s].containerCreated
           /\ \/ Succeeds(s, q) /\ job'[s].failure = job[s].failure /\ faults' = faults
              \/ Fails(s, q) /\ job'[s].failure = TRUE /\ faults' = faults \union {s}
              \/ Rejects(s, q) /\ job'[s].failure = TRUE /\ faults' = faults
<1>1. CASE Succeeds(s, q) /\ To(s, next) /\ UNCHANGED faults
  BY <1>1, ToIs
<1>2. CASE /\ \/ Fails(s, q) /\ faults' = faults \union {s}
              \/ Rejects(s, q) /\ UNCHANGED faults
           /\ job' = [job EXCEPT ![s].at = next, ![s].failure = TRUE]
  <2> DEFINE j == [job[s] EXCEPT !.at = next, !.failure = TRUE]
  <2>1. /\ j \in Jobs /\ j.at = next /\ j.containerCreated = job[s].containerCreated
        /\ j.failure = TRUE /\ job' = [job EXCEPT ![s] = j]
    BY <1>2 DEF TypeOK, Jobs
  <2> HIDE DEF j
  <2>2. /\ job' \in [SessionIds -> Jobs] /\ \A t \in SessionIds \ {s} : job'[t] = job[t]
        /\ job'[s] = j
    BY <2>1, JobIs
  <2> QED
    BY <1>2, <2>1, <2>2
<1> QED
  BY <1>1, <1>2 DEF Removal

LEMMA UndoContainerHolds ==
    ASSUME IInv, NEW s \in SessionIds, UndoContainer(s)
    PROVE  IInv'
<1>0. /\ TypeOK /\ Positions(s) /\ Leavings(s) /\ job[s].at = "undoContainer"
      /\ "rmContainer" \in Requests /\ UNCHANGED <<boot, unseen>>
  BY DEF IInv, Held, UndoContainer, Requests
<1>1. /\ job' \in [SessionIds -> Jobs] /\ \A t \in SessionIds \ {s} : job'[t] = job[t]
      /\ job'[s].at = "undoNetwork" /\ job'[s].containerCreated = job[s].containerCreated
      /\ \/ Succeeds(s, "rmContainer") /\ faults' = faults
         \/ Fails(s, "rmContainer") /\ faults' = faults \union {s}
         \/ Rejects(s, "rmContainer") /\ faults' = faults
  BY <1>0, RemovalIs DEF UndoContainer, Steps, Busy, Undoing
<1>2. ~Rejects(s, "rmContainer")
  BY DEF Rejects, Applies
<1>3. job[s].containerCreated
  BY <1>0 DEF Positions, WithContainer
<1>4. /\ \A p \in Requests \ {"rmContainer"} : <<s, p>> \in late' <=> <<s, p>> \in late
      /\ Succeeds(s, "rmContainer") => container'[s] = "none"
  BY <1>0, <1>1, SucceedsIs, FailsIs
<1>5. /\ <<s, "container">> \in late' <=> <<s, "container">> \in late
      /\ <<s, "network">> \in late' <=> <<s, "network">> \in late
  BY <1>4 DEF Requests
<1>6. Positions(s)'
  BY <1>0, <1>1, <1>3, <1>5 DEF Positions, boot, WithContainer, Lost, Destroying
<1>7. Leavings(s)'
  BY <1>0, <1>1, <1>2, <1>3, <1>4 DEF Leavings, Lost
<1> QED
  BY <1>0, <1>1, <1>6, <1>7, CallStep DEF Busy, Undoing

LEMMA UndoNetworkHolds ==
    ASSUME IInv, NEW s \in SessionIds, UndoNetwork(s)
    PROVE  IInv'
<1>0. /\ TypeOK /\ Positions(s) /\ Leavings(s) /\ job[s].at = "undoNetwork"
      /\ "rmNetwork" \in Requests /\ UNCHANGED <<boot, unseen>>
  BY DEF IInv, Held, UndoNetwork, Requests
<1>1. /\ job' \in [SessionIds -> Jobs] /\ \A t \in SessionIds \ {s} : job'[t] = job[t]
      /\ job'[s].at = "createFailed" /\ job'[s].containerCreated = job[s].containerCreated
      /\ \/ Succeeds(s, "rmNetwork") /\ faults' = faults
         \/ Fails(s, "rmNetwork") /\ faults' = faults \union {s}
         \/ Rejects(s, "rmNetwork") /\ faults' = faults
  BY <1>0, RemovalIs DEF UndoNetwork, Steps
<1>2. Rejects(s, "rmNetwork") => container[s] = "running"
  BY DEF Rejects, Applies
<1>3. s \notin faults => container[s] # "running"
  BY <1>0 DEF Positions, Leavings, Lost
<1>4. s \notin faults => ~OwnsContainer(s)
  BY <1>0 DEF Leavings, Lost, OwnsContainer
<1>5. /\ \A p \in Requests \ {"rmNetwork"} : <<s, p>> \in late' <=> <<s, p>> \in late
      /\ container'[s] = container[s]
      /\ Succeeds(s, "rmNetwork") => s \notin networks'
  BY <1>0, <1>1, SucceedsIs, FailsIs
<1>6. /\ <<s, "container">> \in late' <=> <<s, "container">> \in late
      /\ <<s, "start">> \in late' <=> <<s, "start">> \in late
  BY <1>5 DEF Requests
<1>7. Positions(s)'
  <2>1. plane' = plane /\ plane = "listening"
    BY <1>0 DEF Positions, boot
  <2> QED
    BY <1>0, <1>1, <1>5, <1>6, <2>1 DEF Positions, WithContainer, Lost, Destroying
<1>8. Leavings(s)'
  BY <1>0, <1>1, <1>2, <1>3, <1>4, <1>5 DEF Leavings, Lost, OwnsContainer, OwnsNetwork
<1> QED
  BY <1>0, <1>1, <1>7, <1>8, CallStep DEF Busy, Undoing

LEMMA RemoveContainerHolds ==
    ASSUME IInv, NEW s \in SessionIds, RemoveContainer(s)
    PROVE  IInv'
<1>0. /\ TypeOK /\ Positions(s) /\ Leavings(s) /\ job[s].at = "rmContainer"
      /\ "rmContainer" \in Requests /\ UNCHANGED <<boot, unseen>>
  BY DEF IInv, Held, RemoveContainer, Requests
<1>1. /\ job' \in [SessionIds -> Jobs] /\ \A t \in SessionIds \ {s} : job'[t] = job[t]
      /\ job'[s].at = "rmNetwork" /\ job'[s].containerCreated = job[s].containerCreated
      /\ \/ Succeeds(s, "rmContainer") /\ faults' = faults
         \/ Fails(s, "rmContainer") /\ job'[s].failure = TRUE /\ faults' = faults \union {s}
         \/ Rejects(s, "rmContainer") /\ faults' = faults
  BY <1>0, RemovalIs DEF RemoveContainer, Steps, Busy, Destroying
<1>2. ~Rejects(s, "rmContainer")
  BY DEF Rejects, Applies
<1>3. job[s].containerCreated
  BY <1>0 DEF Positions, WithContainer, Lost, Destroying
<1>4. /\ \A p \in Requests \ {"rmContainer"} : <<s, p>> \in late' <=> <<s, p>> \in late
      /\ Succeeds(s, "rmContainer") => container'[s] = "none"
  BY <1>0, <1>1, SucceedsIs, FailsIs
<1>5. /\ <<s, "container">> \in late' <=> <<s, "container">> \in late
      /\ <<s, "network">> \in late' <=> <<s, "network">> \in late
  BY <1>4 DEF Requests
<1>6. Positions(s)'
  BY <1>0, <1>1, <1>3, <1>5 DEF Positions, boot, WithContainer, Lost, Destroying
<1>7. Leavings(s)'
  BY <1>0, <1>1, <1>2, <1>3, <1>4 DEF Leavings, Lost
<1> QED
  BY <1>0, <1>1, <1>6, <1>7, CallStep DEF Busy, Destroying

LEMMA RemoveNetworkHolds ==
    ASSUME IInv, NEW s \in SessionIds, RemoveNetwork(s)
    PROVE  IInv'
<1>0. /\ TypeOK /\ Positions(s) /\ Leavings(s) /\ job[s].at = "rmNetwork"
      /\ "rmNetwork" \in Requests /\ UNCHANGED <<boot, unseen>>
  BY DEF IInv, Held, RemoveNetwork, Requests
<1>1. PICK at \in {"destroyed", "destroyFailed"} :
          /\ To(s, at) /\ (faults' = faults \/ faults' = faults \union {s})
          /\ Succeeds(s, "rmNetwork") \/ Fails(s, "rmNetwork") \/ Rejects(s, "rmNetwork")
          /\ at = "destroyed" => Succeeds(s, "rmNetwork") /\ ~job[s].failure
  BY DEF RemoveNetwork
<1>2. /\ job' \in [SessionIds -> Jobs] /\ \A t \in SessionIds \ {s} : job'[t] = job[t]
      /\ job'[s].at = at /\ job'[s].containerCreated = job[s].containerCreated
  BY <1>0, <1>1, ToIs DEF Steps
<1>3. job[s].containerCreated
  BY <1>0 DEF Positions, WithContainer, Lost, Destroying
<1>4. /\ \A p \in Requests \ {"rmNetwork"} : <<s, p>> \in late' <=> <<s, p>> \in late
      /\ container'[s] = container[s]
      /\ Succeeds(s, "rmNetwork") => s \notin networks'
  BY <1>0, <1>1, SucceedsIs, FailsIs
<1>5. /\ <<s, "container">> \in late' <=> <<s, "container">> \in late
      /\ <<s, "network">> \in late' <=> <<s, "network">> \in late
  BY <1>4 DEF Requests
<1>6. Positions(s)'
  BY <1>0, <1>2, <1>3, <1>5 DEF Positions, boot, WithContainer, Lost, Destroying
<1>7. Leavings(s)'
  BY <1>0, <1>1, <1>2, <1>3, <1>4 DEF Leavings, Lost
<1> QED
  BY <1>0, <1>1, <1>2, <1>6, <1>7, CallStep DEF Busy, Destroying

LEMMA CutOffHolds ==
    ASSUME IInv, NEW s \in SessionIds, CutOff(s)
    PROVE  IInv'
<1>0. /\ TypeOK /\ Positions(s) /\ Leavings(s) /\ job[s].at \in Busy
      /\ UNCHANGED <<boot, unseen, faults>>
  BY DEF IInv, Held, CutOff, ghosts
<1>1. PICK at \in {"createHung", "destroyHung"} :
          To(s, at) /\ (at = "destroyHung" <=> job[s].at \in Destroying)
  BY DEF CutOff
<1>2. /\ job' \in [SessionIds -> Jobs] /\ \A t \in SessionIds \ {s} : job'[t] = job[t]
      /\ job'[s].at = at /\ job'[s].containerCreated = job[s].containerCreated
  BY <1>0, <1>1, ToIs DEF Steps
<1>3. \/ UNCHANGED engine
      \/ \E q \in Requests : Succeeds(s, q) \/ Fails(s, q) \/ Rejects(s, q)
  BY DEF CutOff, Requests
<1>4. job[s].at \in Destroying => UNCHANGED engine
  BY DEF CutOff, RequestOf, Destroying
<1>5. plane' = plane /\ plane = "listening"
  BY <1>0 DEF boot, Positions, Busy, Creating, Undoing, Destroying, TypeOK
<1>6. job[s].at \in Destroying =>
          job[s].containerCreated /\ <<s, "container">> \notin late /\ <<s, "network">> \notin late
  BY <1>0 DEF Positions, WithContainer, Lost, Destroying
<1>7. Positions(s)'
  BY <1>1, <1>2, <1>4, <1>5, <1>6 DEF Positions, WithContainer, Lost, Destroying, engine
<1>8. Leavings(s)'
  BY <1>1, <1>2, <1>6 DEF Leavings, Lost
<1> QED
  BY <1>0, <1>2, <1>3, <1>7, <1>8, CallStep

\* A step that changes only one job.
LEMMA JobStarts ==
    ASSUME IInv, NEW s \in SessionIds, NEW j \in Jobs, job' = [job EXCEPT ![s] = j],
           UNCHANGED <<engine, boot, ghosts>>, Positions(s)', Leavings(s)'
    PROVE  IInv'
<1>0. TypeOK
  BY DEF IInv
<1>1. /\ UNCHANGED <<container, networks, late, plane, todo, broken, unseen, faults>>
      /\ job' \in [SessionIds -> Jobs] /\ \A t \in SessionIds \ {s} : job'[t] = job[t]
  BY <1>0, JobIs DEF engine, boot, ghosts
<1>2. TypeOK'
  BY <1>0, <1>1 DEF TypeOK
<1>3. ASSUME NEW t \in SessionIds \ {s} PROVE Held(t)'
  <2>1. Same(t)
    BY <1>1 DEF Same
  <2> QED
    BY <1>1, <2>1, SameKeeps DEF IInv
<1>4. Reconciled(s)'
  BY <1>1 DEF IInv, Held, Reconciled, OwnsContainer, OwnsNetwork
<1> QED
  BY <1>2, <1>3, <1>4 DEF IInv, Held

LEMMA CreateHolds ==
    ASSUME IInv, NEW s \in SessionIds, Create(s)
    PROVE  IInv'
<1> DEFINE j == [job[s] EXCEPT !.at = "network"]
<1>0. /\ TypeOK /\ Positions(s) /\ Leavings(s) /\ job[s].at = "none" /\ plane = "listening"
      /\ UNCHANGED <<engine, boot, ghosts>>
  BY DEF IInv, Held, Create
<1>1. /\ j \in Jobs /\ j.at = "network" /\ j.containerCreated = job[s].containerCreated
      /\ job' = [job EXCEPT ![s] = j]
  BY <1>0 DEF Create, To, TypeOK, Jobs, Steps, Busy, Creating
<1> HIDE DEF j
<1>2. job'[s] = j
  BY <1>0, <1>1, JobIs
<1>3. Positions(s)'
  BY <1>0, <1>1, <1>2 DEF Positions, engine, boot, WithContainer, Lost, Destroying
<1>4. Leavings(s)'
  BY <1>0, <1>1, <1>2 DEF Leavings, Lost, OwnsContainer, OwnsNetwork, engine, ghosts
<1> QED
  BY <1>0, <1>1, <1>3, <1>4, JobStarts

LEMMA DestroyHolds ==
    ASSUME IInv, NEW s \in SessionIds, Destroy(s)
    PROVE  IInv'
<1> DEFINE j == [job[s] EXCEPT !.at = "rmContainer", !.failure = FALSE]
<1>0. /\ TypeOK /\ Positions(s) /\ Leavings(s) /\ job[s].at \in {"created", "destroyFailed", "destroyHung"}
      /\ plane = "listening" /\ UNCHANGED <<engine, boot, ghosts>>
  BY DEF IInv, Held, Destroy
<1>1. /\ j \in Jobs /\ j.at = "rmContainer" /\ j.containerCreated = job[s].containerCreated
      /\ job' = [job EXCEPT ![s] = j]
  BY <1>0 DEF Destroy, TypeOK, Jobs, Steps, Busy, Destroying
<1> HIDE DEF j
<1>2. job'[s] = j
  BY <1>0, <1>1, JobIs
<1>3. job[s].containerCreated
  BY <1>0 DEF Positions, WithContainer
<1>4. Positions(s)'
  BY <1>0, <1>1, <1>2, <1>3 DEF Positions, engine, boot, WithContainer, Lost, Destroying
<1>5. Leavings(s)'
  BY <1>1, <1>2, <1>3 DEF Leavings, Lost
<1> QED
  BY <1>0, <1>1, <1>4, <1>5, JobStarts

-----------------------------------------------------------------------------
(* Start-up                                                                *)

LEMMA ReconcileHolds ==
    ASSUME IInv, NEW s \in SessionIds, NEW kind, NEW request, ReconcileRemoves(s, kind, request),
           \/ plane = "containers" /\ kind = "container" /\ request = "rmContainer"
           \/ plane = "networks" /\ kind = "network" /\ request = "rmNetwork"
    PROVE  IInv'
<1>0. /\ TypeOK /\ Positions(s) /\ Leavings(s) /\ Reconciled(s) /\ request \in Requests
      /\ UNCHANGED <<job, plane, unseen, faults>> /\ todo' = todo \ {<<s, kind>>}
  BY DEF IInv, Held, Requests, ReconcileRemoves, ghosts
<1>1. \/ Succeeds(s, request) /\ broken' = broken
      \/ (Fails(s, request) \/ Rejects(s, request)) /\ broken' = TRUE
  BY DEF ReconcileRemoves
<1>2. /\ container' \in [SessionIds -> {"none", "created", "running", "exited"}]
      /\ networks' \subseteq SessionIds
      /\ late' \subseteq SessionIds \X Requests
      /\ \A t \in SessionIds \ {s} :
            /\ container'[t] = container[t] /\ (t \in networks' <=> t \in networks)
            /\ \A p \in Requests : <<t, p>> \in late' <=> <<t, p>> \in late
      /\ \A p \in Requests \ {request} : <<s, p>> \in late' <=> <<s, p>> \in late
      /\ Fails(s, request) \/ Rejects(s, request) => UNCHANGED <<container, networks>>
  BY <1>0, <1>1, CallIs
<1>3. TypeOK'
  BY <1>0, <1>1, <1>2 DEF TypeOK
<1>4. ASSUME NEW t \in SessionIds \ {s} PROVE Held(t)'
  <2>1. Same(t)
    BY <1>0, <1>2 DEF Same
  <2>2. /\ <<t, "container">> \in todo => <<t, "container">> \in todo'
        /\ <<t, "network">> \in todo => <<t, "network">> \in todo'
    BY <1>0
  <2>3. broken => broken'
    BY <1>1
  <2>4. Held(t) /\ plane' = plane
    BY <1>0 DEF IInv
  <2> QED
    BY <2>1, <2>2, <2>3, <2>4, SameKeeps
<1>5. /\ Succeeds(s, request) /\ request = "rmContainer" => container'[s] = "none"
      /\ Succeeds(s, request) /\ request = "rmContainer" => (s \in networks' <=> s \in networks)
      /\ Succeeds(s, request) /\ request = "rmNetwork" => s \notin networks'
      /\ Succeeds(s, request) /\ request = "rmNetwork" => container'[s] = container[s]
  BY <1>0, SucceedsIs
<1>6. /\ <<s, "container">> \in late' <=> <<s, "container">> \in late
      /\ <<s, "network">> \in late' <=> <<s, "network">> \in late
      /\ <<s, "start">> \in late' <=> <<s, "start">> \in late
  BY <1>2 DEF Requests
<1>7. job[s].at \in {"none", "forgotten"} /\ plane # "listening"
  BY <1>0 DEF Positions, Lost
<1>8. /\ container'[s] \in {container[s], "none"}
      /\ s \in networks' => s \in networks
  BY <1>0, <1>1, <1>2, <1>5
<1>9. Positions(s)'
  BY <1>0, <1>6, <1>7, <1>8 DEF Positions, WithContainer, Lost, Destroying
<1>10. (OwnsContainer(s)' => OwnsContainer(s)) /\ (OwnsNetwork(s)' => OwnsNetwork(s))
  BY <1>0, <1>8 DEF OwnsContainer, OwnsNetwork
<1>11. Leavings(s)'
  BY <1>0, <1>7, <1>10 DEF Leavings, Lost
<1>12. ~broken' => Succeeds(s, request) /\ ~broken
  BY <1>1
<1>13. Reconciled(s)'
  BY <1>0, <1>5, <1>10, <1>12 DEF Reconciled, OwnsContainer, OwnsNetwork
<1> QED
  BY <1>3, <1>4, <1>9, <1>11, <1>13 DEF IInv, Held

LEMMA BootHolds == ASSUME IInv, Boot PROVE IInv'
<1>1. /\ TypeOK /\ plane = "down" /\ plane' = "containers"
      /\ todo' = OfKind(Existing, "container") /\ broken' = FALSE
      /\ UNCHANGED <<job, container, networks, late, unseen, faults>>
  BY DEF IInv, Boot, engine, ghosts
<1>2. TypeOK'
  BY <1>1 DEF TypeOK, OfKind, Existing
<1>3. ASSUME NEW s \in SessionIds PROVE Held(s)'
  <2>1. Held(s)
    BY DEF IInv
  <2>2. Positions(s)'
    BY <1>1, <2>1 DEF Held, Positions
  <2>3. Leavings(s)'
    BY <1>1, <2>1 DEF Held, Leavings, Lost, OwnsContainer, OwnsNetwork
  <2>4. container[s] # "none" => <<s, "container">> \in todo'
    BY <1>1 DEF OfKind, Existing, Resources
  <2>5. Reconciled(s)'
    BY <1>1, <2>4 DEF Reconciled, OwnsContainer
  <2> QED
    BY <2>2, <2>3, <2>5 DEF Held
<1> QED
  BY <1>2, <1>3 DEF IInv

LEMMA ListNetworksHolds == ASSUME IInv, ListNetworks PROVE IInv'
<1>1. /\ TypeOK /\ plane = "containers" /\ todo = {} /\ plane' = "networks"
      /\ todo' = OfKind(Existing, "network")
      /\ UNCHANGED <<job, container, networks, late, broken, unseen, faults>>
  BY DEF IInv, ListNetworks, engine, ghosts
<1>2. TypeOK'
  BY <1>1 DEF TypeOK, OfKind, Existing
<1>3. ASSUME NEW s \in SessionIds PROVE Held(s)'
  <2>1. Held(s)
    BY DEF IInv
  <2>2. Positions(s)'
    BY <1>1, <2>1 DEF Held, Positions
  <2>3. Leavings(s)'
    BY <1>1, <2>1 DEF Held, Leavings, Lost, OwnsContainer, OwnsNetwork
  <2>4. s \in networks => <<s, "network">> \in todo'
    BY <1>1 DEF OfKind, Existing, Resources
  <2>5. ~broken => ~OwnsContainer(s)
    BY <1>1, <2>1 DEF Held, Reconciled
  <2>6. Reconciled(s)'
    BY <1>1, <2>4, <2>5 DEF Reconciled, OwnsContainer, OwnsNetwork
  <2> QED
    BY <2>2, <2>3, <2>6 DEF Held
<1> QED
  BY <1>2, <1>3 DEF IInv

LEMMA ListenHolds == ASSUME IInv, Listen PROVE IInv'
<1>1. /\ TypeOK /\ plane = "networks" /\ plane' = "listening"
      /\ UNCHANGED <<job, container, networks, late, todo, broken, unseen, faults>>
  BY DEF IInv, Listen, engine, ghosts
<1>2. TypeOK'
  BY <1>1 DEF TypeOK
<1>3. ASSUME NEW s \in SessionIds PROVE Held(s)'
  <2>1. Held(s)
    BY DEF IInv
  <2>2. Positions(s)'
    BY <1>1, <2>1 DEF Held, Positions
  <2>3. Leavings(s)'
    BY <1>1, <2>1 DEF Held, Leavings, Lost, OwnsContainer, OwnsNetwork
  <2>4. Reconciled(s)'
    BY <1>1 DEF Reconciled
  <2> QED
    BY <2>2, <2>3, <2>4 DEF Held
<1> QED
  BY <1>2, <1>3 DEF IInv

LEMMA CrashHolds == ASSUME IInv, Crash PROVE IInv'
<1>1. /\ TypeOK /\ plane' = "down" /\ todo' = {} /\ broken' = FALSE
      /\ job' = [s \in SessionIds |->
                    IF job[s].at = "none" THEN job[s] ELSE [NewJob EXCEPT !.at = "forgotten"]]
      /\ late' = late \union {r \in SessionIds \X Requests : r[2] \in RequestOf(job[r[1]].at)}
      /\ UNCHANGED <<container, networks, unseen, faults>>
  BY DEF IInv, Crash, ghosts
<1> DEFINE forgotten == [NewJob EXCEPT !.at = "forgotten"]
<1>2. forgotten \in Jobs /\ forgotten.at = "forgotten"
  <2>1. NewJob \in Jobs
    BY HealthAssumption DEF NewJob, Jobs, Steps
  <2> QED
    BY <2>1 DEF Jobs, Steps
<1> HIDE DEF forgotten
<1>3. \A s \in SessionIds : job'[s] = IF job[s].at = "none" THEN job[s] ELSE forgotten
  BY <1>1 DEF forgotten
<1>4. TypeOK'
  <2>1. job' \in [SessionIds -> Jobs]
    BY <1>1, <1>2 DEF TypeOK, forgotten
  <2> QED
    BY <1>1, <2>1 DEF TypeOK
<1>5. ASSUME NEW s \in SessionIds PROVE Held(s)'
  <2>1. CASE job[s].at # "none"
    BY <1>1, <1>2, <1>3, <2>1
       DEF Held, Positions, Leavings, Reconciled, WithContainer, Lost, Destroying
  <2>2. CASE job[s].at = "none"
    <3>1. Held(s) /\ job'[s] = job[s] /\ RequestOf(job[s].at) = {}
      BY <1>3, <2>2 DEF IInv, RequestOf
    <3>2. \A p \in Requests : <<s, p>> \in late' <=> <<s, p>> \in late
      BY <1>1, <3>1
    <3>3. /\ <<s, "container">> \in late' <=> <<s, "container">> \in late
          /\ <<s, "network">> \in late' <=> <<s, "network">> \in late
          /\ <<s, "start">> \in late' <=> <<s, "start">> \in late
      BY <3>2 DEF Requests
    <3>4. Positions(s)'
      BY <1>1, <2>2, <3>1, <3>3 DEF Held, Positions
    <3>5. Leavings(s)'
      BY <1>1, <3>1 DEF Held, Leavings, Lost, OwnsContainer, OwnsNetwork
    <3>6. Reconciled(s)'
      BY <1>1 DEF Reconciled
    <3> QED
      BY <3>4, <3>5, <3>6 DEF Held
  <2> QED
    BY <2>1, <2>2
<1> QED
  BY <1>4, <1>5 DEF IInv

-----------------------------------------------------------------------------
(* The engine on its own                                                   *)

\* A step of the engine for one session, once that session is seen to.
LEMMA EngineStep ==
    ASSUME IInv, NEW s \in SessionIds, UNCHANGED <<job, boot, faults>>,
           container' \in [SessionIds -> {"none", "created", "running", "exited"}],
           networks' \subseteq SessionIds, late' \subseteq late, unseen' \subseteq Resources,
           \A t \in SessionIds \ {s} :
               /\ container'[t] = container[t] /\ (t \in networks' <=> t \in networks)
               /\ \A p \in Requests : <<t, p>> \in late' <=> <<t, p>> \in late
               /\ \A kind \in {"container", "network"} :
                     <<t, kind>> \in unseen' <=> <<t, kind>> \in unseen,
           \/ container'[s] = container[s] /\ (OwnsContainer(s)' => OwnsContainer(s))
           \/ container'[s] = "none"
           \/ ~OwnsContainer(s)' /\ container[s] = "none" /\ container'[s] # "running"
                /\ <<s, "container">> \in late
           \/ container[s] # "none" /\ container'[s] # "none"
                /\ (OwnsContainer(s)' => OwnsContainer(s))
                /\ (container'[s] = "running" => <<s, "start">> \in late),
           \/ s \in networks' => s \in networks /\ (OwnsNetwork(s)' => OwnsNetwork(s))
           \/ ~OwnsNetwork(s)' /\ <<s, "network">> \in late
    PROVE  IInv'
<1>0. /\ TypeOK /\ Positions(s) /\ Leavings(s) /\ Reconciled(s)
      /\ UNCHANGED <<job, plane, todo, broken, faults>>
  BY DEF IInv, Held, boot
<1>1. TypeOK'
  BY <1>0 DEF TypeOK
<1>2. ASSUME NEW t \in SessionIds \ {s} PROVE Held(t)'
  <2>1. Same(t)
    BY <1>0 DEF Same
  <2> QED
    BY <1>0, <2>1, SameKeeps DEF IInv
<1>3. (OwnsContainer(s)' => OwnsContainer(s)) /\ (OwnsNetwork(s)' => OwnsNetwork(s))
  BY DEF OwnsContainer, OwnsNetwork
<1>4. container[s] = "none" /\ container'[s] # "none" => <<s, "container">> \in late
  OBVIOUS
<1>5. container[s] # "running" /\ container'[s] = "running" => <<s, "start">> \in late
  OBVIOUS
<1>6. s \notin networks /\ s \in networks' => <<s, "network">> \in late
  OBVIOUS
<1>7. Positions(s)'
  BY <1>0, <1>5 DEF Positions, Lost
<1>8. Leavings(s)'
  BY <1>0, <1>3, <1>4, <1>6 DEF Leavings, Positions, WithContainer, Lost, Destroying
<1>9. Reconciled(s)'
  BY <1>0, <1>3 DEF Reconciled
<1> QED
  BY <1>1, <1>2, <1>7, <1>8, <1>9 DEF IInv, Held

LEMMA LateExecutesHolds ==
    ASSUME IInv, NEW s \in SessionIds, NEW q \in Requests, LateExecutes(s, q)
    PROVE  IInv'
<1>0. /\ TypeOK /\ Applies(s, q) /\ Effect(s, q) /\ <<s, q>> \in late
      /\ late' = late \ {<<s, q>>}
      /\ unseen' = unseen \union ({<<s, q>>} \intersect Resources)
      /\ UNCHANGED <<job, boot, faults>>
  BY DEF IInv, LateExecutes
<1>1. /\ container' \in [SessionIds -> {"none", "created", "running", "exited"}]
      /\ networks' \subseteq SessionIds
      /\ container'[s] = CASE q = "container"   -> "created"
                           [] q = "start"       -> "running"
                           [] q = "rmContainer" -> "none"
                           [] OTHER             -> container[s]
      /\ s \in networks' <=> q = "network" \/ (q # "rmNetwork" /\ s \in networks)
      /\ \A t \in SessionIds \ {s} : /\ container'[t] = container[t]
                                     /\ t \in networks' <=> t \in networks
  BY <1>0, EffectIs
<1>2. late' \subseteq late /\ unseen' \subseteq Resources /\ unseen \subseteq unseen'
  BY <1>0 DEF TypeOK
<1>3. \A t \in SessionIds \ {s} :
          /\ container'[t] = container[t] /\ (t \in networks' <=> t \in networks)
          /\ \A p \in Requests : <<t, p>> \in late' <=> <<t, p>> \in late
          /\ \A kind \in {"container", "network"} : <<t, kind>> \in unseen' <=> <<t, kind>> \in unseen
  BY <1>0, <1>1
<1>4. /\ q = "container" => <<s, "container">> \in unseen'
      /\ q = "network" => <<s, "network">> \in unseen'
  BY <1>0 DEF Resources
<1>5. \/ container'[s] = container[s] /\ (OwnsContainer(s)' => OwnsContainer(s))
      \/ container'[s] = "none"
      \/ ~OwnsContainer(s)' /\ container[s] = "none" /\ container'[s] # "running"
           /\ <<s, "container">> \in late
      \/ container[s] # "none" /\ container'[s] # "none"
           /\ (OwnsContainer(s)' => OwnsContainer(s))
           /\ (container'[s] = "running" => <<s, "start">> \in late)
  BY <1>0, <1>1, <1>2, <1>4 DEF OwnsContainer, Applies
<1>6. \/ s \in networks' => s \in networks /\ (OwnsNetwork(s)' => OwnsNetwork(s))
      \/ ~OwnsNetwork(s)' /\ <<s, "network">> \in late
  BY <1>0, <1>1, <1>2, <1>4 DEF OwnsNetwork
<1> QED
  BY <1>0, <1>1, <1>2, <1>3, <1>5, <1>6, EngineStep

LEMMA LateDroppedHolds ==
    ASSUME IInv, NEW s \in SessionIds, NEW q \in Requests, LateDropped(s, q)
    PROVE  IInv'
<1>1. /\ TypeOK /\ late' = late \ {<<s, q>>}
      /\ UNCHANGED <<job, boot, container, networks, unseen, faults>>
  BY DEF IInv, LateDropped, ghosts
<1>2. UNCHANGED <<job, boot, faults>>
  BY <1>1
<1> QED
  BY <1>1, <1>2, EngineStep DEF TypeOK, OwnsContainer, OwnsNetwork

LEMMA ContainerExitsHolds ==
    ASSUME IInv, NEW s \in SessionIds, ContainerExits(s)
    PROVE  IInv'
<1>1. /\ TypeOK /\ container[s] = "running" /\ container' = [container EXCEPT ![s] = "exited"]
      /\ UNCHANGED <<job, boot, networks, late, unseen, faults>>
  BY DEF IInv, ContainerExits, ghosts
<1>2. /\ container' \in [SessionIds -> {"none", "created", "running", "exited"}]
      /\ container'[s] = "exited" /\ \A t \in SessionIds \ {s} : container'[t] = container[t]
  BY <1>1 DEF TypeOK
<1>3. UNCHANGED <<job, boot, faults>>
  BY <1>1
<1> QED
  BY <1>1, <1>2, <1>3, EngineStep DEF TypeOK, OwnsContainer, OwnsNetwork

-----------------------------------------------------------------------------
LEMMA StepHolds == IInv /\ [Next]_vars => IInv'
<1> SUFFICES ASSUME IInv, [Next]_vars PROVE IInv'
  OBVIOUS
<1>1. ASSUME NEW s \in SessionIds, Create(s) \/ Destroy(s) \/ CutOff(s) PROVE IInv'
  BY <1>1, CreateHolds, DestroyHolds, CutOffHolds
<1>2. ASSUME NEW s \in SessionIds, JobStep(s) PROVE IInv'
  BY <1>2, CreateNetworkHolds, CreateContainerHolds, StartContainerHolds, WaitForHealthyHolds,
     UndoContainerHolds, UndoNetworkHolds, RemoveContainerHolds, RemoveNetworkHolds DEF JobStep
<1>3. ASSUME NEW s \in SessionIds, ReconcileContainer(s) \/ ReconcileNetwork(s) PROVE IInv'
  BY <1>3, ReconcileHolds DEF ReconcileContainer, ReconcileNetwork
<1>4. ASSUME NEW s \in SessionIds, NEW q \in Requests, LateExecutes(s, q) \/ LateDropped(s, q)
      PROVE  IInv'
  BY <1>4, LateExecutesHolds, LateDroppedHolds
<1>5. ASSUME NEW s \in SessionIds, ContainerExits(s) PROVE IInv'
  BY <1>5, ContainerExitsHolds
<1>6. CASE Boot \/ ListNetworks \/ Listen \/ Crash
  BY <1>6, BootHolds, ListNetworksHolds, ListenHolds, CrashHolds
<1>7. CASE UNCHANGED vars
  BY <1>7 DEF vars, engine, boot, ghosts, IInv, TypeOK, Held, Positions, Leavings, Reconciled,
              OwnsContainer, OwnsNetwork
<1> QED
  BY <1>1, <1>2, <1>3, <1>4, <1>5, <1>6, <1>7 DEF Next

\* The invariant that the theorems below rest on, for every behaviour of the runtime.
THEOREM IInvariance == Spec => []IInv
<1>1. Init => IInv
  BY InitHolds
<1>2. IInv /\ [Next]_vars => IInv'
  BY StepHolds
<1> QED
  BY <1>1, <1>2, PTL DEF Spec

-----------------------------------------------------------------------------
(* The theorems                                                            *)

\* The jobs of the runtime, the engine and the reconciliation keep their types.
THEOREM TypeCorrect == Spec => []TypeOK
<1>1. IInv => TypeOK
  BY DEF IInv
<1> QED
  BY <1>1, IInvariance, PTL

\* What exists and is owned by nobody is unseen.
LEMMA UnseenIs ==
    ASSUME NEW s \in SessionIds, ~OwnsContainer(s), ~OwnsNetwork(s),
           NEW r \in Existing, r[1] = s
    PROVE  r \in unseen
<1>1. r = <<s, "container">> \/ r = <<s, "network">>
  BY DEF Existing, Resources
<1> QED
  BY <1>1 DEF Existing, OwnsContainer, OwnsNetwork

\* DockerEngineRuntime.create: a creation that failed at any of its calls leaves
\* only what the engine failed to remove, or made when nobody waited any more.
THEOREM RollbackIsComplete == Spec => []RollbackComplete
<1>1. IInv => RollbackComplete
  <2> SUFFICES ASSUME IInv, NEW s \in SessionIds, job[s].at = "createFailed", s \notin faults
               PROVE  Left(s) \subseteq unseen
    BY DEF RollbackComplete
  <2>1. ~OwnsContainer(s) /\ ~OwnsNetwork(s)
    BY DEF IInv, Held, Leavings
  <2> QED
    BY <2>1, UnseenIs DEF Left
<1> QED
  BY <1>1, IInvariance, PTL

\* DockerEngineRuntime.destroy: a destruction that reported success left neither
\* the container nor the network, whatever earlier attempts had failed.
THEOREM DestroyedIsGone == Spec => []DestroyedLeavesNothing
<1>1. IInv => DestroyedLeavesNothing
  <2> SUFFICES ASSUME IInv, NEW s \in SessionIds, job[s].at = "destroyed" PROVE Left(s) = {}
    BY DEF DestroyedLeavesNothing
  <2>1. container[s] = "none" /\ s \notin networks
    BY DEF IInv, Held, Leavings
  <2> QED
    BY <2>1 DEF Left, Existing, Resources
<1> QED
  BY <1>1, IInvariance, PTL

\* main.ts listens only after a reconciliation that removed everything an earlier
\* process had made and known of.
THEOREM ListensOnlyClean == Spec => ListensClean
<1>1. IInv /\ [Next]_vars => [plane' = "listening" /\ plane # "listening"
                                  => Existing \subseteq unseen]_vars
  <2> SUFFICES ASSUME IInv, Next, plane' = "listening", plane # "listening"
               PROVE  Existing \subseteq unseen
    BY DEF vars, boot
  <2>1. Listen
    BY DEF Next, Create, Destroy, JobStep, CreateNetwork, CreateContainer, StartContainer,
           WaitForHealthy, UndoContainer, UndoNetwork, RemoveContainer, RemoveNetwork,
           CutOff,
           ReconcileContainer, ReconcileNetwork, ReconcileRemoves, LateExecutes, LateDropped,
           ContainerExits, Boot, ListNetworks, Crash, boot
  <2>2. \A s \in SessionIds : ~OwnsContainer(s) /\ ~OwnsNetwork(s)
    BY <2>1 DEF IInv, Held, Reconciled, Listen
  <2>3. ASSUME NEW r \in Existing PROVE r \in unseen
    <3>1. r[1] \in SessionIds
      BY DEF Existing, Resources
    <3> QED
      BY <2>2, <3>1, UnseenIs
  <2> QED
    BY <2>3
<1> QED
  BY <1>1, IInvariance, PTL DEF Spec, ListensClean
=============================================================================
