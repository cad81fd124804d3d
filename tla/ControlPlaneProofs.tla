------------------------- MODULE ControlPlaneProofs -------------------------
(***************************************************************************)
(* Theorems about ControlPlane, for any number of processes, instances,    *)
(* containers and changes of the profile.                                  *)
(***************************************************************************)
EXTENDS ControlPlane, TLAPS

ProcessType ==
    [stage : Stages, mode : {"development", "production", None},
     host : {"loopback", "public", None}, instance : Instances \union {None},
     handle : (1..MaxFiles) \union {None}, before : (0..MaxChanges) \union {None},
     raw : {"reviewed", "edited", "torn", None}, profile : {"default", "reviewed"},
     authenticator : {"development", "oidc", None}, origins : {"https", "http", None}]

TypeOK ==
    /\ process \in [Processes -> ProcessType]
    /\ containers \subseteq Containers
    /\ files \in [1..MaxFiles -> Files]
    /\ path \in 1..MaxFiles

\* What a process that has come this far has had checked.
Checked(q) ==
    /\ q.stage # "down" =>
          /\ q.mode \in {"development", "production"} /\ q.instance # None
          /\ q.mode = "development" => q.host = "loopback"
    /\ q.stage \in {"reading", "checking"} => q.handle # None
    /\ q.stage \in {"constructing", "reconciling", "binding", "listening"} =>
          (q.mode = "production" => q.profile = "reviewed")
    /\ q.stage \in {"reconciling", "binding", "listening"} =>
          /\ q.authenticator = (IF q.mode = "development" THEN "development" ELSE "oidc")
          /\ q.mode = "production" => q.origins = "https"

IInv ==
    /\ TypeOK
    /\ \A p \in Processes : Checked(process[p])
    /\ ContainersAreConfined

LEMMA DownIsSound == Down \in ProcessType /\ Checked(Down)
BY DEF Down, ProcessType, Stages, Checked

\* Only a development process does without an identity provider, and production
\* without an origin by plain HTTP.
LEMMA ConstructedOfMode ==
    /\ Authenticators("development") = {"development"}
    /\ Authenticators("production") \subseteq {"oidc"}
    /\ \A mode, origins : OriginsAreAllowed(mode, origins) =>
          origins \in {"https", "http"} /\ (mode = "production" => origins = "https")
BY DEF Authenticators, OriginsAreAllowed

LEMMA BecomeKeeps ==
    ASSUME IInv, NEW p \in Processes, NEW q \in ProcessType, Checked(q), Become(p, q),
           TypeOK => containers' \subseteq Containers /\ ContainersAreConfined',
           UNCHANGED <<files, path>>
    PROVE  IInv'
<1>1. process' \in [Processes -> ProcessType]
  BY DEF IInv, TypeOK, Become
<1>2. \A r \in Processes : process'[r] = IF r = p THEN q ELSE process[r]
  BY DEF IInv, TypeOK, Become
<1>3. \A r \in Processes : Checked(process[r])'
  BY <1>2 DEF IInv, Checked
<1> QED
  BY <1>1, <1>3 DEF IInv, TypeOK

LEMMA StepKeeps == IInv /\ [Next]_vars => IInv'
<1> SUFFICES ASSUME IInv, [Next]_vars PROVE IInv'
  OBVIOUS
<1>0. /\ TypeOK /\ ContainersAreConfined
      /\ \A p \in Processes : process[p] \in ProcessType /\ Checked(process[p])
  BY DEF IInv, TypeOK
<1>1. ASSUME NEW p \in Processes, Throws(p), containers' \subseteq containers,
             UNCHANGED <<files, path>>
      PROVE  IInv'
  <2>1. containers' \subseteq Containers /\ ContainersAreConfined'
    BY <1>0, <1>1 DEF TypeOK, ContainersAreConfined
  <2> QED
    BY <1>1, <2>1, DownIsSound, BecomeKeeps DEF Throws
<1>2. ASSUME NEW p \in Processes, NEW q \in ProcessType, Checked(q), Become(p, q),
             containers' \subseteq containers, UNCHANGED <<files, path>>
      PROVE  IInv'
  <2>1. containers' \subseteq Containers /\ ContainersAreConfined'
    BY <1>0, <1>2 DEF TypeOK, ContainersAreConfined
  <2> QED
    BY <1>2, <2>1, BecomeKeeps
<1>3. ASSUME NEW p \in Processes, Start(p) PROVE IInv'
  <2>1. PICK mode \in {"development", "test", "production"}, host \in {"loopback", "public"},
             image \in {"digest", "tag", "empty"}, instance \in Instances, named \in BOOLEAN :
           /\ ModeIsAllowed(mode, host) /\ ImageIsAllowed(mode, image)
           /\ mode = "production" => named
           /\ Become(p, [Down EXCEPT !.stage = IF named THEN "opening" ELSE "constructing",
                                     !.mode = mode, !.host = host, !.instance = instance])
    BY <1>3 DEF Start
  <2> DEFINE q == [Down EXCEPT !.stage = IF named THEN "opening" ELSE "constructing",
                               !.mode = mode, !.host = host, !.instance = instance]
  <2>2. q \in ProcessType
    BY <2>1 DEF Down, ProcessType, Stages, ModeIsAllowed
  <2>3. /\ q.stage \in {"opening", "constructing"} /\ q.mode = mode /\ q.host = host
        /\ q.instance = instance /\ (q.stage = "constructing" => ~named)
    BY DEF Down
  <2>4. mode \in {"development", "production"} /\ (mode = "development" => host = "loopback")
    BY <2>1 DEF ModeIsAllowed
  <2>5. instance # None
    BY ControlPlaneAssumption
  <2> HIDE DEF q
  <2>6. Checked(q)
    BY <2>1, <2>3, <2>4, <2>5 DEF Checked
  <2> QED
    BY <1>2, <1>3, <2>1, <2>2, <2>6 DEF Start, q
<1>4. ASSUME NEW p \in Processes, OpenProfile(p) PROVE IInv'
  <2> DEFINE q == [process[p] EXCEPT !.stage = "reading", !.handle = path,
                                     !.before = files[path].ctime]
  <2>1. CASE Become(p, q)
    <3>1. q \in ProcessType
      BY <1>0 DEF TypeOK, ProcessType, Stages, Files
    <3>2. Checked(q)
      BY <1>0, <1>4, ControlPlaneAssumption DEF OpenProfile, Checked, TypeOK, ProcessType
    <3> QED
      BY <1>2, <1>4, <2>1, <3>1, <3>2 DEF OpenProfile
  <2>2. CASE Throws(p)
    BY <1>1, <1>4, <2>2 DEF OpenProfile
  <2> QED
    BY <1>4, <2>1, <2>2 DEF OpenProfile
<1>5. ASSUME NEW p \in Processes, ReadProfile(p) PROVE IInv'
  <2> DEFINE q == [process[p] EXCEPT !.stage = "checking",
                                     !.raw = files[process[p].handle].content]
  <2>1. process[p].handle \in 1..MaxFiles
    BY <1>0, <1>5 DEF ReadProfile, Checked, ProcessType
  <2>2. q \in ProcessType
    BY <1>0, <2>1 DEF TypeOK, ProcessType, Stages, Files
  <2>3. Checked(q)
    BY <1>0, <1>5 DEF ReadProfile, Checked, ProcessType
  <2> QED
    BY <1>2, <1>5, <2>2, <2>3 DEF ReadProfile
<1>6. ASSUME NEW p \in Processes, CheckProfile(p) PROVE IInv'
  <2> DEFINE q == [process[p] EXCEPT !.stage = "constructing", !.handle = None, !.before = None,
                                     !.raw = None, !.profile = "reviewed"]
  <2>1. CASE Loaded(p, "reviewed")
    <3>1. q \in ProcessType
      BY <1>0 DEF ProcessType, Stages
    <3>2. Checked(q)
      BY <1>0, <1>6 DEF CheckProfile, Checked, ProcessType
    <3> QED
      BY <1>2, <1>6, <2>1, <3>1, <3>2 DEF CheckProfile, Loaded
  <2>2. CASE Throws(p)
    BY <1>1, <1>6, <2>2 DEF CheckProfile
  <2> QED
    BY <1>6, <2>1, <2>2 DEF CheckProfile
<1>7. ASSUME NEW p \in Processes, Construct(p) PROVE IInv'
  <2>1. ASSUME NEW authenticator \in Authenticators(process[p].mode),
               NEW origins, OriginsAreAllowed(process[p].mode, origins),
               Become(p, [process[p] EXCEPT !.stage = "reconciling",
                                            !.authenticator = authenticator,
                                            !.origins = origins])
        PROVE  IInv'
    <3> DEFINE q == [process[p] EXCEPT !.stage = "reconciling",
                                       !.authenticator = authenticator,
                                       !.origins = origins]
    <3>1. process[p].mode \in {"development", "production"}
      BY <1>0, <1>7 DEF Construct, Checked, ProcessType
    <3>2. /\ authenticator = (IF process[p].mode = "development" THEN "development" ELSE "oidc")
          /\ origins \in {"https", "http"}
          /\ process[p].mode = "production" => origins = "https"
      BY <2>1, <3>1, ConstructedOfMode
    <3>3. q \in ProcessType
      BY <1>0, <3>2 DEF ProcessType, Stages
    <3>4. Checked(q)
      BY <1>0, <1>7, <3>2 DEF Construct, Checked, ProcessType
    <3> QED
      BY <1>2, <1>7, <2>1, <3>3, <3>4 DEF Construct
  <2>2. CASE Throws(p)
    BY <1>1, <1>7, <2>2 DEF Construct
  <2> QED
    BY <1>7, <2>1, <2>2 DEF Construct
<1>8. ASSUME NEW p \in Processes, NEW stage \in {"binding", "listening"},
             process[p].stage \in {"reconciling", "binding"},
             Become(p, [process[p] EXCEPT !.stage = stage]),
             containers' \subseteq containers, UNCHANGED <<files, path>>
      PROVE  IInv'
  <2> DEFINE q == [process[p] EXCEPT !.stage = stage]
  <2>1. q \in ProcessType
    BY <1>0 DEF ProcessType, Stages
  <2>2. Checked(q)
    BY <1>0, <1>8 DEF Checked, ProcessType
  <2> QED
    BY <1>2, <1>8, <2>1, <2>2
<1>9. ASSUME NEW p \in Processes, Reconcile(p) PROVE IInv'
  <2>1. CASE /\ containers' = containers \ Leftovers(process[p].instance)
             /\ Become(p, [process[p] EXCEPT !.stage = "binding"])
    BY <1>8, <1>9, <2>1 DEF Reconcile
  <2>2. CASE \E removed \in SUBSET Leftovers(process[p].instance) :
                containers' = containers \ removed /\ Throws(p)
    BY <1>1, <1>9, <2>2 DEF Reconcile
  <2> QED
    BY <1>9, <2>1, <2>2 DEF Reconcile
<1>10. ASSUME NEW p \in Processes, Listen(p) PROVE IInv'
  BY <1>1, <1>8, <1>10 DEF Listen
<1>11. ASSUME NEW p \in Processes, CreateContainer(p) PROVE IInv'
  <2> DEFINE c == [instance |-> process[p].instance, owner |-> p,
                   mode |-> process[p].mode, profile |-> process[p].profile]
  <2>1. containers' = containers \union {c} /\ UNCHANGED <<process, files, path>>
    BY <1>11 DEF CreateContainer
  <2>2. c \in Containers /\ (c.profile = "reviewed" \/ (c.mode = "development" /\ c.profile = "default"))
    BY <1>0, <1>11 DEF CreateContainer, Checked, ProcessType, Containers
  <2>3. TypeOK' /\ ContainersAreConfined'
    BY <1>0, <2>1, <2>2 DEF TypeOK, ContainersAreConfined
  <2>4. \A r \in Processes : Checked(process[r])'
    BY <1>0, <2>1 DEF Checked
  <2> QED
    BY <2>3, <2>4 DEF IInv
<1>12. ASSUME NEW p \in Processes, RemoveContainer(p) PROVE IInv'
  <2>1. containers' \subseteq containers /\ UNCHANGED <<process, files, path>>
    BY <1>12 DEF RemoveContainer
  <2>2. TypeOK' /\ ContainersAreConfined' /\ \A r \in Processes : Checked(process[r])'
    BY <1>0, <2>1 DEF TypeOK, ContainersAreConfined, Checked
  <2> QED
    BY <2>2 DEF IInv
<1>13. ASSUME NEW p \in Processes, Crash(p) PROVE IInv'
  BY <1>1, <1>13 DEF Crash
<1>14. CASE ReplaceFile \/ ChangeFile
  <2>1. files' \in [1..MaxFiles -> Files] /\ path' \in 1..MaxFiles
    BY <1>0, <1>14, ControlPlaneAssumption DEF ReplaceFile, ChangeFile, TypeOK
  <2>2. UNCHANGED <<process, containers>>
    BY <1>14 DEF ReplaceFile, ChangeFile
  <2>3. TypeOK' /\ ContainersAreConfined' /\ \A r \in Processes : Checked(process[r])'
    BY <1>0, <2>1, <2>2 DEF TypeOK, ContainersAreConfined, Checked
  <2> QED
    BY <2>3 DEF IInv
<1>15. CASE UNCHANGED vars
  BY <1>0, <1>15 DEF vars, IInv, TypeOK, ContainersAreConfined, Checked
<1> QED
  BY <1>3, <1>4, <1>5, <1>6, <1>7, <1>9, <1>10, <1>11, <1>12, <1>13, <1>14, <1>15 DEF Next

LEMMA InitIInv == Init => IInv
<1> SUFFICES ASSUME Init PROVE IInv
  OBVIOUS
<1>1. TypeOK
  BY DownIsSound, ControlPlaneAssumption DEF Init, TypeOK, Files
<1> QED
  BY <1>1, DownIsSound DEF Init, IInv, ContainersAreConfined

LEMMA Invariance == Spec => []IInv
BY InitIInv, StepKeeps, PTL DEF Spec

(***************************************************************************)
(* main: a process that listens without OIDC listens on loopback and not   *)
(* in production, and one in production has loaded the reviewed profile,   *)
(* whatever happened to the file while it was read, and takes requests     *)
(* from pages of HTTPS origins only.                                       *)
(***************************************************************************)
THEOREM ControlPlaneListensSafely == Spec => []ListensSafely
<1>1. IInv => ListensSafely
  BY DEF IInv, Checked, ListensSafely
<1> QED
  BY <1>1, Invariance, PTL

(***************************************************************************)
(* Every container that DockerEngineRuntime creates for a production       *)
(* process runs under the reviewed seccomp profile.                        *)
(***************************************************************************)
THEOREM ContainersRunConfined == Spec => []ContainersAreConfined
<1>1. IInv => ContainersAreConfined
  BY DEF IInv
<1> QED
  BY <1>1, Invariance, PTL

(***************************************************************************)
(* A container is removed by its owner, or by the reconcile of a process   *)
(* of the same instance whose configuration main has accepted.  That this  *)
(* process then comes to listen is not said: its port may be taken.        *)
(***************************************************************************)
THEOREM OthersKeepTheirContainers == Spec => OnlyOwnLeftovers
<1> DEFINE Own == \A c \in containers \ containers' : \E p \in Processes :
                     /\ process[p].instance = c.instance
                     /\ \/ process[p].stage = "listening" /\ c.owner = p
                        \/ process[p].stage = "reconciling" /\ process[p].authenticator # None
<1>1. IInv /\ [Next]_vars => [Own]_vars
  <2> SUFFICES ASSUME IInv, Next PROVE Own
    BY DEF vars
  <2>1. ASSUME NEW p \in Processes, Reconcile(p) PROVE Own
    <3>1. process[p].stage = "reconciling" /\ process[p].authenticator # None
      BY <2>1, ControlPlaneAssumption DEF Reconcile, IInv, Checked
    <3>2. \A c \in containers \ containers' : c.instance = process[p].instance
      BY <2>1 DEF Reconcile, Leftovers
    <3> QED
      BY <3>1, <3>2
  <2>2. ASSUME NEW p \in Processes, RemoveContainer(p) PROVE Own
    BY <2>2 DEF RemoveContainer
  <2>3. CASE containers \subseteq containers'
    BY <2>3
  <2> QED
    BY <2>1, <2>2, <2>3 DEF Next, Start, OpenProfile, ReadProfile, CheckProfile, Construct, Listen,
       CreateContainer, Crash, ReplaceFile, ChangeFile
<1>2. [][Own]_vars <=> OnlyOwnLeftovers
  BY DEF OnlyOwnLeftovers
<1> QED
  BY <1>1, <1>2, Invariance, PTL DEF Spec
=============================================================================
