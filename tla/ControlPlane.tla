---------------------------- MODULE ControlPlane ----------------------------
(***************************************************************************)
(* The start of the control plane: src/main.ts with the constructors it    *)
(* calls, the loader of the seccomp profile                                *)
(* (src/runtime/seccomp-profile.ts), and what a start does to the          *)
(* containers that earlier and other processes have left on the host.      *)
(*                                                                         *)
(* main runs to its first await (the profile), through the three awaits of *)
(* the loader, then to reconcile and to listen.  The environment is known  *)
(* by the class that the checks tell apart, and chosen where it is read.   *)
(* How reconcile proceeds call by call is the subject of DockerRuntime; it *)
(* is one step here.                                                       *)
(***************************************************************************)
EXTENDS Naturals, FiniteSets

CONSTANTS
    Processes,      \* processes of the control plane on one host
    Instances,      \* values of FIREBALL_INSTANCE_ID
    MaxContainers,  \* bound on the containers that exist at a time
    MaxFiles,       \* bound on the files that have been at the path of the profile
    MaxChanges,     \* bound on the changes of such a file in place
    None

ASSUME ControlPlaneAssumption == /\ None \notin Processes \union Instances \union Nat
                                 /\ None \notin {"development", "oidc"}
                                 /\ MaxContainers \in Nat /\ MaxChanges \in Nat
                                 /\ MaxFiles \in Nat \ {0}

VARIABLES
    process,        \* what each process has come to
    containers,     \* the managed containers on the host
    files,          \* the files that have been at FIREBALL_SESSION_SECCOMP_PROFILE
    path            \* the one that is there now

vars == <<process, containers, files, path>>

Stages == {"down", "opening", "reading", "checking", "constructing", "reconciling", "binding",
           "listening"}

\* ctime counts the changes; "edited" is another document of the right shape,
\* "torn" what a file holds while it is being written.
Files == [ctime : 0..MaxChanges, content : {"reviewed", "edited", "torn"},
          writers : {"root", "user", "others"}]

\* Authenticator and origins are those of a process whose configuration passed every
\* check.
Down == [stage |-> "down", mode |-> None, host |-> None, instance |-> None,
         handle |-> None, before |-> None, raw |-> None, profile |-> "default",
         authenticator |-> None, origins |-> None]

Containers == [instance : Instances, owner : Processes, mode : {"development", "production"},
               profile : {"default", "reviewed", "edited"}]

Become(p, q) == process' = [process EXCEPT ![p] = q]

\* The module throws: the process ends, whatever else was set up is gone with it.
Throws(p) == Become(p, Down)

-----------------------------------------------------------------------------
(* The environment                                                         *)

\* Defect variant: the development authenticator is not tied to loopback.
ModeIsAllowed_AnyHost(mode, host) == mode \in {"development", "production"}

ModeIsAllowed(mode, host) ==
    /\ mode = "development" => host = "loopback"
    /\ mode \in {"development", "production"}

\* sessionImage, and the image check of DockerEngineRuntime.
ImageIsAllowed(mode, image) ==
    image # "empty" /\ (mode = "production" => image = "digest")

\* parseSignalingOrigins: one to eight unique origins in their serialized form.
OriginsAreAllowed(mode, origins) ==
    origins = "https" \/ (origins = "http" /\ mode # "production")

\* Without credentials or a fragment, and by HTTPS.
requireHttpsURL(url) == url = "https"

requireNonEmpty(value) == value # "empty"

requireClaimName(value) == value = "name"

\* The constructor of OidcAuthenticator; main leaves algorithms and tolerance to it.
OidcOptionsAreValid(options) ==
    /\ requireHttpsURL(options.issuer) /\ requireHttpsURL(options.jwksUrl)
    /\ requireNonEmpty(options.audience) /\ requireClaimName(options.tenantClaim)

OidcOptions == [issuer : {"https", "http"}, jwksUrl : {"https", "http"},
                audience : {"given", "empty"}, tenantClaim : {"name", "malformed"}]

\* createAuthenticator: only "development" does without an identity provider.
Authenticators(mode) ==
    IF mode = "development" THEN {"development"}
    ELSE {"oidc" : options \in {o \in OidcOptions : OidcOptionsAreValid(o)}}

-----------------------------------------------------------------------------
(* main                                                                    *)

\* main up to the profile; outside production it may be left out.
Start(p) ==
    /\ process[p].stage = "down"
    /\ \E mode \in {"development", "test", "production"}, host \in {"loopback", "public"},
          image \in {"digest", "tag", "empty"}, instance \in Instances, named \in BOOLEAN :
          /\ ModeIsAllowed(mode, host) /\ ImageIsAllowed(mode, image)
          /\ mode = "production" => named
          /\ Become(p, [Down EXCEPT !.stage = IF named THEN "opening" ELSE "constructing",
                                    !.mode = mode, !.host = host, !.instance = instance])
    /\ UNCHANGED <<containers, files, path>>

\* open, without following a link, and the first stat: a bounded regular file
\* that nobody but its owner may write.
OpenProfile(p) ==
    /\ process[p].stage = "opening"
    /\ IF files[path].writers \in (IF process[p].mode = "production" THEN {"root"} ELSE {"root", "user"})
       THEN Become(p, [process[p] EXCEPT !.stage = "reading", !.handle = path,
                                         !.before = files[path].ctime])
       ELSE Throws(p)
    /\ UNCHANGED <<containers, files, path>>

ReadProfile(p) ==
    /\ process[p].stage = "reading"
    /\ Become(p, [process[p] EXCEPT !.stage = "checking", !.raw = files[process[p].handle].content])
    /\ UNCHANGED <<containers, files, path>>

\* The profile is loaded, and its file closed.
Loaded(p, profile) ==
    Become(p, [process[p] EXCEPT !.stage = "constructing", !.handle = None, !.before = None,
                                 !.raw = None, !.profile = profile])

\* Defect variant: any document of the right shape will do.
CheckProfile_NoDigest(p) ==
    /\ process[p].stage = "checking"
    /\ IF process[p].before = files[process[p].handle].ctime /\ process[p].raw # "torn"
       THEN Loaded(p, process[p].raw)
       ELSE Throws(p)
    /\ UNCHANGED <<containers, files, path>>

\* The second stat, the checksum, and validateProfileShape.
CheckProfile(p) ==
    /\ process[p].stage = "checking"
    /\ IF process[p].before = files[process[p].handle].ctime /\ process[p].raw = "reviewed"
       THEN Loaded(p, "reviewed")
       ELSE Throws(p)
    /\ UNCHANGED <<containers, files, path>>

\* The rest of the configuration, in one turn.  What else it checks, the numbers and
\* names of the other constructors, may refuse any of them.
Construct(p) ==
    /\ process[p].stage = "constructing"
    /\ \/ \E authenticator \in Authenticators(process[p].mode),
              origins \in {o \in {"https", "http", "malformed"} :
                             OriginsAreAllowed(process[p].mode, o)} :
              Become(p, [process[p] EXCEPT !.stage = "reconciling",
                                           !.authenticator = authenticator,
                                           !.origins = origins])
       \/ Throws(p)
    /\ UNCHANGED <<containers, files, path>>

\* Defect variant: whatever carries the label of the product is removed.
Leftovers_AnyInstance(instance) == containers

Leftovers(instance) == {c \in containers : c.instance = instance}

\* What the process finds of its instance is removed, whoever owns it; or some of it,
\* and the start fails.
Reconcile(p) ==
    /\ process[p].stage = "reconciling"
    /\ \/ /\ containers' = containers \ Leftovers(process[p].instance)
          /\ Become(p, [process[p] EXCEPT !.stage = "binding"])
       \/ \E removed \in SUBSET Leftovers(process[p].instance) :
              containers' = containers \ removed /\ Throws(p)
    /\ UNCHANGED <<files, path>>

\* listen; the port may be taken, or be no number.  What was removed stays removed.
Listen(p) ==
    /\ process[p].stage = "binding"
    /\ Become(p, [process[p] EXCEPT !.stage = "listening"]) \/ Throws(p)
    /\ UNCHANGED <<containers, files, path>>

-----------------------------------------------------------------------------
(* While it runs                                                           *)

\* DockerEngineRuntime.create, with the profile the process was started with.
CreateContainer(p) ==
    /\ process[p].stage = "listening" /\ Cardinality(containers) < MaxContainers
    /\ containers' = containers \union {[instance |-> process[p].instance, owner |-> p,
                            mode |-> process[p].mode, profile |-> process[p].profile]}
    /\ UNCHANGED <<process, files, path>>

\* Burn.
RemoveContainer(p) ==
    /\ process[p].stage = "listening"
    /\ \E c \in containers :
          c.owner = p /\ c.instance = process[p].instance /\ containers' = containers \ {c}
    /\ UNCHANGED <<process, files, path>>

\* The process ends; nothing of what it created is removed.
Crash(p) ==
    /\ process[p].stage # "down" /\ Throws(p)
    /\ UNCHANGED <<containers, files, path>>

\* The operator installs another file at the path.
ReplaceFile ==
    /\ path < MaxFiles
    /\ path' = path + 1
    /\ \E new \in {f \in Files : f.ctime = 0 /\ f.content # "torn"} :
          files' = [files EXCEPT ![path + 1] = new]
    /\ UNCHANGED <<process, containers>>

\* The file that is there, or one that a process still reads, is written or given
\* another owner or mode in place.
ChangeFile ==
    /\ \E i \in ({path} \union {process[p].handle : p \in Processes}) \ {None} :
          /\ files[i].ctime < MaxChanges
          /\ \E new \in {f \in Files : f.ctime = files[i].ctime + 1} :
                files' = [files EXCEPT ![i] = new]
    /\ UNCHANGED <<process, containers, path>>

-----------------------------------------------------------------------------
Init ==
    /\ process = [p \in Processes |-> Down]
    /\ containers = {}
    /\ files = [i \in 1..MaxFiles |->
                  [ctime |-> 0, content |-> "reviewed", writers |-> "root"]]
    /\ path = 1

Next ==
    \/ \E p \in Processes :
          \/ Start(p) \/ OpenProfile(p) \/ ReadProfile(p) \/ CheckProfile(p)
          \/ Construct(p) \/ Reconcile(p) \/ Listen(p)
          \/ CreateContainer(p) \/ RemoveContainer(p) \/ Crash(p)
    \/ ReplaceFile \/ ChangeFile

Spec == Init /\ [][Next]_vars

-----------------------------------------------------------------------------
(* Properties                                                              *)

\* Requests are taken without OIDC only on a loopback address and never in
\* production, and in production only with the reviewed profile and from pages of
\* HTTPS origins, whatever was changed on disk while the process started.
ListensSafely ==
    \A p \in Processes : process[p].stage = "listening" =>
        /\ process[p].authenticator # "oidc" => process[p].host = "loopback"
        /\ process[p].mode = "production" =>
              /\ process[p].authenticator = "oidc" /\ process[p].profile = "reviewed"
              /\ process[p].origins = "https"

\* Every container of a production process runs under the reviewed seccomp policy,
\* and no container under a document that is not the reviewed one
\* (docs/session-image.md:154).  It is the checksum of the text that was read that
\* keeps this: neither look at the file vouches for that text.
ContainersAreConfined ==
    \A c \in containers :
        c.profile = "reviewed" \/ (c.mode = "development" /\ c.profile = "default")

\* A container is removed by a process of its own instance only: by its owner, or by
\* a start whose configuration has passed every check.  So a running process keeps
\* its sessions as long as no other one starts with its instance id, which
\* README.md:85 asks of the operator.
OnlyOwnLeftovers ==
    [][\A c \in containers \ containers' : \E p \in Processes :
            /\ process[p].instance = c.instance
            /\ \/ process[p].stage = "listening" /\ c.owner = p
               \/ process[p].stage = "reconciling" /\ process[p].authenticator # None]_vars

\* What does not hold: that a start leaves the sessions of a running process alone.
\* One with the same instance id removes them before it listens, so also when it
\* then finds the port taken, or fails half-way (main.ts:60-62).
RunningSessionsSurviveStarts ==
    [][\A c \in containers \ containers' :
            LET owner == process[c.owner] IN
            owner.stage = "listening" /\ owner.instance = c.instance => UNCHANGED process]_vars
=============================================================================
