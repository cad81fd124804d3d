---------------------------- MODULE InstallNginx ----------------------------
(***************************************************************************)
(* The deployment of the Nginx adapter: scripts/render-nginx-config.mjs    *)
(* and scripts/install-nginx-config.mjs, started one after the other by    *)
(* the shell lines of docs/deployment-adapters.md.                         *)
(*                                                                         *)
(* Every system call that can fail is a step that may fail, an installer   *)
(* may be killed between any two of them, and several operators may run it *)
(* for the same target.  copyFileSync over a target that exists is two     *)
(* steps, because what is there in between is neither file; the rename is  *)
(* one.  A file is what it says and its mode.                              *)
(***************************************************************************)
EXTENDS Naturals, FiniteSets

CONSTANT Installers      \* runs of the deployment that may overlap

VARIABLES
    lock,           \* the directory <target>.lock exists
    target,         \* what is at the path of the target
    live,           \* what the configuration says that nginx runs with
    installer,      \* each installer, with the files of its transaction
    kept,           \* the backups in directories of transactions that have ended
    good            \* what an operator may rely on finding (a history variable):
                    \* the last configuration reported, and any accepted since

vars == <<lock, target, live, installer, kept, good>>

Hosts == {"ours", "another"}
Modes == {"0644", "0600"}

File(content, mode) == [kind |-> "file", content |-> content, mode |-> mode]

\* "absent", or what is neither a file nor nothing.
NotAFile(kind) == [kind |-> kind, content |-> "nothing", mode |-> "0644"]

Idle == [pc |-> "idle", phase |-> "apply", previous |-> NotAFile("absent"),
         staged |-> "nothing", backup |-> "nothing", result |-> "none"]

Become(i, r) == installer' = [installer EXCEPT ![i] = r]
Goto(i, pc) == Become(i, [installer[i] EXCEPT !.pc = pc])

\* The function ends, with the report the operator is given.
Report(i, result) == Become(i, [installer[i] EXCEPT !.pc = "unlock", !.result = result])

\* existsSync follows links: one that leads nowhere is not there.
Exists(file) == file.kind \notin {"absent", "dangling"}

-----------------------------------------------------------------------------
(* The candidate                                                           *)

Environments == [host : Hosts \union {"malformed"}, paths : {"distinct", "same", "unsafe"},
                 port : {"tcp", "other"}]

EnvironmentIsValid(environment) ==
    environment.host # "malformed" /\ environment.paths = "distinct" /\ environment.port = "tcp"

\* A refusal writes to stderr only: the shell has emptied the file and goes on.
renderNginxConfig(environment) ==
    IF EnvironmentIsValid(environment) THEN environment.host ELSE "empty"

\* What the shell can leave in the file it hands to the installer.
Candidates == {renderNginxConfig(environment) : environment \in Environments}

-----------------------------------------------------------------------------
(* Lock and transaction                                                    *)

\* Defect variant: a lock that is there is taken over.
Install_TakesOver(i) ==
    /\ installer[i].pc = "idle"
    /\ \E candidate \in Candidates :
          Become(i, [Idle EXCEPT !.pc = "begin", !.staged = candidate])
    /\ lock' = TRUE
    /\ UNCHANGED <<target, live, kept, good>>

\* mkdir, which fails when the lock is there.
acquireDeploymentLock == ~lock /\ lock' = TRUE

\* A candidate that is no regular file, a target that is no safe path, and a lock
\* that is there end the installer before it has done anything.
Install(i) ==
    /\ installer[i].pc = "idle" /\ acquireDeploymentLock
    /\ \E candidate \in Candidates :
          Become(i, [Idle EXCEPT !.pc = "begin", !.staged = candidate])
    /\ UNCHANGED <<target, live, kept, good>>

\* mkdtemp, and the look at the target.
Begin(i) ==
    /\ installer[i].pc = "begin"
    /\ \/ Report(i, "unchanged")
       \/ Become(i, [installer[i] EXCEPT !.pc = IF Exists(target) THEN "backup" ELSE "stage",
                                         !.previous = target])
    /\ UNCHANGED <<lock, target, live, kept, good>>

\* Defect variant: the copy of the old file is left for when it is needed.
Backup_Later(i) ==
    /\ installer[i].pc = "backup"
    /\ Goto(i, IF target.kind = "file" THEN "stage" ELSE "abort")
    /\ UNCHANGED <<lock, target, live, kept, good>>

Backup(i) ==
    /\ installer[i].pc = "backup"
    /\ \/ /\ target.kind = "file"
          /\ Become(i, [installer[i] EXCEPT !.pc = "stage", !.backup = target.content])
       \/ \E rest \in {"nothing", "torn"} :
              Become(i, [installer[i] EXCEPT !.pc = "abort", !.backup = rest])
    /\ UNCHANGED <<lock, target, live, kept, good>>

\* The copy of the candidate, its mode, and the rename.
Promote(i) ==
    /\ installer[i].pc = "stage"
    /\ \/ /\ target' = File(installer[i].staged, "0644")
          /\ Goto(i, "test")
       \/ UNCHANGED target /\ Goto(i, "abort")
    /\ UNCHANGED <<lock, live, kept, good>>

\* What the catch clause does before the rename; it may fail half-way.
Abort(i) ==
    /\ installer[i].pc = "abort"
    /\ \E rest \in {"nothing", installer[i].backup} :
          Become(i, [installer[i] EXCEPT !.pc = "unlock", !.result = "unchanged",
                                         !.backup = rest])
    /\ UNCHANGED <<lock, target, live, kept, good>>

-----------------------------------------------------------------------------
(* validateAndReload and cleanupTransaction, once to apply, once to roll back *)

Fails(i) ==
    IF installer[i].phase = "apply"
    THEN Become(i, [installer[i] EXCEPT !.pc = "restore", !.phase = "rollback"])
    ELSE Report(i, "incomplete")

\* nginx -t; nothing in a file is a configuration, half of one is not.
Test(i) ==
    /\ installer[i].pc = "test"
    /\ \/ target.content # "torn" /\ Goto(i, "reload")
       \/ Fails(i)
    /\ UNCHANGED <<lock, target, live, kept, good>>

\* systemctl reload; one that fails may have come through.
Reload(i) ==
    /\ installer[i].pc = "reload"
    /\ \/ Goto(i, "active") /\ live' = target.content
       \/ Fails(i) /\ live' \in {live, target.content}
    /\ UNCHANGED <<lock, target, kept, good>>

\* systemctl is-active.
IsActive(i) ==
    /\ installer[i].pc = "active"
    /\ \/ Goto(i, "unlink") /\ good' = good \union {target.content}
       \/ Fails(i) /\ UNCHANGED good
    /\ UNCHANGED <<lock, target, live, kept>>

\* Of the two files only the backup can still be there.
UnlinkBackup(i) ==
    /\ installer[i].pc = "unlink"
    /\ Become(i, [installer[i] EXCEPT !.pc = "rmdir", !.backup = "nothing"]) \/ Fails(i)
    /\ UNCHANGED <<lock, target, live, kept, good>>

RemoveDirectory(i) ==
    /\ installer[i].pc = "rmdir"
    /\ \/ Report(i, IF installer[i].phase = "apply" THEN "installed" ELSE "restored")
       \/ Fails(i)
    /\ UNCHANGED <<lock, target, live, kept, good>>

\* The first step of the rollback: the target is removed, or opened to be written.
Restore(i) ==
    /\ installer[i].pc = "restore"
    /\ LET hadPrevious == Exists(installer[i].previous) IN
       \/ ~hadPrevious /\ target' = NotAFile("absent") /\ Goto(i, "test")
       \/ /\ hadPrevious /\ installer[i].backup # "nothing"
          /\ target' = File("torn", target.mode) /\ Goto(i, "copy")
       \/ UNCHANGED target /\ Fails(i)
    /\ UNCHANGED <<lock, live, kept, good>>

\* The rest of the copy, and chmod.
CopyBack(i) ==
    /\ installer[i].pc = "copy"
    /\ \/ target' = File(installer[i].backup, installer[i].previous.mode) /\ Goto(i, "test")
       \/ target' \in {target, File(installer[i].backup, target.mode)} /\ Fails(i)
    /\ UNCHANGED <<lock, live, kept, good>>

-----------------------------------------------------------------------------
(* The end                                                                 *)

\* What an installer leaves in its directory stays there.
Leave(i) == kept' = kept \union ({installer[i].backup} \ {"nothing", "torn"})

\* A lock that cannot be removed is what is reported then.
Unlock(i) ==
    /\ installer[i].pc = "unlock"
    /\ Leave(i) /\ Become(i, Idle)
    /\ \/ lock' = FALSE /\ installer[i].result \in {"installed", "restored"}
          /\ good' = {target.content}
       \/ lock' = FALSE /\ installer[i].result \notin {"installed", "restored"}
          /\ UNCHANGED good
       \/ UNCHANGED <<lock, good>>
    /\ UNCHANGED <<target, live>>

\* The installer is killed; no later one gets past its lock.
Crash(i) ==
    /\ installer[i].pc # "idle"
    /\ Leave(i) /\ Become(i, Idle)
    /\ UNCHANGED <<lock, target, live, good>>

\* An operator removes a lock that nobody holds any more.
RemoveLock ==
    /\ lock /\ \A i \in Installers : installer[i].pc = "idle"
    /\ lock' = FALSE
    /\ UNCHANGED <<target, live, installer, kept, good>>

Init ==
    /\ lock = FALSE
    /\ target \in {File("previous", mode) : mode \in Modes}
                    \union {NotAFile(kind) : kind \in {"absent", "dangling", "other"}}
    /\ live = target.content
    /\ installer = [i \in Installers |-> Idle]
    /\ kept = {}
    /\ good = {target.content}

Next ==
    \/ \E i \in Installers :
          \/ Install(i) \/ Begin(i) \/ Backup(i) \/ Promote(i) \/ Abort(i)
          \/ Test(i) \/ Reload(i) \/ IsActive(i) \/ UnlinkBackup(i) \/ RemoveDirectory(i)
          \/ Restore(i) \/ CopyBack(i) \/ Unlock(i) \/ Crash(i)
    \/ RemoveLock

Spec == Init /\ [][Next]_vars

-----------------------------------------------------------------------------
(* Properties                                                              *)

\* What the operator is told is so: after "installed" the candidate is in place and
\* nginx runs with it; after "restored" the file that was there is back, with its
\* mode, and nginx runs with it; after any failure before the rename, what was there
\* still is.  (A link that led nowhere counts as no file.)
ReportsAreTrue ==
    \A i \in Installers : installer[i].pc = "unlock" =>
        LET r == installer[i] IN
        CASE r.result = "installed" -> target = File(r.staged, "0644") /\ live = r.staged
          [] r.result = "restored"  ->
                /\ Exists(r.previous) => target = r.previous
                /\ ~Exists(r.previous) => ~Exists(target)
                /\ live = target.content
          [] r.result = "unchanged" -> Exists(r.previous) => target = r.previous
          [] OTHER -> TRUE

\* Whatever fails and whenever an installer is killed, a configuration that nginx
\* last ran with is on the host: in place, or as a backup in a directory of some
\* transaction (docs/deployment-adapters.md:54).
NothingIsLost ==
    \E content \in good :
        \/ content \in {"nothing", target.content} \union kept
        \/ \E i \in Installers : installer[i].backup = content
=============================================================================
