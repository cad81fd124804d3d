-------------------------- MODULE InstallNginxProofs --------------------------
(***************************************************************************)
(* Theorems about InstallNginx, for any number of installers.              *)
(***************************************************************************)
EXTENDS InstallNginx, TLAPS

Contents == {"previous", "nothing", "torn", "empty", "ours", "another"}

FileType == [kind : {"file", "absent", "dangling", "other"}, content : Contents, mode : Modes]

Pcs == {"idle", "begin", "backup", "stage", "abort", "test", "reload", "active", "unlink",
        "rmdir", "restore", "copy", "unlock"}

Installer == [pc : Pcs, phase : {"apply", "rollback"}, previous : FileType,
              staged : Contents, backup : Contents,
              result : {"none", "unchanged", "installed", "restored", "incomplete"}]

TypeOK ==
    /\ lock \in BOOLEAN
    /\ target \in FileType /\ (target.kind # "file" => target.content = "nothing")
    /\ live \in Contents
    /\ installer \in [Installers -> Installer]
    /\ good \subseteq Contents \ {"torn"}

\* One installer at a time: the others have not begun.
Exclusive ==
    /\ \A i \in Installers : installer[i].pc = "idle" => installer[i] = Idle
    /\ \A i \in Installers : installer[i].pc # "idle" =>
          lock = TRUE /\ \A j \in Installers \ {i} : installer[j].pc = "idle"

Applied == {"test", "reload", "active", "unlink", "rmdir"}

\* What is at the target while an attempt is validated.
Placed(r) ==
    IF r.phase = "apply" THEN target = File(r.staged, "0644")
    ELSE IF Exists(r.previous) THEN target = r.previous
    ELSE target.kind = "absent"

\* What the backup holds from the rename to the end of the transaction.
BackedUp(r) ==
    IF Exists(r.previous)
    THEN /\ r.previous.kind = "file"
         /\ r.backup = r.previous.content \/ (r.pc \in {"rmdir", "restore"} /\ r.backup = "nothing")
    ELSE r.backup = "nothing"

Reported(r) ==
    /\ r.result = "installed" => target = File(r.staged, "0644") /\ live = r.staged
    /\ r.result = "restored"  =>
          /\ Exists(r.previous) => target = r.previous
          /\ ~Exists(r.previous) => ~Exists(target)
          /\ live = target.content
    /\ r.result = "unchanged" /\ Exists(r.previous) => target = r.previous
    /\ r.result \in {"installed", "restored"} => target.content # "torn"

\* What an installer knows at each step of its transaction.
Sound(r) ==
    /\ r.pc = "begin" => r.phase = "apply" /\ r.previous = NotAFile("absent") /\ r.backup = "nothing"
    /\ r.pc \in {"backup", "stage", "abort"} => r.phase = "apply" /\ target = r.previous
    /\ r.pc = "backup" => r.backup = "nothing"
    /\ r.pc = "abort" => r.backup \in {"nothing", "torn", r.previous.content}
    /\ r.pc \in {"stage", "restore", "copy"} \union Applied => BackedUp(r)
    /\ r.pc \in {"restore", "copy"} => r.phase = "rollback"
    /\ r.pc = "copy" => Exists(r.previous)
    /\ r.pc \in Applied => Placed(r)
    /\ r.pc \in {"reload", "active", "unlink", "rmdir"} => target.content # "torn"
    /\ r.pc \in {"active", "unlink", "rmdir"} => live = target.content
    /\ r.pc \in {"unlink", "rmdir"} => target.content \in good
    /\ r.pc = "unlock" => Reported(r)

\* Where a good configuration is, whatever happens to the target next.
Elsewhere(r) == \E content \in good : content \in {"nothing", r.backup} \union kept

Somewhere(r) == \E content \in good : content \in {"nothing", target.content, r.backup} \union kept

Preserved(r) ==
    /\ Somewhere(r)
    /\ r.pc \in {"test", "reload", "active", "unlink", "copy"} => Elsewhere(r)
    /\ r.pc \in {"rmdir", "restore"} => (~Exists(r.previous) \/ r.backup # "nothing" => Elsewhere(r))

AllIdle == \A i \in Installers : installer[i].pc = "idle"

IInv ==
    /\ TypeOK /\ Exclusive
    /\ \A i \in Installers : installer[i].pc # "idle" =>
          Sound(installer[i]) /\ Preserved(installer[i])
    /\ AllIdle => Somewhere(Idle)

LEMMA CandidateTypes == Candidates \subseteq Contents
<1>1. \A e \in Environments : renderNginxConfig(e) \in Contents
  BY DEF renderNginxConfig, EnvironmentIsValid, Environments, Hosts, Contents
<1> QED
  BY <1>1 DEF Candidates

LEMMA IdleType == Idle \in Installer
BY DEF Idle, Installer, Pcs, FileType, Contents, Modes, NotAFile

LEMMA InitIInv == Init => IInv
<1> SUFFICES ASSUME Init PROVE IInv
  OBVIOUS
<1>1. TypeOK
  <2>1. target \in FileType /\ (target.kind # "file" => target.content = "nothing")
        /\ target.content \in {"previous", "nothing"}
    <3>1. CASE \E mode \in Modes : target = File("previous", mode)
      BY <3>1 DEF FileType, Contents, File
    <3>2. CASE \E kind \in {"absent", "dangling", "other"} : target = NotAFile(kind)
      BY <3>2 DEF FileType, Contents, Modes, NotAFile
    <3> QED
      BY <3>1, <3>2 DEF Init
  <2>2. installer \in [Installers -> Installer]
    BY IdleType DEF Init
  <2> QED
    BY <2>1, <2>2 DEF Init, TypeOK, Contents
<1>2. \A i \in Installers : installer[i] = Idle
  BY DEF Init
<1>3. Exclusive /\ AllIdle /\ \A i \in Installers : installer[i].pc = "idle"
  BY <1>2 DEF Exclusive, AllIdle, Idle
<1>4. Somewhere(Idle)
  BY DEF Init, Somewhere
<1> QED
  BY <1>1, <1>3, <1>4 DEF IInv

\* An installer that is under way takes a step and stays under way.
Moves(i) ==
    /\ installer[i].pc # "idle" /\ installer'[i].pc # "idle"
    /\ installer' = [installer EXCEPT ![i] = installer'[i]]
    /\ installer'[i] \in Installer

LEMMA MoveKeeps ==
    ASSUME IInv, NEW i \in Installers, Moves(i), lock' = lock, TypeOK',
           Sound(installer[i])', Preserved(installer[i])'
    PROVE  IInv'
<1>1. \A j \in Installers \ {i} : installer'[j] = installer[j] /\ installer[j].pc = "idle"
  BY DEF Moves, IInv, TypeOK, Exclusive
<1>2. Exclusive'
  BY <1>1 DEF IInv, Exclusive, Moves
<1>3. ~AllIdle'
  BY DEF AllIdle, Moves
<1>4. \A j \in Installers : installer'[j].pc # "idle" => j = i
  BY <1>1
<1> QED
  BY <1>2, <1>3, <1>4 DEF IInv

\* The fields after a step that changes the step number, or reports.
LEMMA GotoFields ==
    ASSUME TypeOK, NEW i \in Installers, installer[i].pc # "idle", NEW pc \in Pcs \ {"idle"},
           Goto(i, pc)
    PROVE  /\ Moves(i) /\ installer'[i].pc = pc
           /\ installer'[i].phase = installer[i].phase
           /\ installer'[i].previous = installer[i].previous
           /\ installer'[i].staged = installer[i].staged
           /\ installer'[i].backup = installer[i].backup
           /\ installer'[i].result = installer[i].result
<1> DEFINE q == [installer[i] EXCEPT !.pc = pc]
<1>1. installer' = [installer EXCEPT ![i] = q] /\ q \in Installer
  BY DEF Goto, Become, TypeOK, Installer
<1>2. installer'[i] = q
  BY <1>1 DEF TypeOK
<1> QED
  BY <1>1, <1>2 DEF Moves, TypeOK, Installer

LEMMA ReportFields ==
    ASSUME TypeOK, NEW i \in Installers, installer[i].pc # "idle",
           NEW result \in {"unchanged", "installed", "restored", "incomplete"},
           Report(i, result)
    PROVE  /\ Moves(i) /\ installer'[i].pc = "unlock" /\ installer'[i].result = result
           /\ installer'[i].phase = installer[i].phase
           /\ installer'[i].previous = installer[i].previous
           /\ installer'[i].staged = installer[i].staged
           /\ installer'[i].backup = installer[i].backup
<1> DEFINE q == [installer[i] EXCEPT !.pc = "unlock", !.result = result]
<1>1. installer' = [installer EXCEPT ![i] = q] /\ q \in Installer
  BY DEF Report, Become, TypeOK, Installer, Pcs
<1>2. installer'[i] = q
  BY <1>1 DEF TypeOK
<1> QED
  BY <1>1, <1>2 DEF Moves, TypeOK, Installer

LEMMA FailsFields ==
    ASSUME TypeOK, NEW i \in Installers, installer[i].pc # "idle", Fails(i)
    PROVE  /\ Moves(i)
           /\ installer'[i].previous = installer[i].previous
           /\ installer'[i].staged = installer[i].staged
           /\ installer'[i].backup = installer[i].backup
           /\ IF installer[i].phase = "apply"
              THEN installer'[i].pc = "restore" /\ installer'[i].phase = "rollback"
              ELSE installer'[i].pc = "unlock" /\ installer'[i].result = "incomplete"
<1>1. CASE installer[i].phase = "apply"
  <2> DEFINE q == [installer[i] EXCEPT !.pc = "restore", !.phase = "rollback"]
  <2>1. installer' = [installer EXCEPT ![i] = q] /\ q \in Installer
    BY <1>1 DEF Fails, Become, TypeOK, Installer, Pcs
  <2>2. installer'[i] = q
    BY <2>1 DEF TypeOK
  <2> QED
    BY <1>1, <2>1, <2>2 DEF Moves, TypeOK, Installer
<1>2. CASE installer[i].phase # "apply"
  <2>1. Report(i, "incomplete")
    BY <1>2 DEF Fails
  <2> QED
    BY <1>2, <2>1, ReportFields
<1> QED
  BY <1>1, <1>2

\* An installer that takes the lock finds the others idle.
LEMMA InstallKeeps ==
    ASSUME IInv, NEW i \in Installers, Install(i)
    PROVE  IInv'
<1>1. PICK candidate \in Candidates :
         installer' = [installer EXCEPT ![i] = [Idle EXCEPT !.pc = "begin", !.staged = candidate]]
  BY DEF Install, acquireDeploymentLock, Become
<1>2. AllIdle /\ Somewhere(Idle)
  BY DEF IInv, Exclusive, AllIdle, Install, acquireDeploymentLock
<1>3. /\ installer'[i] \in Installer
      /\ installer'[i].pc = "begin" /\ installer'[i].phase = "apply"
      /\ installer'[i].previous = NotAFile("absent") /\ installer'[i].backup = "nothing"
  BY <1>1, CandidateTypes, IdleType DEF IInv, TypeOK, Installer, Idle, Pcs
<1>4. \A j \in Installers \ {i} : installer'[j] = installer[j] /\ installer[j].pc = "idle"
  BY <1>1, <1>2 DEF IInv, TypeOK, AllIdle
<1>5. TypeOK'
  BY <1>1, <1>3, <1>4 DEF IInv, TypeOK, Install, acquireDeploymentLock
<1>6. Exclusive' /\ ~AllIdle'
  BY <1>3, <1>4 DEF IInv, Exclusive, AllIdle, Install, acquireDeploymentLock
<1>7. Sound(installer[i])'
  BY <1>3 DEF Sound, Applied
<1>8. Preserved(installer[i])'
  BY <1>2, <1>3 DEF Preserved, Somewhere, Idle, Install, acquireDeploymentLock
<1> QED
  BY <1>3, <1>4, <1>5, <1>6, <1>7, <1>8 DEF IInv

\* An installer that ends leaves a good configuration where it is, or its backup.
LEMMA EndKeeps ==
    ASSUME IInv, NEW i \in Installers, installer[i].pc # "idle", Leave(i), Become(i, Idle),
           lock' \in BOOLEAN, UNCHANGED <<target, live>>,
           good' = good \/ (good' = {target.content} /\ target.content # "torn")
    PROVE  IInv'
<1>1. installer'[i] = Idle
      /\ \A j \in Installers \ {i} : installer'[j] = installer[j] /\ installer[j].pc = "idle"
  BY DEF Become, IInv, TypeOK, Exclusive
<1>2. AllIdle' /\ Exclusive'
  BY <1>1 DEF AllIdle, Exclusive, Idle, IInv
<1>3. TypeOK'
  <2>1. installer' \in [Installers -> Installer]
    BY IdleType DEF Become, IInv, TypeOK
  <2>2. good' \subseteq Contents \ {"torn"}
    BY DEF IInv, TypeOK, FileType
  <2> QED
    BY <2>1, <2>2 DEF IInv, TypeOK
<1>4. Somewhere(Idle)'
  <2>1. PICK content \in good :
           content \in {"nothing", target.content, installer[i].backup} \union kept
    BY DEF IInv, Preserved, Somewhere
  <2>2. content # "torn"
    BY DEF IInv, TypeOK
  <2>3. content \in {"nothing", target'.content} \union kept'
    BY <2>1, <2>2 DEF Leave
  <2> QED
    BY <2>3 DEF Somewhere
<1> QED
  BY <1>2, <1>3, <1>4 DEF IInv, AllIdle

\* A step that changes only the installer keeps the types and the places of files.
LEMMA QuietKeeps ==
    ASSUME IInv, NEW i \in Installers, Moves(i), UNCHANGED <<lock, target, live, kept, good>>
    PROVE  TypeOK' /\ (installer'[i].backup = installer[i].backup => Somewhere(installer[i])')
<1>1. Somewhere(installer[i])
  BY DEF Moves, IInv, Preserved
<1>2. TypeOK'
  BY DEF Moves, IInv, TypeOK
<1> QED
  BY <1>1, <1>2 DEF Somewhere

\* The steps before the rename.
LEMMA PrepareKeeps ==
    ASSUME IInv, NEW i \in Installers, Begin(i) \/ Backup(i) \/ Abort(i)
    PROVE  IInv'
<1>0. /\ TypeOK
      /\ installer[i].pc # "idle" => Sound(installer[i]) /\ Preserved(installer[i])
      /\ target \in FileType /\ installer[i] \in Installer
      /\ target.kind # "file" => target.content = "nothing"
  BY DEF IInv, TypeOK
<1>1. CASE Begin(i)
  <2>0. installer[i].pc = "begin" /\ UNCHANGED <<lock, target, live, kept, good>>
    BY <1>1 DEF Begin
  <2>1. CASE Report(i, "unchanged")
    <3>1. /\ Moves(i) /\ installer'[i].pc = "unlock" /\ installer'[i].result = "unchanged"
          /\ installer'[i].previous = installer[i].previous
          /\ installer'[i].backup = installer[i].backup
      BY <1>0, <2>0, <2>1, ReportFields
    <3>2. TypeOK' /\ Somewhere(installer[i])'
      BY <2>0, <3>1, QuietKeeps
    <3>3. Sound(installer[i])'
      BY <1>0, <2>0, <3>1 DEF Sound, Applied, Reported, Exists, NotAFile
    <3>4. Preserved(installer[i])'
      BY <3>1, <3>2 DEF Preserved
    <3> QED
      BY <2>0, <3>1, <3>2, <3>3, <3>4, MoveKeeps
  <2>2. CASE Become(i, [installer[i] EXCEPT !.pc = IF Exists(target) THEN "backup" ELSE "stage",
                                            !.previous = target])
    <3>1. /\ Moves(i) /\ installer'[i].pc = (IF Exists(target) THEN "backup" ELSE "stage")
          /\ installer'[i].previous = target /\ installer'[i].phase = "apply"
          /\ installer'[i].backup = "nothing" /\ installer[i].backup = "nothing"
      BY <1>0, <2>0, <2>2 DEF Become, Moves, TypeOK, Installer, Pcs, Sound
    <3>2. TypeOK' /\ Somewhere(installer[i])'
      BY <2>0, <3>1, QuietKeeps
    <3>3. Sound(installer[i])'
      BY <2>0, <3>1 DEF Sound, Applied, BackedUp, Exists
    <3>4. Preserved(installer[i])'
      BY <3>1, <3>2 DEF Preserved
    <3> QED
      BY <2>0, <3>1, <3>2, <3>3, <3>4, MoveKeeps
  <2> QED
    BY <1>1, <2>1, <2>2 DEF Begin
<1>2. CASE Backup(i)
  <2>0. /\ installer[i].pc = "backup" /\ UNCHANGED <<lock, target, live, kept, good>>
        /\ installer[i].phase = "apply" /\ installer[i].previous = target
        /\ installer[i].backup = "nothing"
    BY <1>0, <1>2 DEF Backup, Sound
  <2>1. PICK pc \in {"stage", "abort"}, rest \in Contents :
           /\ Become(i, [installer[i] EXCEPT !.pc = pc, !.backup = rest])
           /\ pc = "stage" => target.kind = "file" /\ rest = target.content
           /\ pc = "abort" => rest \in {"nothing", "torn"}
    BY <1>0, <1>2 DEF Backup, Contents, FileType
  <2>2. /\ Moves(i) /\ installer'[i].pc = pc /\ installer'[i].backup = rest
        /\ installer'[i].previous = target /\ installer'[i].phase = "apply"
    BY <1>0, <2>0, <2>1 DEF Become, Moves, TypeOK, Installer, Pcs
  <2>3. TypeOK'
    BY <2>0, <2>2, QuietKeeps
  <2>4. Sound(installer[i])'
    BY <2>0, <2>1, <2>2 DEF Sound, Applied, BackedUp, Exists
  <2>5. Preserved(installer[i])'
    BY <1>0, <2>0, <2>1, <2>2 DEF Preserved, Somewhere
  <2> QED
    BY <2>0, <2>2, <2>3, <2>4, <2>5, MoveKeeps
<1>3. CASE Abort(i)
  <2>0. /\ installer[i].pc = "abort" /\ UNCHANGED <<lock, target, live, kept, good>>
        /\ installer[i].previous = target
        /\ installer[i].backup \in {"nothing", "torn", target.content}
    BY <1>0, <1>3 DEF Abort, Sound
  <2>1. PICK rest \in {"nothing", installer[i].backup} :
           Become(i, [installer[i] EXCEPT !.pc = "unlock", !.result = "unchanged",
                                          !.backup = rest])
    BY <1>3 DEF Abort
  <2>2. /\ Moves(i) /\ installer'[i].pc = "unlock" /\ installer'[i].result = "unchanged"
        /\ installer'[i].previous = target
    BY <1>0, <2>0, <2>1 DEF Become, Moves, TypeOK, Installer, Pcs, Contents
  <2>3. TypeOK'
    BY <2>0, <2>2, QuietKeeps
  <2>4. Sound(installer[i])'
    BY <2>0, <2>2 DEF Sound, Applied, Reported
  <2>5. Preserved(installer[i])'
    <3>1. \E content \in good : content \in {"nothing", target.content} \union kept
      BY <1>0, <2>0 DEF Preserved, Somewhere, TypeOK
    <3> QED
      BY <2>0, <2>2, <3>1 DEF Preserved, Somewhere
  <2> QED
    BY <2>0, <2>2, <2>3, <2>4, <2>5, MoveKeeps
<1> QED
  BY <1>1, <1>2, <1>3

\* What an installer that is under way knows, in one place.
LEMMA UnderWay ==
    ASSUME IInv, NEW i \in Installers, installer[i].pc # "idle"
    PROVE  /\ TypeOK /\ Sound(installer[i]) /\ Preserved(installer[i])
           /\ installer[i] \in Installer /\ target \in FileType
           /\ target.kind # "file" => target.content = "nothing"
BY DEF IInv, TypeOK

\* A step that fails keeps what can be restored, and where a good configuration is.
LEMMA FailsKeeps ==
    ASSUME IInv, NEW i \in Installers, installer[i].pc # "idle", Fails(i), lock' = lock,
           TypeOK', UNCHANGED <<kept, good>>, Somewhere(installer[i])',
           installer[i].phase = "apply" => BackedUp(installer[i]),
           installer[i].phase = "apply" =>
               (~Exists(installer[i].previous) \/ installer[i].backup # "nothing"
                   => Elsewhere(installer[i]))
    PROVE  IInv'
<1>0. TypeOK
  BY UnderWay
<1>1. /\ Moves(i)
      /\ installer'[i].previous = installer[i].previous
      /\ installer'[i].backup = installer[i].backup
      /\ IF installer[i].phase = "apply"
         THEN installer'[i].pc = "restore" /\ installer'[i].phase = "rollback"
         ELSE installer'[i].pc = "unlock" /\ installer'[i].result = "incomplete"
  BY <1>0, FailsFields
<1>2. CASE installer[i].phase = "apply"
  <2>1. Sound(installer[i])'
    BY <1>1, <1>2 DEF Sound, Applied, BackedUp
  <2>2. Preserved(installer[i])'
    BY <1>1, <1>2 DEF Preserved, Elsewhere
  <2> QED
    BY <1>1, <2>1, <2>2, MoveKeeps
<1>3. CASE installer[i].phase # "apply"
  <2>1. Sound(installer[i])'
    BY <1>1, <1>3 DEF Sound, Applied, Reported
  <2>2. Preserved(installer[i])'
    BY <1>1, <1>3 DEF Preserved
  <2> QED
    BY <1>1, <2>1, <2>2, MoveKeeps
<1> QED
  BY <1>2, <1>3

\* The rename keeps what it replaces in the backup.
LEMMA PromoteKeeps ==
    ASSUME IInv, NEW i \in Installers, Promote(i)
    PROVE  IInv'
<1>0. installer[i].pc = "stage" /\ UNCHANGED <<lock, live, kept, good>>
  BY DEF Promote
<1>1. /\ TypeOK /\ Sound(installer[i]) /\ Preserved(installer[i])
      /\ installer[i] \in Installer /\ target \in FileType
      /\ target.kind # "file" => target.content = "nothing"
  BY <1>0, UnderWay
<1>2. /\ installer[i].phase = "apply" /\ target = installer[i].previous
      /\ BackedUp(installer[i])
  BY <1>0, <1>1 DEF Sound
<1>3. Elsewhere(installer[i])
  BY <1>0, <1>1, <1>2 DEF Preserved, Somewhere, Elsewhere, BackedUp, Exists
<1>4. CASE target' = File(installer[i].staged, "0644") /\ Goto(i, "test")
  <2>1. /\ Moves(i) /\ installer'[i].pc = "test" /\ installer'[i].phase = "apply"
        /\ installer'[i].previous = installer[i].previous
        /\ installer'[i].staged = installer[i].staged
        /\ installer'[i].backup = installer[i].backup
    BY <1>0, <1>1, <1>2, <1>4, GotoFields DEF Pcs
  <2>2. target' \in FileType /\ target'.kind = "file"
    BY <1>1, <1>4 DEF File, FileType, Installer, Modes
  <2>3. TypeOK'
    BY <1>0, <1>1, <2>1, <2>2 DEF TypeOK, Moves
  <2>4. Sound(installer[i])'
    BY <1>0, <1>2, <1>4, <2>1 DEF Sound, Applied, Placed, BackedUp
  <2>5. Preserved(installer[i])'
    BY <1>0, <1>3, <2>1 DEF Preserved, Somewhere, Elsewhere
  <2> QED
    BY <1>0, <2>1, <2>3, <2>4, <2>5, MoveKeeps
<1>5. CASE UNCHANGED target /\ Goto(i, "abort")
  <2>1. /\ Moves(i) /\ installer'[i].pc = "abort" /\ installer'[i].phase = "apply"
        /\ installer'[i].previous = installer[i].previous
        /\ installer'[i].backup = installer[i].backup
    BY <1>0, <1>1, <1>2, <1>5, GotoFields DEF Pcs
  <2>2. TypeOK' /\ Somewhere(installer[i])'
    BY <1>0, <1>5, <2>1, QuietKeeps
  <2>3. Sound(installer[i])'
    BY <1>0, <1>2, <1>5, <2>1 DEF Sound, Applied, BackedUp
  <2>4. Preserved(installer[i])'
    BY <2>1, <2>2 DEF Preserved
  <2> QED
    BY <1>0, <2>1, <2>2, <2>3, <2>4, MoveKeeps
<1> QED
  BY <1>4, <1>5 DEF Promote

\* The validation of what is in place.
LEMMA ValidateKeeps ==
    ASSUME IInv, NEW i \in Installers, Test(i) \/ Reload(i) \/ IsActive(i)
    PROVE  IInv'
<1>0. installer[i].pc \in {"test", "reload", "active"} /\ UNCHANGED <<lock, target, kept>>
  BY DEF Test, Reload, IsActive
<1>1. /\ TypeOK /\ Sound(installer[i]) /\ Preserved(installer[i])
      /\ installer[i] \in Installer /\ target \in FileType
  BY <1>0, UnderWay
<1>2. /\ BackedUp(installer[i]) /\ Placed(installer[i]) /\ Elsewhere(installer[i])
      /\ Somewhere(installer[i])
      /\ installer[i].pc \in {"reload", "active"} => target.content # "torn"
      /\ installer[i].pc = "active" => live = target.content
  BY <1>0, <1>1 DEF Sound, Preserved, Applied
<1>3. CASE Fails(i) /\ good' = good /\ live' \in {live, target.content}
  <2>1. Moves(i) /\ installer'[i].backup = installer[i].backup
    BY <1>0, <1>1, <1>3, FailsFields
  <2>2. TypeOK'
    BY <1>0, <1>1, <1>3, <2>1 DEF TypeOK, Moves, FileType
  <2>3. Somewhere(installer[i])'
    BY <1>0, <1>2, <1>3, <2>1 DEF Somewhere
  <2> QED
    BY <1>0, <1>2, <1>3, <2>2, <2>3, FailsKeeps
<1>4. ASSUME NEW pc \in {"reload", "active", "unlink"}, Goto(i, pc),
             live' \in Contents, good' \in {good, good \union {target.content}},
             target.content # "torn",
             pc \in {"active", "unlink"} => live' = target.content,
             pc = "unlink" => target.content \in good'
      PROVE  IInv'
  <2>1. /\ Moves(i) /\ installer'[i].pc = pc
        /\ installer'[i].phase = installer[i].phase
        /\ installer'[i].previous = installer[i].previous
        /\ installer'[i].staged = installer[i].staged
        /\ installer'[i].backup = installer[i].backup
    BY <1>0, <1>1, <1>4, GotoFields DEF Pcs
  <2>2. TypeOK'
    BY <1>0, <1>1, <1>4, <2>1 DEF TypeOK, Moves, FileType
  <2>3. BackedUp(installer[i])' /\ Placed(installer[i])'
    BY <1>0, <1>2, <2>1 DEF BackedUp, Placed
  <2>4. Sound(installer[i])'
    BY <1>0, <1>4, <2>1, <2>3 DEF Sound, Applied
  <2>5. Preserved(installer[i])'
    BY <1>0, <1>2, <1>4, <2>1 DEF Preserved, Somewhere, Elsewhere
  <2> QED
    BY <1>0, <2>1, <2>2, <2>4, <2>5, MoveKeeps
<1>5. CASE Test(i)
  <2>1. CASE target.content # "torn" /\ Goto(i, "reload")
    BY <1>1, <1>4, <1>5, <2>1 DEF Test, TypeOK
  <2> QED
    BY <1>3, <1>5, <2>1 DEF Test
<1>6. CASE Reload(i)
  <2>1. CASE Goto(i, "active") /\ live' = target.content
    BY <1>1, <1>2, <1>4, <1>6, <2>1 DEF Reload, FileType
  <2> QED
    BY <1>3, <1>6, <2>1 DEF Reload
<1>7. CASE IsActive(i)
  <2>1. CASE Goto(i, "unlink") /\ good' = good \union {target.content}
    BY <1>1, <1>2, <1>4, <1>7, <2>1 DEF IsActive, FileType
  <2> QED
    BY <1>3, <1>7, <2>1 DEF IsActive
<1> QED
  BY <1>5, <1>6, <1>7

\* The backup goes only when what is in place may be relied on.
LEMMA CleanupKeeps ==
    ASSUME IInv, NEW i \in Installers, UnlinkBackup(i) \/ RemoveDirectory(i)
    PROVE  IInv'
<1>0. installer[i].pc \in {"unlink", "rmdir"} /\ UNCHANGED <<lock, target, live, kept, good>>
  BY DEF UnlinkBackup, RemoveDirectory
<1>1. /\ TypeOK /\ Sound(installer[i]) /\ Preserved(installer[i])
      /\ installer[i] \in Installer
  BY <1>0, UnderWay
<1>2. /\ BackedUp(installer[i]) /\ Placed(installer[i]) /\ target.content # "torn"
      /\ live = target.content /\ target.content \in good
      /\ ~Exists(installer[i].previous) \/ installer[i].backup # "nothing"
            => Elsewhere(installer[i])
  BY <1>0, <1>1 DEF Sound, Preserved, Applied
<1>3. CASE Fails(i)
  <2>1. Moves(i) /\ installer'[i].backup = installer[i].backup
    BY <1>0, <1>1, <1>3, FailsFields
  <2>2. TypeOK' /\ Somewhere(installer[i])'
    BY <1>0, <2>1, QuietKeeps
  <2> QED
    BY <1>0, <1>2, <1>3, <2>2, FailsKeeps
<1>4. CASE installer[i].pc = "unlink"
           /\ Become(i, [installer[i] EXCEPT !.pc = "rmdir", !.backup = "nothing"])
  <2>1. /\ Moves(i) /\ installer'[i].pc = "rmdir"
        /\ installer'[i].phase = installer[i].phase
        /\ installer'[i].previous = installer[i].previous
        /\ installer'[i].staged = installer[i].staged
        /\ installer'[i].backup = "nothing"
    <3> DEFINE q == [installer[i] EXCEPT !.pc = "rmdir", !.backup = "nothing"]
    <3>1. installer' = [installer EXCEPT ![i] = q] /\ q \in Installer
      BY <1>1, <1>4 DEF Become, Installer, Pcs, Contents
    <3>2. installer'[i] = q
      BY <1>1, <3>1 DEF TypeOK
    <3>3. /\ q.pc = "rmdir" /\ q.backup = "nothing"
          /\ q.phase = installer[i].phase /\ q.previous = installer[i].previous
          /\ q.staged = installer[i].staged
      BY <1>1 DEF Installer
    <3> HIDE DEF q
    <3> QED
      BY <1>4, <3>1, <3>2, <3>3 DEF Moves
  <2>2. TypeOK'
    BY <1>0, <2>1, QuietKeeps
  <2>3. Sound(installer[i])'
    BY <1>0, <1>2, <2>1 DEF Sound, Applied, BackedUp, Placed
  <2>4. Somewhere(installer[i])'
    BY <1>0, <1>2 DEF Somewhere
  <2>5. ~Exists(installer[i].previous) => installer[i].backup = "nothing"
    BY <1>2 DEF BackedUp
  <2>6. Preserved(installer[i])'
    BY <1>0, <1>2, <2>1, <2>4, <2>5 DEF Preserved, Elsewhere
  <2> QED
    BY <1>0, <2>1, <2>2, <2>3, <2>6, MoveKeeps
<1>5. CASE \E result \in {"installed", "restored"} :
              /\ Report(i, result)
              /\ result = (IF installer[i].phase = "apply" THEN "installed" ELSE "restored")
  <2>1. PICK result \in {"installed", "restored"} :
              /\ Report(i, result)
              /\ result = (IF installer[i].phase = "apply" THEN "installed" ELSE "restored")
    BY <1>5
  <2>2. /\ Moves(i) /\ installer'[i].pc = "unlock" /\ installer'[i].result = result
        /\ installer'[i].previous = installer[i].previous
        /\ installer'[i].staged = installer[i].staged
        /\ installer'[i].backup = installer[i].backup
    BY <1>0, <1>1, <2>1, ReportFields
  <2>3. TypeOK' /\ Somewhere(installer[i])'
    BY <1>0, <2>2, QuietKeeps
  <2>4. Reported(installer[i])'
    <3>1. CASE installer[i].phase = "apply"
      BY <1>0, <1>2, <2>1, <2>2, <3>1 DEF Reported, Placed, File
    <3>2. CASE installer[i].phase # "apply"
      BY <1>0, <1>2, <2>1, <2>2, <3>2 DEF Reported, Placed, Exists
    <3> QED
      BY <3>1, <3>2
  <2>5. Sound(installer[i])'
    BY <2>2, <2>4 DEF Sound, Applied
  <2>6. Preserved(installer[i])'
    BY <2>2, <2>3 DEF Preserved
  <2> QED
    BY <1>0, <2>2, <2>3, <2>5, <2>6, MoveKeeps
<1> QED
  BY <1>3, <1>4, <1>5 DEF UnlinkBackup, RemoveDirectory

\* The rollback: what it writes over is kept elsewhere.
LEMMA RollbackKeeps ==
    ASSUME IInv, NEW i \in Installers, Restore(i) \/ CopyBack(i)
    PROVE  IInv'
<1>0. installer[i].pc \in {"restore", "copy"} /\ UNCHANGED <<lock, live, kept, good>>
  BY DEF Restore, CopyBack
<1>1. /\ TypeOK /\ Sound(installer[i]) /\ Preserved(installer[i])
      /\ installer[i] \in Installer /\ target \in FileType
  BY <1>0, UnderWay
<1>2. /\ BackedUp(installer[i]) /\ installer[i].phase = "rollback"
      /\ Somewhere(installer[i])
      /\ installer[i].pc = "copy" => Exists(installer[i].previous) /\ Elsewhere(installer[i])
      /\ installer[i].pc = "restore" =>
            (~Exists(installer[i].previous) \/ installer[i].backup # "nothing"
                => Elsewhere(installer[i]))
  BY <1>0, <1>1 DEF Sound, Preserved
<1>3. ASSUME Fails(i), target' \in FileType, target'.kind # "file" => target'.content = "nothing",
             Elsewhere(installer[i]) \/ target' = target
      PROVE  IInv'
  <2>1. Moves(i) /\ installer'[i].backup = installer[i].backup
    BY <1>0, <1>1, <1>3, FailsFields
  <2>2. TypeOK'
    BY <1>0, <1>1, <1>3, <2>1 DEF TypeOK, Moves
  <2>3. Somewhere(installer[i])'
    BY <1>0, <1>2, <1>3, <2>1 DEF Somewhere, Elsewhere
  <2> QED
    BY <1>0, <1>2, <1>3, <2>2, <2>3, FailsKeeps
<1>4. ASSUME NEW pc \in {"test", "copy"}, Goto(i, pc), Elsewhere(installer[i]),
             target' \in FileType, target'.kind # "file" => target'.content = "nothing",
             pc = "copy" => Exists(installer[i].previous) /\ installer[i].backup # "nothing",
             pc = "test" => IF Exists(installer[i].previous)
                            THEN /\ target' = installer[i].previous
                                 /\ installer[i].backup = installer[i].previous.content
                            ELSE target'.kind = "absent"
      PROVE  IInv'
  <2>1. /\ Moves(i) /\ installer'[i].pc = pc
        /\ installer'[i].phase = installer[i].phase
        /\ installer'[i].previous = installer[i].previous
        /\ installer'[i].backup = installer[i].backup
    BY <1>0, <1>1, <1>4, GotoFields DEF Pcs
  <2>2. TypeOK'
    BY <1>0, <1>1, <1>4, <2>1 DEF TypeOK, Moves
  <2>3. BackedUp(installer[i])'
    BY <1>2, <1>4, <2>1 DEF BackedUp
  <2>4. pc = "test" => Placed(installer[i])'
    BY <1>2, <1>4, <2>1 DEF Placed
  <2>5. Sound(installer[i])'
    BY <1>2, <1>4, <2>1, <2>3, <2>4 DEF Sound, Applied
  <2>6. Preserved(installer[i])'
    BY <1>0, <1>4, <2>1 DEF Preserved, Somewhere, Elsewhere
  <2> QED
    BY <1>0, <2>1, <2>2, <2>5, <2>6, MoveKeeps
<1>5. CASE Restore(i)
  <2>0. installer[i].pc = "restore"
    BY <1>5 DEF Restore
  <2>1. CASE /\ ~Exists(installer[i].previous) /\ target' = NotAFile("absent")
             /\ Goto(i, "test")
    <3>1. target' \in FileType /\ target'.kind = "absent" /\ target'.content = "nothing"
      BY <2>1 DEF NotAFile, FileType, Contents, Modes
    <3> QED
      BY <1>2, <1>4, <2>0, <2>1, <3>1
  <2>2. CASE /\ Exists(installer[i].previous) /\ installer[i].backup # "nothing"
             /\ target' = File("torn", target.mode) /\ Goto(i, "copy")
    <3>1. target' \in FileType /\ target'.kind = "file"
      BY <1>1, <2>2 DEF File, FileType, Contents
    <3> QED
      BY <1>2, <1>4, <2>0, <2>2, <3>1
  <2>3. CASE UNCHANGED target /\ Fails(i)
    BY <1>1, <1>3, <2>3 DEF TypeOK
  <2> QED
    BY <1>5, <2>1, <2>2, <2>3 DEF Restore
<1>6. CASE CopyBack(i)
  <2>0. installer[i].pc = "copy"
    BY <1>6 DEF CopyBack
  <2>1. /\ Exists(installer[i].previous) /\ Elsewhere(installer[i])
        /\ installer[i].previous \in FileType /\ installer[i].previous.kind = "file"
        /\ installer[i].backup = installer[i].previous.content
    BY <1>1, <1>2, <2>0 DEF BackedUp, Installer
  <2>2. CASE /\ target' = File(installer[i].backup, installer[i].previous.mode)
             /\ Goto(i, "test")
    <3>1. target' = installer[i].previous
      BY <2>1, <2>2 DEF File, FileType
    <3> QED
      BY <1>4, <2>1, <2>2, <3>1
  <2>3. CASE target' \in {target, File(installer[i].backup, target.mode)} /\ Fails(i)
    <3>1. target' \in FileType /\ (target'.kind # "file" => target'.content = "nothing")
      BY <1>1, <2>1, <2>3 DEF File, FileType, TypeOK
    <3> QED
      BY <1>3, <2>1, <2>3, <3>1
  <2> QED
    BY <1>6, <2>2, <2>3 DEF CopyBack
<1> QED
  BY <1>5, <1>6

LEMMA StepKeeps == IInv /\ [Next]_vars => IInv'
<1> SUFFICES ASSUME IInv, [Next]_vars PROVE IInv'
  OBVIOUS
<1>1. ASSUME NEW i \in Installers, Install(i) PROVE IInv'
  BY <1>1, InstallKeeps
<1>2. ASSUME NEW i \in Installers, Begin(i) \/ Backup(i) \/ Abort(i) PROVE IInv'
  BY <1>2, PrepareKeeps
<1>3. ASSUME NEW i \in Installers, Promote(i) PROVE IInv'
  BY <1>3, PromoteKeeps
<1>4. ASSUME NEW i \in Installers, Test(i) \/ Reload(i) \/ IsActive(i) PROVE IInv'
  BY <1>4, ValidateKeeps
<1>5. ASSUME NEW i \in Installers, UnlinkBackup(i) \/ RemoveDirectory(i) PROVE IInv'
  BY <1>5, CleanupKeeps
<1>6. ASSUME NEW i \in Installers, Restore(i) \/ CopyBack(i) PROVE IInv'
  BY <1>6, RollbackKeeps
<1>7. ASSUME NEW i \in Installers, Unlock(i) PROVE IInv'
  <2>1. installer[i].pc = "unlock" /\ Leave(i) /\ Become(i, Idle) /\ UNCHANGED <<target, live>>
    BY <1>7 DEF Unlock
  <2>2. lock' \in BOOLEAN
    BY <1>7 DEF Unlock, IInv, TypeOK
  <2>3. installer[i].result \in {"installed", "restored"} => target.content # "torn"
    BY <2>1 DEF IInv, Sound, Reported
  <2>4. good' = good \/ (good' = {target.content} /\ target.content # "torn")
    BY <1>7, <2>3 DEF Unlock
  <2> QED
    BY <2>1, <2>2, <2>4, EndKeeps
<1>8. ASSUME NEW i \in Installers, Crash(i) PROVE IInv'
  <2>1. lock' \in BOOLEAN
    BY <1>8 DEF Crash, IInv, TypeOK
  <2> QED
    BY <1>8, <2>1, EndKeeps DEF Crash
<1>9. CASE RemoveLock
  <2>1. AllIdle /\ lock' = FALSE /\ UNCHANGED <<target, live, installer, kept, good>>
    BY <1>9 DEF RemoveLock, AllIdle
  <2>2. TypeOK' /\ Exclusive' /\ AllIdle'
    BY <2>1 DEF IInv, TypeOK, Exclusive, AllIdle
  <2>3. Somewhere(Idle)'
    BY <2>1 DEF IInv, Somewhere, Idle
  <2> QED
    BY <2>2, <2>3 DEF IInv, AllIdle
<1>10. CASE UNCHANGED vars
  BY <1>10 DEF vars, IInv, TypeOK, Exclusive, AllIdle, Sound, Preserved, Somewhere, Elsewhere,
               Placed, BackedUp, Reported, Idle
<1> QED
  BY <1>1, <1>2, <1>3, <1>4, <1>5, <1>6, <1>7, <1>8, <1>9, <1>10 DEF Next

LEMMA Invariance == Spec => []IInv
BY InitIInv, StepKeeps, PTL DEF Spec

LEMMA IInvReports == IInv => ReportsAreTrue
<1> SUFFICES ASSUME IInv, NEW i \in Installers, installer[i].pc = "unlock"
             PROVE  LET r == installer[i] IN
                    CASE r.result = "installed" -> target = File(r.staged, "0644") /\ live = r.staged
                      [] r.result = "restored"  ->
                            /\ Exists(r.previous) => target = r.previous
                            /\ ~Exists(r.previous) => ~Exists(target)
                            /\ live = target.content
                      [] r.result = "unchanged" -> Exists(r.previous) => target = r.previous
                      [] OTHER -> TRUE
  BY DEF ReportsAreTrue
<1>1. Reported(installer[i])
  BY DEF IInv, Sound
<1> QED
  BY <1>1 DEF Reported

LEMMA IInvNothingIsLost == IInv => NothingIsLost
<1> SUFFICES ASSUME IInv PROVE NothingIsLost
  OBVIOUS
<1>1. CASE AllIdle
  BY <1>1 DEF IInv, Somewhere, Idle, NothingIsLost
<1>2. CASE ~AllIdle
  <2>1. PICK i \in Installers : installer[i].pc # "idle"
    BY <1>2 DEF AllIdle
  <2>2. Somewhere(installer[i])
    BY <2>1 DEF IInv, Preserved
  <2> QED
    BY <2>2 DEF Somewhere, NothingIsLost
<1> QED
  BY <1>1, <1>2

(***************************************************************************)
(* The reports of install-nginx-config.mjs (installed, rolled back,        *)
(* unchanged) are so when the operator is given them, whichever system     *)
(* calls have failed and however many operators run the deployment.        *)
(***************************************************************************)
THEOREM InstallerReportsTruly == Spec => []ReportsAreTrue
BY Invariance, IInvReports, PTL

(***************************************************************************)
(* Whenever an installer is killed and whatever fails, a configuration the *)
(* operator may rely on stays at the target or in a backup: the backup is  *)
(* complete before the rename and removed only after nginx has accepted    *)
(* what replaced it.                                                       *)
(***************************************************************************)
THEOREM InstallerLosesNothing == Spec => []NothingIsLost
BY Invariance, IInvNothingIsLost, PTL
=============================================================================
