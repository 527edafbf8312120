-------------------------- MODULE Services_proofs ---------------------------
(***************************************************************************)
(* Theorems about secrets, job containers, agent skills, artifacts, live   *)
(* updates, scaling advice, API tokens and job hooks, each about the       *)
(* component's own specification, for every value of its constants; and    *)
(* at the end about all services together, with the cache, the triggers    *)
(* and the pipelines of the modules this one extends.                      *)
(***************************************************************************)
EXTENDS MCServices, BuildCache_proofs, TriggerSchedule_proofs, PipelineSteps_proofs,
        FiniteSetTheorems, TLAPS

(***************************************************************************)
(* Secrets                                                                 *)
(***************************************************************************)
SecretsOK ==
    /\ secrets \in [SecretName -> SecretRow]
    /\ fernet \in FernetKey
    /\ session \in [VaultSession -> Handler]

\* What a handler with a new value writes is a row, active as the row was.
LEMMA WrittenRow ==
    ASSUME NEW entry \in SecretRow, NEW h \in Handler, h.op \in {"update", "rotate"},
           NEW version \in 1 .. 2, fernet \in FernetKey
    PROVE  /\ Written(entry, h, version) \in SecretRow
           /\ Written(entry, h, version).active => entry.active
<1> DEFINE number == IF version # h.row.version THEN version ELSE entry.version
           new == [entry EXCEPT !.by = h.op, !.key = fernet, !.version = number]
<1>1. number \in 1 .. 2
  BY DEF SecretRow
<1>2. Written(entry, h, version) = new
  BY DEF Written
<1> HIDE DEF number
<1>3. new \in SecretRow /\ new.active = entry.active
  BY <1>1 DEF SecretRow
<1> QED BY <1>2, <1>3, Zenon

\* A commit of a row that activates nothing keeps the table.
LEMMA CommitKeepsSecrets ==
    ASSUME SecretsOK, NEW s \in VaultSession, NEW op \in {"create", "update", "rotate", "delete"},
           NEW entry, Commits(s, op, entry),
           session[s].name \in SecretName =>
               entry \in SecretRow /\ (entry.active /\ secrets[session[s].name].exists =>
                                        secrets[session[s].name].active)
    PROVE  /\ SecretsOK'
           /\ \A n \in SecretName : secrets[n].exists /\ secrets'[n].active => secrets[n].active
<1>1. session' \in [VaultSession -> Handler] /\ fernet' \in FernetKey
  BY DEF SecretsOK, Commits, AtRest, NoSecret, Handler, SecretRow
<1>2. CASE session[s].name \notin SecretName
  <2>1. secrets' = secrets
    BY <1>2 DEF SecretsOK, Commits
  <2> QED BY <1>1, <2>1 DEF SecretsOK
<1>3. CASE session[s].name \in SecretName
  BY <1>1, <1>3 DEF SecretsOK, Commits
<1> QED BY <1>2, <1>3

\* A step of any handler keeps the rows typed and activates none that is there.
LEMMA VaultStep ==
    ASSUME SecretsOK, [VaultNext]_vaultVars
    PROVE  /\ SecretsOK'
           /\ \A n \in SecretName : secrets[n].exists /\ secrets'[n].active => secrets[n].active
<1> DEFINE Guarded == /\ SecretsOK'
                   /\ \A n \in SecretName :
                         secrets[n].exists /\ secrets'[n].active => secrets[n].active
<1>1. ASSUME NEW s \in VaultSession,
             CommitCreate(s) \/ CommitUpdate(s) \/ CommitRotate(s) \/ CommitDelete(s)
      PROVE  Guarded
  <2> DEFINE h == session[s]
             old == secrets[session[s].name]
             fresh == IF old.exists THEN old
                     ELSE [exists |-> TRUE, active |-> TRUE, version |-> 1, key |-> fernet, by |-> "create"]
             gone == [old EXCEPT !.active = FALSE]
  <2>0. h \in Handler /\ fernet \in FernetKey /\ (h.name \in SecretName => old \in SecretRow)
    BY DEF SecretsOK
  <2>1. CASE CommitCreate(s)
    <3>1. h.name \in SecretName => fresh \in SecretRow /\ (fresh.active /\ old.exists => old.active)
      BY <2>0 DEF SecretRow
    <3>2. Commits(s, "create", fresh)
      BY <2>1 DEF CommitCreate
    <3> HIDE DEF fresh
    <3> QED BY <3>1, <3>2, CommitKeepsSecrets
  <2>2. ASSUME NEW op \in {"update", "rotate"}, NEW version \in 1 .. 2,
               Commits(s, op, Written(old, h, version))
        PROVE  Guarded
    <3>1. h.op \in {"update", "rotate"}
      BY <2>2 DEF Commits
    <3>2. h.name \in SecretName =>
            /\ Written(old, h, version) \in SecretRow
            /\ Written(old, h, version).active => old.active
      BY <2>0, <3>1, WrittenRow
    <3> QED BY <2>2, <3>2, CommitKeepsSecrets
  <2>3. CASE CommitDelete(s)
    <3>1. h.name \in SecretName => gone \in SecretRow /\ ~ gone.active
      BY <2>0 DEF SecretRow
    <3>2. Commits(s, "delete", gone)
      BY <2>3 DEF CommitDelete
    <3> HIDE DEF gone
    <3> QED BY <3>1, <3>2, CommitKeepsSecrets
  <2> QED BY <1>1, <2>1, <2>2, <2>3 DEF CommitUpdate, CommitRotate
<1>2. ASSUME NEW s \in VaultSession, ReadSecret(s) PROVE SecretsOK' /\ secrets' = secrets
  BY <1>2 DEF SecretsOK, ReadSecret, Reads, Handler
<1>3. CASE RestartServer
  BY <1>3 DEF SecretsOK, RestartServer, AtRest, NoSecret, Handler, SecretRow
<1>4. ASSUME NEW f \in Fingerprint,
             CreateSSHKey(f) \/ UpdateSSHKey(f) \/ DeleteSSHKey(f) \/ ValidateAgentKey(f)
      PROVE  SecretsOK' /\ secrets' = secrets
  BY <1>4 DEF SecretsOK, CreateSSHKey, UpdateSSHKey, DeleteSSHKey, ValidateAgentKey
<1>5. ASSUME NEW g \in Group,
             WriteGroup(g) \/ DeleteGroup(g) \/ \E name \in Group : RenameGroup(g, name)
      PROVE  SecretsOK' /\ secrets' = secrets
  BY <1>5 DEF SecretsOK, WriteGroup, DeleteGroup, RenameGroup
<1>6. CASE UNCHANGED vaultVars
  BY <1>6 DEF SecretsOK, vaultVars
<1> QED BY <1>1, <1>2, <1>3, <1>4, <1>5, <1>6 DEF VaultNext

\* A secret that was deleted never reaches a build again, whatever handlers that
\* read it before write after it, and whatever keys the server is started with.
THEOREM DeletedStaysDeleted == VaultSpec => DeletedSecretStaysDeleted
<1>1. VaultInit => SecretsOK
  BY DEF VaultInit, SecretsOK, SecretRow, Handler, AtRest, NoSecret
<1>2. SecretsOK /\ [VaultNext]_vaultVars => SecretsOK'
  BY VaultStep
<1>3. SecretsOK /\ [VaultNext]_vaultVars =>
        [\A n \in SecretName : secrets[n].exists /\ ~secrets[n].active =>
            ~secrets'[n].active /\ n \notin BuildEnv']_vaultVars
  BY VaultStep DEF BuildEnv, Decrypts
<1> QED BY <1>1, <1>2, <1>3, PTL DEF VaultSpec, DeletedSecretStaysDeleted

\* The tables of the vault are typed: no handler writes a row of another form.
THEOREM VaultTypeCorrect == VaultSpec => []VaultTypeOK
<1> DEFINE Others == /\ keyUsed \subseteq Fingerprint \ {""}
                   /\ sshKeys \in [Fingerprint -> {"none", "active", "inactive"}]
                   /\ groups \in [Group -> 0 .. 2] /\ writes \in 0 .. MaxWrites
<1>1. VaultInit => SecretsOK /\ Others
  BY VaultAssumption DEF VaultInit, SecretsOK, SecretRow, Handler, AtRest, NoSecret
<1>2. ASSUME SecretsOK, Others, [VaultNext]_vaultVars PROVE SecretsOK' /\ Others'
  <2>1. SecretsOK'
    BY <1>2, VaultStep
  <2>2. ASSUME NEW s \in VaultSession, ReadSecret(s) PROVE Others'
    <3>1. writes < MaxWrites /\ writes' = writes + 1 /\ UNCHANGED <<keyUsed, sshKeys, groups>>
      BY <2>2 DEF ReadSecret, Reads
    <3>2. writes' \in 0 .. MaxWrites
      <4>1. writes \in 0 .. MaxWrites
        BY <1>2
      <4> HIDE DEF Others
      <4> QED BY <3>1, <4>1, VaultAssumption
    <3> QED BY <1>2, <3>1, <3>2
  <2>3. ASSUME NEW s \in VaultSession,
               CommitCreate(s) \/ CommitUpdate(s) \/ CommitRotate(s) \/ CommitDelete(s)
        PROVE  Others'
    BY <1>2, <2>3 DEF CommitCreate, CommitUpdate, CommitRotate, CommitDelete, Commits
  <2>4. ASSUME RestartServer PROVE Others'
    BY <1>2, <2>4 DEF RestartServer
  <2>5. ASSUME NEW f \in Fingerprint,
               CreateSSHKey(f) \/ UpdateSSHKey(f) \/ DeleteSSHKey(f) \/ ValidateAgentKey(f)
        PROVE  Others'
    BY <1>2, <2>5 DEF CreateSSHKey, UpdateSSHKey, DeleteSSHKey, ValidateAgentKey
  <2>6. ASSUME NEW g \in Group, WriteGroup(g) \/ DeleteGroup(g) PROVE Others'
    <3>1. PICK count \in 0 .. 2 : groups' = [groups EXCEPT ![g] = count]
      <4>1. CASE WriteGroup(g)
        <5>1. PICK variables \in 1 .. 2 : groups' = [groups EXCEPT ![g] = variables]
          BY <4>1 DEF WriteGroup
        <5>2. variables \in 0 .. 2
          OBVIOUS
        <5> QED BY <5>1, <5>2, Zenon
      <4>2. CASE DeleteGroup(g)
        BY <4>2 DEF DeleteGroup
      <4> QED BY <2>6, <4>1, <4>2
    <3>2. UNCHANGED <<keyUsed, sshKeys, writes>>
      BY <2>6 DEF WriteGroup, DeleteGroup
    <3> QED BY <1>2, <3>1, <3>2
  <2>7. ASSUME NEW g \in Group, NEW name \in Group, RenameGroup(g, name) PROVE Others'
    BY <1>2, <2>7 DEF RenameGroup
  <2>8. ASSUME UNCHANGED vaultVars PROVE Others'
    BY <1>2, <2>8 DEF vaultVars
  <2> HIDE DEF Others
  <2> QED BY <1>2, <2>1, <2>2, <2>3, <2>4, <2>5, <2>6, <2>7, <2>8 DEF VaultNext
<1>3. SecretsOK /\ Others => VaultTypeOK
  BY DEF SecretsOK, VaultTypeOK
<1> QED BY <1>1, <1>2, <1>3, PTL DEF VaultSpec

(***************************************************************************)
(* Containers                                                              *)
(***************************************************************************)
\* A container is up for its job, or for the manager that will stop it, or it was
\* lost to a call that timed out, to a service that took its name, or to the end
\* of the process.
THEOREM OnlyLostOnesAreLeft == ContainerSpec => []LeftoversAreLost
<1> DEFINE Inv == /\ LeftoversAreLost
                  /\ active \in [Service -> SvcContainer \union {NoContainer}]
                  /\ NoContainer \notin up
<1> USE ContainerAssumption
<1>1. ContainerInit => Inv
  BY DEF ContainerInit, LeftoversAreLost
<1>2. Inv /\ [ContainerNext]_containerVars => Inv'
  <2> SUFFICES ASSUME Inv, [ContainerNext]_containerVars PROVE Inv'
    OBVIOUS
  <2> USE DEF LeftoversAreLost, Remembered
  <2>1. CASE HostChanges
    BY <2>1 DEF HostChanges
  <2>2. ASSUME NEW c \in JobRun, RunWithoutContainer(c) \/ RunContainer(c) PROVE Inv'
    BY <2>2 DEF RunWithoutContainer, RunContainer
  <2>3. CASE ContainerEnds
    BY <2>3 DEF ContainerEnds
  <2>4. CASE ContainerTimesOut
    BY <2>4 DEF ContainerTimesOut, RemovedAfterTimeout
  <2>5. ASSUME NEW b \in SvcBuild, NEW n \in Service, StartService(b, n) PROVE Inv'
    <3> DEFINE c == <<b, n>>
    <3>1. c \in SvcContainer
      BY DEF SvcContainer
    <3> HIDE DEF c
    <3>2. /\ up' = up \union {c} /\ running' = running
          /\ \/ /\ active' = [active EXCEPT ![n] = c]
                /\ lost' = (lost \ {c}) \union ({active[n]} \ {NoContainer, c})
             \/ active' = active /\ lost' = lost \union {c}
      BY <2>5 DEF StartService, c
    <3>3. Remembered \subseteq Remembered' \union lost'
      BY <3>1, <3>2
    <3>4. c \in lost' \/ active'[n] = c
      BY <3>2
    <3>5. c \in lost' \/ c \in Remembered'
      BY <3>1, <3>4
    <3>6. lost \ {c} \subseteq lost' /\ active' \in [Service -> SvcContainer \union {NoContainer}]
      BY <3>1, <3>2
    <3> HIDE DEF Remembered
    <3> QED BY <3>1, <3>2, <3>3, <3>5, <3>6
  <2>6. CASE ProcessDies
    BY <2>6 DEF ProcessDies
  <2>7. ASSUME NEW c \in SvcContainer, ServiceEnds(c) PROVE Inv'
    BY <2>7 DEF ServiceEnds
  <2>8. CASE StopServices
    BY <2>8 DEF StopServices
  <2>9. CASE UNCHANGED containerVars
    BY <2>9 DEF containerVars
  <2> QED BY <2>1, <2>2, <2>3, <2>4, <2>5, <2>6, <2>7, <2>8, <2>9 DEF ContainerNext
<1> QED BY <1>1, <1>2, PTL DEF ContainerSpec

\* Every container on the machine was started for a job or for a service.
THEOREM ContainerTypeCorrect == ContainerSpec => []ContainerTypeOK
<1> USE DEF ContainerTypeOK
<1>1. ContainerInit => ContainerTypeOK
  BY DEF ContainerInit
<1>2. ContainerTypeOK /\ [ContainerNext]_containerVars => ContainerTypeOK'
  <2> SUFFICES ASSUME ContainerTypeOK, [ContainerNext]_containerVars PROVE ContainerTypeOK'
    OBVIOUS
  <2>1. CASE HostChanges
    BY <2>1 DEF HostChanges
  <2>2. ASSUME NEW c \in JobRun, RunWithoutContainer(c) \/ RunContainer(c) PROVE ContainerTypeOK'
    BY <2>2 DEF RunWithoutContainer, RunContainer, Availability
  <2>3. CASE ContainerEnds
    BY <2>3 DEF ContainerEnds
  <2>4. CASE ContainerTimesOut
    BY <2>4 DEF ContainerTimesOut, RemovedAfterTimeout
  <2>5. ASSUME NEW b \in SvcBuild, NEW n \in Service, StartService(b, n)
        PROVE  ContainerTypeOK'
    <3> DEFINE c == <<b, n>>
    <3>1. c \in SvcContainer
      BY DEF SvcContainer
    <3> HIDE DEF c
    <3>2. /\ up' = up \union {c} /\ UNCHANGED <<host, runtime, available, running, used>>
          /\ active' = [active EXCEPT ![n] = c] \/ active' = active
          /\ lost' \subseteq lost \union {c} \union ({active[n]} \ {NoContainer})
      BY <2>5 DEF StartService, c
    <3>3. active[n] \in SvcContainer \union {NoContainer}
      OBVIOUS
    <3> QED BY <3>1, <3>2, <3>3
  <2>6. ASSUME NEW c \in SvcContainer, ServiceEnds(c) PROVE ContainerTypeOK'
    BY <2>6 DEF ServiceEnds
  <2>7. CASE StopServices
    <3>1. Remembered \subseteq SvcContainer
      BY DEF Remembered
    <3> QED BY <2>7, <3>1 DEF StopServices
  <2>8. CASE UNCHANGED containerVars
    BY <2>8 DEF containerVars
  <2>9. CASE ProcessDies
    <3>1. Remembered \subseteq SvcContainer
      BY DEF Remembered
    <3> QED BY <2>9, <3>1 DEF ProcessDies
  <2> QED BY <2>1, <2>2, <2>3, <2>4, <2>5, <2>6, <2>7, <2>8, <2>9 DEF ContainerNext
<1> QED BY <1>1, <1>2, PTL DEF ContainerSpec

(***************************************************************************)
(* Skills                                                                  *)
(***************************************************************************)
\* What the file names was on the machine in the hour it was written.
FileIsTrue ==
    /\ skillFile \in [skills : SUBSET Tool, at : Hour]
    /\ skillFile.at <= hour /\ skillFile.skills \subseteq was[skillFile.at]

SkillInv ==
    /\ hour \in Hour /\ tools \subseteq Tool /\ was \in [Hour -> SUBSET Tool]
    /\ tools \subseteq was[hour]
    /\ FileIsTrue
    /\ takenAt \in Hour \union {Unregistered}
    /\ takenAt # Unregistered => takenAt <= hour
    /\ SkillsAreRecent

\* What a detection finds was on the machine not longer than CacheLife ago, and
\* what it leaves in the file was there when the file says.
LEMMA DetectionIsRecent ==
    ASSUME SkillInv, NEW force \in BOOLEAN, NEW found \in SUBSET Tool, Detected(force, found),
           UNCHANGED <<hour, tools, was>>
    PROVE  /\ FileIsTrue'
           /\ \A t \in found : \E h \in Hour : h <= hour /\ hour <= h + CacheLife /\ t \in was[h]
<1> USE SkillAssumption DEF SkillInv, FileIsTrue, Hour
<1>1. CASE FileValid(force)
  <2>1. found = skillFile.skills /\ skillFile' = skillFile
    BY <1>1 DEF Detected
  <2>2. hour - skillFile.at <= CacheLife
    BY <1>1 DEF FileValid
  <2> QED BY <2>1, <2>2
<1>2. CASE ~FileValid(force)
  <2>1. found \subseteq tools /\ skillFile' \in {[skills |-> found, at |-> hour], skillFile, NoSkillFile}
    BY <1>2 DEF Detected, Probed, FileSaved
  <2>2. FileIsTrue'
    BY <2>1 DEF NoSkillFile
  <2> QED BY <2>1, <2>2
<1> QED BY <1>1, <1>2

LEMMA SkillStep ==
    ASSUME SkillInv, [SkillNext]_skillVars
    PROVE  SkillInv'
<1> USE SkillAssumption DEF SkillInv, Hour, Unregistered
<1>1. CASE HourPasses
  <2>1. /\ hour' = hour + 1 /\ was' = [was EXCEPT ![hour + 1] = tools] /\ hour' \in Hour
        /\ UNCHANGED <<tools, skillFile, skillColumn, takenAt>>
    BY <1>1 DEF HourPasses
  <2>2. \A h \in Hour : h <= hour => was'[h] = was[h]
    BY <2>1
  <2>3. FileIsTrue'
    BY <2>1, <2>2 DEF FileIsTrue
  <2>4. SkillsAreRecent'
    BY <2>1, <2>2 DEF SkillsAreRecent
  <2> QED BY <2>1, <2>3, <2>4
<1>2. ASSUME NEW t \in Tool, ToolChanges(t) PROVE SkillInv'
  <2>1. /\ tools' \subseteq Tool /\ was' = [was EXCEPT ![hour] = was[hour] \union tools']
        /\ UNCHANGED <<hour, skillFile, skillColumn, takenAt>>
    BY <1>2 DEF ToolChanges
  <2>2. \A h \in Hour : was[h] \subseteq was'[h]
    BY <2>1
  <2>3. FileIsTrue'
    BY <2>1, <2>2 DEF FileIsTrue
  <2>4. SkillsAreRecent'
    BY <2>1, <2>2 DEF SkillsAreRecent
  <2> QED BY <2>1, <2>3, <2>4
<1>3. ASSUME NEW force \in BOOLEAN, StartWithSkills(force) PROVE SkillInv'
  <2>1. PICK found \in SUBSET Tool :
           /\ Detected(force, found)
           /\ TakeOver(found) \/ UNCHANGED <<skillColumn, takenAt, skillRows>>
    BY <1>3 DEF StartWithSkills, Registers
  <2>2. UNCHANGED <<hour, tools, was>>
    BY <1>3 DEF StartWithSkills, Registers
  <2>3. /\ FileIsTrue'
        /\ \A t \in found : \E h \in Hour : h <= hour /\ hour <= h + CacheLife /\ t \in was[h]
    BY <2>1, <2>2, DetectionIsRecent
  <2>4. UNCHANGED <<skillColumn, takenAt>> \/ (skillColumn' = found /\ takenAt' = hour)
    BY <2>1 DEF TakeOver
  <2>5. SkillsAreRecent'
    BY <2>2, <2>3, <2>4 DEF SkillsAreRecent
  <2> QED BY <2>2, <2>3, <2>4, <2>5
<1>4. CASE ClearSkillFile
  BY <1>4 DEF ClearSkillFile, NoSkillFile, FileIsTrue, SkillsAreRecent
<1>5. ASSUME UNCHANGED <<hour, tools, was, skillFile, skillColumn, takenAt>> PROVE SkillInv'
  BY <1>5 DEF FileIsTrue, SkillsAreRecent
<1>6. CASE AutoDetect
  BY <1>5, <1>6 DEF AutoDetect
<1>7. ASSUME NEW t \in Tool, AddAgentSkill(t) \/ UpdateAgentSkill(t) \/ DeleteAgentSkill(t)
      PROVE  SkillInv'
  BY <1>5, <1>7 DEF AddAgentSkill, UpdateAgentSkill, DeleteAgentSkill
<1>8. CASE UNCHANGED skillVars
  BY <1>5, <1>8 DEF skillVars
<1> QED BY <1>1, <1>2, <1>3, <1>4, <1>6, <1>7, <1>8 DEF SkillNext

LEMMA SkillInvHolds == SkillSpec => []SkillInv
<1>1. SkillInit => SkillInv
  BY SkillAssumption DEF SkillInit, SkillInv, FileIsTrue, NoSkillFile, Hour, Unregistered, SkillsAreRecent
<1>2. SkillInv /\ [SkillNext]_skillVars => SkillInv'
  BY SkillStep
<1> QED BY <1>1, <1>2, PTL DEF SkillSpec

\* The skills the server took over were on the agent's machine no longer than the
\* life of its file before, whatever was found, written, lost or left unread.
THEOREM SkillsStayRecent == SkillSpec => []SkillsAreRecent
<1>1. SkillInv => SkillsAreRecent
  BY DEF SkillInv
<1> QED BY <1>1, SkillInvHolds, PTL

\* What the server and the file keep are tools, found in hours that were.
THEOREM SkillTypeCorrect == SkillSpec => []SkillTypeOK
<1> DEFINE Others == skillColumn \subseteq Tool /\ skillRows \in [Tool -> {"none", "enabled", "disabled"}]
<1>1. SkillInit => Others
  BY DEF SkillInit
<1>2. ASSUME Others, [SkillNext]_skillVars PROVE Others'
  <2>1. ASSUME NEW force \in BOOLEAN, StartWithSkills(force) PROVE Others'
    <3>1. PICK found \in SUBSET Tool : TakeOver(found) \/ UNCHANGED <<skillColumn, takenAt, skillRows>>
      BY <2>1 DEF StartWithSkills, Registers
    <3> QED BY <1>2, <3>1 DEF TakeOver
  <2>2. CASE HourPasses \/ ClearSkillFile
    BY <1>2, <2>2 DEF HourPasses, ClearSkillFile
  <2>3. CASE AutoDetect
    BY <1>2, <2>3 DEF AutoDetect
  <2>4. ASSUME NEW t \in Tool, ToolChanges(t) \/ AddAgentSkill(t) \/ UpdateAgentSkill(t) \/ DeleteAgentSkill(t)
        PROVE  Others'
    BY <1>2, <2>4 DEF ToolChanges, AddAgentSkill, UpdateAgentSkill, DeleteAgentSkill
  <2>5. CASE UNCHANGED skillVars
    BY <1>2, <2>5 DEF skillVars
  <2> HIDE DEF Others
  <2> QED BY <1>2, <2>1, <2>2, <2>3, <2>4, <2>5 DEF SkillNext
<1>3. SkillInv /\ Others => SkillTypeOK
  BY DEF SkillInv, FileIsTrue, SkillTypeOK
<1> QED BY <1>1, <1>2, <1>3, SkillInvHolds, PTL DEF SkillSpec

(***************************************************************************)
(* Artifacts                                                               *)
(***************************************************************************)
\* Rows and uploads that a cleanup has missed, or has left without their build.
Missed ==
    /\ \A c \in Cleaner, u \in Uploader :
          upload[u].build \in cleanup[c].listed => upload[u].id \in exposed
    /\ \A c \in Cleaner, i \in ArtifactId :
          artifactRows[i] \in cleanup[c].listed => i \in cleanup[c].rows \union exposed
    /\ \A u \in Uploader :
          upload[u].build \notin liveBuilds \union {0} => upload[u].id \in exposed

LEMMA NothingUnderWay ==
    /\ NoUpload \in [id : 0 .. MaxUploads, build : ArtifactBuild \union {0}]
    /\ NoUpload.id = 0 /\ NoUpload.build = 0
    /\ NoCleanup \in [builds : SUBSET ArtifactBuild, listed : SUBSET ArtifactBuild, rows : SUBSET ArtifactId]
    /\ NoCleanup.builds = {} /\ NoCleanup.listed = {} /\ NoCleanup.rows = {}
BY ArtifactAssumption DEF NoUpload, NoCleanup

\* Rows, handlers and cleanups are of builds and rows there are.
THEOREM ArtifactTypeCorrect == ArtifactSpec => []ArtifactTypeOK
<1> USE ArtifactAssumption, NothingUnderWay DEF ArtifactTypeOK
<1>1. ArtifactInit => ArtifactTypeOK
  BY DEF ArtifactInit
<1>2. ASSUME ArtifactTypeOK, [ArtifactNext]_artifactVars PROVE ArtifactTypeOK'
  <2>1. ASSUME NEW u \in Uploader, BeginUpload(u) PROVE ArtifactTypeOK'
    <3>1. PICK b \in liveBuilds : upload' = [upload EXCEPT ![u] = [id |-> uploads + 1, build |-> b]]
      BY <2>1 DEF BeginUpload
    <3>2. uploads + 1 \in 0 .. MaxUploads /\ uploads' = uploads + 1 /\ b \in ArtifactBuild
      BY <1>2, <2>1 DEF BeginUpload
    <3>3. upload' \in [Uploader -> [id : 0 .. MaxUploads, build : ArtifactBuild \union {0}]]
      BY <1>2, <3>1, <3>2
    <3>4. exposed' \subseteq 0 .. MaxUploads
      BY <1>2, <2>1, <3>2 DEF BeginUpload
    <3>5. UNCHANGED <<liveBuilds, artifactRows, cleanup, enforced>>
      BY <2>1 DEF BeginUpload
    <3> QED BY <1>2, <3>2, <3>3, <3>4, <3>5
  <2>2. ASSUME NEW u \in Uploader, RecordArtifact(u) PROVE ArtifactTypeOK'
    <3>1. artifactRows' \in [ArtifactId -> ArtifactBuild \union {0}]
      BY <1>2, <2>2 DEF RecordArtifact
    <3>2. upload' \in [Uploader -> [id : 0 .. MaxUploads, build : ArtifactBuild \union {0}]]
      BY <1>2, <2>2 DEF RecordArtifact
    <3> QED BY <1>2, <2>2, <3>1, <3>2 DEF RecordArtifact
  <2>3. ASSUME NEW i \in ArtifactId, DeleteArtifact(i) PROVE ArtifactTypeOK'
    BY <1>2, <2>3 DEF DeleteArtifact
  <2>4. ASSUME NEW c \in Cleaner, BeginCleanup(c) PROVE ArtifactTypeOK'
    BY <1>2, <2>4 DEF BeginCleanup
  <2>5. ASSUME NEW c \in Cleaner, NEW b \in ArtifactBuild, ListArtifacts(c, b) PROVE ArtifactTypeOK'
    <3>1. cleanup' \in [Cleaner -> [builds : SUBSET ArtifactBuild, listed : SUBSET ArtifactBuild,
                                rows : SUBSET ArtifactId]]
      BY <1>2, <2>5 DEF ListArtifacts, RowsOf
    <3>2. exposed' \subseteq 0 .. MaxUploads
      <4>1. exposed \subseteq 0 .. MaxUploads /\ \A u \in Uploader : upload[u].id \in 0 .. MaxUploads
        BY <1>2
      <4>2. exposed' = exposed \union {upload[u].id : u \in {v \in Uploader : upload[v].build = b}}
        BY <2>5 DEF ListArtifacts
      <4> HIDE ArtifactAssumption, NothingUnderWay DEF ArtifactTypeOK
      <4> QED BY <4>1, <4>2
    <3> QED BY <1>2, <2>5, <3>1, <3>2 DEF ListArtifacts
  <2>6. ASSUME NEW c \in Cleaner, CommitCleanup(c) PROVE ArtifactTypeOK'
    <3>1. Spared(c) \in [ArtifactId -> ArtifactBuild \union {0}]
      BY <1>2 DEF Spared
    <3>2. artifactRows' \in {artifactRows, Spared(c)} /\ liveBuilds' \subseteq liveBuilds
          /\ cleanup' = [cleanup EXCEPT ![c] = NoCleanup]
          /\ UNCHANGED <<upload, enforced, uploads, exposed>>
      BY <2>6 DEF CommitCleanup
    <3>3. cleanup' \in [Cleaner -> [builds : SUBSET ArtifactBuild, listed : SUBSET ArtifactBuild,
                                rows : SUBSET ArtifactId]]
      BY <1>2, <3>2
    <3> QED BY <1>2, <3>1, <3>2, <3>3
  <2>7. CASE RestartArtifacts
    BY <1>2, <2>7 DEF RestartArtifacts
  <2>8. CASE UNCHANGED artifactVars
    BY <1>2, <2>8 DEF artifactVars
  <2> QED BY <1>2, <2>1, <2>2, <2>3, <2>4, <2>5, <2>6, <2>7, <2>8 DEF ArtifactNext
<1> HIDE DEF ArtifactTypeOK
<1> QED BY <1>1, <1>2, PTL DEF ArtifactSpec

LEMMA MissedStep ==
    ASSUME ArtifactTypeOK, Missed, OrphansWereExposed, [ArtifactNext]_artifactVars
    PROVE  Missed' /\ OrphansWereExposed'
<1> USE ArtifactAssumption, NothingUnderWay DEF Missed, OrphansWereExposed
<1>0. /\ artifactRows \in [ArtifactId -> ArtifactBuild \union {0}]
      /\ upload \in [Uploader -> [id : 0 .. MaxUploads, build : ArtifactBuild \union {0}]]
      /\ cleanup \in [Cleaner -> [builds : SUBSET ArtifactBuild, listed : SUBSET ArtifactBuild,
                                  rows : SUBSET ArtifactId]]
      /\ liveBuilds \subseteq ArtifactBuild
  BY DEF ArtifactTypeOK
<1>1. ASSUME NEW u \in Uploader, BeginUpload(u) PROVE Missed' /\ OrphansWereExposed'
  <2>1. PICK b \in liveBuilds :
           /\ upload' = [upload EXCEPT ![u] = [id |-> uploads + 1, build |-> b]]
           /\ exposed' = IF \E c \in Cleaner : b \in cleanup[c].listed
                            THEN exposed \union {uploads + 1} ELSE exposed
    BY <1>1 DEF BeginUpload
  <2>2. UNCHANGED <<liveBuilds, artifactRows, cleanup, enforced>>
    BY <1>1 DEF BeginUpload
  <2>3. \A v \in Uploader : \/ v = u /\ upload'[v].id = uploads + 1 /\ upload'[v].build = b
                            \/ upload'[v] = upload[v]
    BY <1>0, <2>1
  <2>4. exposed \subseteq exposed'
    BY <2>1
  <2>5. \A c \in Cleaner, v \in Uploader :
           upload'[v].build \in cleanup[c].listed => upload'[v].id \in exposed'
    BY <2>1, <2>3, <2>4
  <2> QED BY <2>2, <2>3, <2>4, <2>5
<1>2. ASSUME NEW u \in Uploader, RecordArtifact(u) PROVE Missed' /\ OrphansWereExposed'
  <2>1. upload' = [upload EXCEPT ![u] = NoUpload] /\ UNCHANGED <<liveBuilds, cleanup, enforced, exposed>>
    BY <1>2 DEF RecordArtifact
  <2>2. \A v \in Uploader : upload'[v] \in {NoUpload, upload[v]}
    BY <1>0, <2>1
  <2>3. \A i \in ArtifactId :
           \/ artifactRows'[i] = artifactRows[i]
           \/ /\ i = upload[u].id /\ artifactRows'[i] = upload[u].build
              /\ enforced => upload[u].build \in liveBuilds
    BY <1>0, <1>2 DEF RecordArtifact
  <2>4. \A c \in Cleaner, v \in Uploader :
           upload'[v].build \in cleanup[c].listed => upload'[v].id \in exposed
    <3>1. \A c \in Cleaner : 0 \notin cleanup[c].listed
      BY <1>0
    <3> QED BY <2>2, <3>1
  <2>5. \A v \in Uploader : upload'[v].build \notin liveBuilds \union {0} => upload'[v].id \in exposed
    BY <2>2
  <2>6. \A c \in Cleaner, i \in ArtifactId :
           artifactRows'[i] \in cleanup[c].listed => i \in cleanup[c].rows \union exposed
    BY <2>3
  <2>7. \A i \in ArtifactId :
           artifactRows'[i] \notin liveBuilds \union {0} => ~enforced /\ i \in exposed
    BY <2>3
  <2> QED BY <2>1, <2>4, <2>5, <2>6, <2>7
<1>3. ASSUME NEW i \in ArtifactId, DeleteArtifact(i) PROVE Missed' /\ OrphansWereExposed'
  <2>1. /\ \A j \in ArtifactId : artifactRows'[j] \in {0, artifactRows[j]}
        /\ UNCHANGED <<liveBuilds, upload, cleanup, enforced, exposed>>
    BY <1>0, <1>3 DEF DeleteArtifact
  <2>2. \A c \in Cleaner : 0 \notin cleanup[c].listed
    BY <1>0
  <2> QED BY <2>1, <2>2
<1>4. ASSUME NEW c \in Cleaner, BeginCleanup(c) PROVE Missed' /\ OrphansWereExposed'
  <2>1. /\ \A d \in Cleaner : cleanup'[d].listed = cleanup[d].listed /\ cleanup'[d].rows = cleanup[d].rows
        /\ UNCHANGED <<liveBuilds, artifactRows, upload, enforced, exposed>>
    BY <1>0, <1>4 DEF BeginCleanup
  <2> QED BY <2>1
<1>5. ASSUME NEW c \in Cleaner, NEW b \in ArtifactBuild, ListArtifacts(c, b)
      PROVE  Missed' /\ OrphansWereExposed'
  <2>1. /\ cleanup' = [cleanup EXCEPT ![c] = [builds |-> @.builds, listed |-> @.listed \union {b},
                                              rows |-> @.rows \union RowsOf(b)]]
        /\ exposed' = exposed \union {upload[u].id : u \in {v \in Uploader : upload[v].build = b}}
        /\ UNCHANGED <<liveBuilds, artifactRows, upload, enforced>>
    BY <1>5 DEF ListArtifacts
  <2>2. \A d \in Cleaner :
           \/ cleanup'[d] = cleanup[d]
           \/ /\ cleanup'[d].listed = cleanup[d].listed \union {b}
              /\ cleanup'[d].rows = cleanup[d].rows \union RowsOf(b)
    BY <1>0, <2>1
  <2>3. exposed \subseteq exposed' /\ \A u \in Uploader : upload[u].build = b => upload[u].id \in exposed'
    BY <2>1
  <2>4. \A i \in ArtifactId : artifactRows[i] = b => i \in RowsOf(b)
    BY DEF RowsOf
  <2>5. \A d \in Cleaner, u \in Uploader :
           upload[u].build \in cleanup'[d].listed => upload[u].id \in exposed'
    BY <2>2, <2>3
  <2>6. \A d \in Cleaner, i \in ArtifactId :
           artifactRows[i] \in cleanup'[d].listed => i \in cleanup'[d].rows \union exposed'
    BY <2>2, <2>3, <2>4
  <2> QED BY <2>1, <2>3, <2>5, <2>6
<1>6. ASSUME NEW c \in Cleaner, CommitCleanup(c) PROVE Missed' /\ OrphansWereExposed'
  <2>1. /\ cleanup' = [cleanup EXCEPT ![c] = NoCleanup] /\ UNCHANGED <<upload, enforced, exposed>>
        /\ cleanup[c].listed = cleanup[c].builds
    BY <1>6 DEF CommitCleanup
  <2>2. \A d \in Cleaner : cleanup'[d] \in {NoCleanup, cleanup[d]}
    BY <1>0, <2>1
  <2>3. CASE UNCHANGED <<liveBuilds, artifactRows>>
    BY <2>1, <2>2, <2>3
  <2>4. CASE /\ artifactRows' = Spared(c) /\ liveBuilds' = liveBuilds \ cleanup[c].builds
             /\ ~(enforced /\ WouldDangle(c))
    <3>1. \A i \in ArtifactId : artifactRows'[i] = IF i \in cleanup[c].rows THEN 0 ELSE artifactRows[i]
      BY <2>4 DEF Spared
    <3>2. \A d \in Cleaner : 0 \notin cleanup[d].listed
      BY <1>0
    <3>3. \A d \in Cleaner, i \in ArtifactId :
             artifactRows'[i] \in cleanup'[d].listed => i \in cleanup'[d].rows \union exposed
      BY <2>2, <3>1, <3>2
    <3>4. \A d \in Cleaner, u \in Uploader :
             upload[u].build \in cleanup'[d].listed => upload[u].id \in exposed
      BY <2>2
    <3>5. \A u \in Uploader : upload[u].build \notin liveBuilds' \union {0} => upload[u].id \in exposed
      BY <2>1, <2>4
    <3>6. \A i \in ArtifactId : artifactRows'[i] \in cleanup[c].builds => ~enforced /\ i \in exposed
      <4>1. \A i \in ArtifactId : artifactRows'[i] \in cleanup[c].builds => WouldDangle(c)
        BY <2>4 DEF WouldDangle
      <4>2. \A i \in ArtifactId : artifactRows'[i] \in cleanup[c].builds => i \in exposed
        BY <2>1, <3>1, <3>2
      <4> QED BY <2>4, <4>1, <4>2
    <3>7. \A i \in ArtifactId :
             artifactRows'[i] \notin liveBuilds' \union {0} => ~enforced /\ i \in exposed
      BY <2>4, <3>1, <3>6
    <3> QED BY <2>1, <3>3, <3>4, <3>5, <3>7
  <2> QED BY <1>6, <2>3, <2>4 DEF CommitCleanup
<1>7. CASE RestartArtifacts
  <2>1. /\ \A u \in Uploader : upload'[u] = NoUpload
        /\ \A c \in Cleaner : cleanup'[c] = NoCleanup
        /\ UNCHANGED <<liveBuilds, artifactRows, enforced, exposed>>
    BY <1>7 DEF RestartArtifacts
  <2> QED BY <2>1
<1>8. CASE UNCHANGED artifactVars
  BY <1>8 DEF artifactVars
<1> QED BY <1>1, <1>2, <1>3, <1>4, <1>5, <1>6, <1>7, <1>8 DEF ArtifactNext

\* An artifact's row outlives its build only where the database does not look
\* and its upload was under way after a cleanup had listed the build's rows.
THEOREM OrphansExposed == ArtifactSpec => []OrphansWereExposed
<1>1. ArtifactInit => Missed /\ OrphansWereExposed
  <2> SUFFICES ASSUME ArtifactInit PROVE Missed /\ OrphansWereExposed
    OBVIOUS
  <2>1. /\ \A u \in Uploader : upload[u].build = 0
        /\ \A c \in Cleaner : cleanup[c].listed = {}
        /\ \A i \in ArtifactId : artifactRows[i] = 0
    BY NothingUnderWay DEF ArtifactInit
  <2> QED BY <2>1 DEF Missed, OrphansWereExposed
<1>2. ArtifactTypeOK /\ Missed /\ OrphansWereExposed /\ [ArtifactNext]_artifactVars
         => Missed' /\ OrphansWereExposed'
  BY MissedStep
<1> QED BY <1>1, <1>2, ArtifactTypeCorrect, PTL DEF ArtifactSpec

-----------------------------------------------------------------------------
(***************************************************************************)
(* Live updates                                                            *)
(***************************************************************************)
CastState ==
    [step : {"none", "next", "sending", "done", "broken"},
     size : {0} \union {Cardinality(S) : S \in SUBSET Socket},
     first : SUBSET Socket, sent : SUBSET Socket, failed : SUBSET Socket,
     to : Socket \union {NoSocket}]

\* A broadcast that nobody disturbed loops over the set it began with, and has
\* sent to members of it alone.
LiveInv ==
    /\ subscribed \subseteq Socket
    /\ cast \in [Broadcast -> CastState]
    /\ \A b \in Broadcast : Looping(b) /\ b \notin disturbed =>
          /\ cast[b].first = subscribed /\ cast[b].size = Cardinality(subscribed)
          /\ cast[b].sent \subseteq subscribed
    /\ BroadcastIsNotItsOwnEnemy

LEMMA SocketsKeepLoops ==
    ASSUME LiveInv, NEW s \in Socket,
           \/ Connect(s) \/ LogStreamFails(s) \/ ClientLeaves(s)
           \/ HandlerDisconnects(s) \/ HandlerFails(s)
    PROVE  LiveInv'
<1>1. cast' = cast /\ subscribed' \subseteq Socket /\ disturbed \subseteq disturbed'
  BY DEF Connect, LogStreamFails, ClientLeaves, HandlerDisconnects, HandlerFails, DisturbAll,
         LiveInv
<1>2. \A b \in Broadcast : Looping(b) /\ b \notin disturbed' => subscribed' = subscribed
  BY DEF Connect, LogStreamFails, ClientLeaves, HandlerDisconnects, HandlerFails, DisturbAll,
         LiveInv
<1> QED BY <1>1, <1>2 DEF LiveInv, BroadcastIsNotItsOwnEnemy, Looping

LEMMA BroadcastsKeepLoops ==
    ASSUME LiveInv, NEW b \in Broadcast,
           BeginBroadcast(b) \/ SendNext(b) \/ SendEnds(b) \/ EndBroadcast(b) \/ BreakOff(b)
    PROVE  LiveInv'
<1>1. cast \in [Broadcast -> CastState] /\ cast[b] \in CastState /\ subscribed \subseteq Socket
  BY DEF LiveInv
<1>2. \A c \in Broadcast : c # b => cast'[c] = cast[c]
  BY <1>1 DEF BeginBroadcast, SendNext, SendEnds, EndBroadcast, BreakOff
<1>3. /\ disturbed \subseteq disturbed' /\ subscribed' \subseteq Socket
      /\ \A c \in Broadcast : c # b /\ Looping(c) /\ c \notin disturbed' => subscribed' = subscribed
      /\ b \in disturbed' => b \in disturbed
  BY <1>1 DEF BeginBroadcast, SendNext, SendEnds, EndBroadcast, BreakOff, DisturbOthers, RemovedLater
<1>4. cast' \in [Broadcast -> CastState]
  <2>1. CASE BeginBroadcast(b)
    <3>1. PICK new \in CastState : cast' = [cast EXCEPT ![b] = new]
      BY <1>1, <2>1 DEF BeginBroadcast, NotStarted, CastState
    <3> QED BY <1>1, <3>1
  <2>2. CASE SendNext(b)
    <3>1. PICK s \in Socket : cast' = [cast EXCEPT ![b].step = "sending", ![b].to = s,
                                                  ![b].sent = @ \union {s}]
      BY <1>1, <2>2 DEF SendNext
    <3> DEFINE new == [cast[b] EXCEPT !.step = "sending", !.to = s, !.sent = @ \union {s}]
    <3>2. new \in CastState
      BY <1>1 DEF CastState
    <3>3. cast' = [cast EXCEPT ![b] = new]
      BY <1>1, <3>1 DEF CastState
    <3> QED BY <1>1, <3>2, <3>3
  <2>3. CASE SendEnds(b)
    BY <1>1, <2>3 DEF SendEnds, CastState
  <2>4. CASE EndBroadcast(b) \/ BreakOff(b)
    BY <1>1, <2>4 DEF EndBroadcast, BreakOff, CastState
  <2> QED BY <2>1, <2>2, <2>3, <2>4
<1>5. Looping(b)' /\ b \notin disturbed' =>
          /\ cast'[b].first = subscribed' /\ cast'[b].size = Cardinality(subscribed')
          /\ cast'[b].sent \subseteq subscribed'
  <2>1. CASE BeginBroadcast(b)
    BY <1>1, <2>1 DEF BeginBroadcast, NotStarted, CastState
  <2>2. CASE SendNext(b)
    <3>1. PICK s \in subscribed : cast' = [cast EXCEPT ![b].step = "sending", ![b].to = s,
                                                      ![b].sent = @ \union {s}]
      BY <2>2 DEF SendNext
    <3>2. /\ cast'[b].first = cast[b].first /\ cast'[b].size = cast[b].size
          /\ cast'[b].sent = cast[b].sent \union {s}
      BY <1>1, <3>1 DEF CastState
    <3>3. Looping(b) /\ UNCHANGED <<subscribed, disturbed>>
      BY <2>2 DEF SendNext, Looping
    <3> QED BY <3>2, <3>3 DEF LiveInv
  <2>4. CASE SendEnds(b)
    <3>1. /\ cast'[b].first = cast[b].first /\ cast'[b].size = cast[b].size
          /\ cast'[b].sent = cast[b].sent
      BY <1>1, <2>4 DEF SendEnds, CastState
    <3>2. Looping(b) /\ UNCHANGED <<subscribed, disturbed>>
      BY <2>4 DEF SendEnds, RemovedLater, Looping
    <3> QED BY <3>1, <3>2 DEF LiveInv
  <2>3. CASE EndBroadcast(b) \/ BreakOff(b)
    BY <1>1, <2>3 DEF EndBroadcast, BreakOff, CastState, Looping
  <2> QED BY <2>1, <2>2, <2>3, <2>4
<1>6. /\ cast'[b].step = "broken" => b \in disturbed'
      /\ cast'[b].step = "done" /\ b \notin disturbed' => cast'[b].first = cast'[b].sent
  <2>1. CASE BeginBroadcast(b) \/ SendNext(b) \/ SendEnds(b)
    <3>1. cast'[b].step \in {"next", "sending"}
      <4>1. CASE BeginBroadcast(b)
        BY <1>1, <4>1 DEF BeginBroadcast, NotStarted
      <4>2. CASE SendNext(b)
        <5>1. PICK s \in subscribed : cast' = [cast EXCEPT ![b].step = "sending", ![b].to = s,
                                                          ![b].sent = @ \union {s}]
          BY <4>2 DEF SendNext
        <5> QED BY <1>1, <5>1 DEF CastState
      <4>3. CASE SendEnds(b)
        BY <1>1, <4>3 DEF SendEnds, CastState
      <4> QED BY <2>1, <4>1, <4>2, <4>3
    <3> QED BY <3>1
  <2>2. CASE EndBroadcast(b)
    <3>1. cast'[b].step = "done" /\ cast'[b].first = cast[b].first /\ cast'[b].sent = cast[b].sent
          /\ cast[b].first \intersect subscribed \subseteq cast[b].sent /\ Looping(b)
      BY <1>1, <2>2 DEF EndBroadcast, CastState, Looping
    <3> QED BY <1>3, <3>1 DEF LiveInv
  <2>3. CASE BreakOff(b)
    <3>1. cast'[b].step = "broken" /\ Looping(b) /\ cast[b].size # Cardinality(subscribed)
          /\ disturbed' = disturbed
      BY <1>1, <2>3 DEF BreakOff, CastState, Looping
    <3> QED BY <3>1 DEF LiveInv
  <2> QED BY <2>1, <2>2, <2>3
<1>7. \A c \in Broadcast : Looping(c)' /\ c \notin disturbed' =>
          /\ cast'[c].first = subscribed' /\ cast'[c].size = Cardinality(subscribed')
          /\ cast'[c].sent \subseteq subscribed'
  BY <1>2, <1>3, <1>5 DEF LiveInv, Looping
<1>8. BroadcastIsNotItsOwnEnemy'
  BY <1>2, <1>3, <1>6 DEF LiveInv, BroadcastIsNotItsOwnEnemy
<1> QED BY <1>3, <1>4, <1>7, <1>8 DEF LiveInv

LEMMA LiveInvHolds == LiveSpec => []LiveInv
<1>1. LiveInit => LiveInv
  BY DEF LiveInit, LiveInv, NotStarted, CastState, Looping, BroadcastIsNotItsOwnEnemy
<1>2. LiveInv /\ [LiveNext]_liveVars => LiveInv'
  BY SocketsKeepLoops, BroadcastsKeepLoops
     DEF LiveNext, liveVars, LiveInv, Looping, BroadcastIsNotItsOwnEnemy
<1> QED BY <1>1, <1>2, PTL DEF LiveSpec

\* A broadcast is broken off by others alone, and one that no other touched has
\* tried every socket it began with.
THEOREM BroadcastsAreNotTheirOwnEnemies == LiveSpec => []BroadcastIsNotItsOwnEnemy
<1>1. LiveInv => BroadcastIsNotItsOwnEnemy
  BY DEF LiveInv
<1> QED BY <1>1, LiveInvHolds, PTL

\* A socket that failed is one a broadcast sent to.
SendsFollow ==
    /\ disturbed \subseteq Broadcast
    /\ link \in [Socket -> {"new", "open", "gone", "ended"}]
    /\ \A b \in Broadcast :
          /\ cast[b].failed \subseteq cast[b].sent
          /\ cast[b].step = "sending" => cast[b].to \in cast[b].sent

LEMMA SendsStep ==
    ASSUME LiveInv, SendsFollow, [LiveNext]_liveVars
    PROVE  SendsFollow'
<1>0. cast \in [Broadcast -> CastState]
  BY DEF LiveInv
<1>1. ASSUME NEW s \in Socket,
             \/ Connect(s) \/ LogStreamFails(s) \/ ClientLeaves(s)
             \/ HandlerDisconnects(s) \/ HandlerFails(s)
      PROVE  SendsFollow'
  BY <1>1 DEF Connect, LogStreamFails, ClientLeaves, HandlerDisconnects, HandlerFails, DisturbAll,
              SendsFollow
<1>2. ASSUME NEW b \in Broadcast, NEW new, cast' = [cast EXCEPT ![b] = new], link' = link,
             disturbed' \subseteq disturbed \union Broadcast,
             new.failed \subseteq new.sent, new.step = "sending" => new.to \in new.sent
      PROVE  SendsFollow'
  <2>1. \A c \in Broadcast : cast'[c] = IF c = b THEN new ELSE cast[c]
    BY <1>0, <1>2
  <2> QED BY <1>2, <2>1 DEF SendsFollow
<1>3. ASSUME NEW b \in Broadcast, BeginBroadcast(b) PROVE SendsFollow'
  <2> DEFINE new == [NotStarted EXCEPT !.step = "next", !.size = Cardinality(subscribed), !.first = subscribed]
  <2>1. cast' = [cast EXCEPT ![b] = new] /\ link' = link /\ disturbed' = disturbed
    BY <1>3 DEF BeginBroadcast
  <2>2. new.failed = {} /\ new.step = "next"
    BY DEF NotStarted
  <2> HIDE DEF new
  <2> QED BY <1>2, <2>1, <2>2 DEF SendsFollow
<1>4. ASSUME NEW b \in Broadcast, SendNext(b) PROVE SendsFollow'
  <2>1. PICK s \in subscribed : cast' = [cast EXCEPT ![b].step = "sending", ![b].to = s,
                                                    ![b].sent = @ \union {s}]
    BY <1>4 DEF SendNext
  <2> DEFINE new == [cast[b] EXCEPT !.step = "sending", !.to = s, !.sent = @ \union {s}]
  <2>2. cast' = [cast EXCEPT ![b] = new] /\ link' = link /\ disturbed' = disturbed
    BY <1>0, <1>4, <2>1 DEF SendNext, CastState
  <2>3. cast[b] \in CastState /\ cast[b].failed \subseteq cast[b].sent
    BY <1>0 DEF SendsFollow
  <2>4. new.failed = cast[b].failed /\ new.sent = cast[b].sent \union {s} /\ new.to = s
    BY <2>3 DEF CastState
  <2> HIDE DEF new
  <2> QED BY <1>2, <2>2, <2>3, <2>4 DEF SendsFollow
<1>5. ASSUME NEW b \in Broadcast, SendEnds(b) PROVE SendsFollow'
  <2> DEFINE s == cast[b].to
             new == cast'[b]
  <2>1. /\ cast[b] \in CastState /\ cast[b].failed \subseteq cast[b].sent
        /\ cast[b].step = "sending" /\ s \in cast[b].sent
    BY <1>0, <1>5 DEF SendsFollow, SendEnds
  <2>2. \/ cast' = [cast EXCEPT ![b].step = "next"]
        \/ cast' = [cast EXCEPT ![b].step = "next", ![b].failed = @ \union {s}]
    BY <1>5 DEF SendEnds
  <2>3. /\ new.step = "next" /\ new.sent = cast[b].sent
        /\ new.failed \subseteq cast[b].failed \union {s}
        /\ cast' = [cast EXCEPT ![b] = new]
    BY <1>0, <2>1, <2>2 DEF CastState
  <2>4. link' = link /\ disturbed' = disturbed
    BY <1>5 DEF SendEnds
  <2> HIDE DEF s, new
  <2> QED BY <1>2, <2>1, <2>3, <2>4 DEF SendsFollow
<1>6. ASSUME NEW b \in Broadcast, EndBroadcast(b) \/ BreakOff(b) PROVE SendsFollow'
  <2> DEFINE new == cast'[b]
  <2>1. cast[b] \in CastState /\ cast[b].failed \subseteq cast[b].sent
    BY <1>0 DEF SendsFollow
  <2>2. \E step \in {"done", "broken"} : cast' = [cast EXCEPT ![b].step = step]
    BY <1>6 DEF EndBroadcast, BreakOff
  <2>3. /\ new.step # "sending" /\ new.sent = cast[b].sent /\ new.failed = cast[b].failed
        /\ cast' = [cast EXCEPT ![b] = new]
    BY <1>0, <2>1, <2>2 DEF CastState
  <2>4. link' = link /\ disturbed' \subseteq disturbed \union Broadcast
    BY <1>6 DEF EndBroadcast, BreakOff, DisturbOthers
  <2> HIDE DEF new
  <2> QED BY <1>2, <2>1, <2>3, <2>4
<1>7. CASE UNCHANGED liveVars
  BY <1>7 DEF liveVars, SendsFollow
<1> QED BY <1>1, <1>3, <1>4, <1>5, <1>6, <1>7 DEF LiveNext

\* A channel knows only its sockets, and a broadcast tries only them.
THEOREM LiveTypeCorrect == LiveSpec => []LiveTypeOK
<1>1. LiveInit => SendsFollow
  BY DEF LiveInit, SendsFollow, NotStarted
<1>2. LiveInv /\ SendsFollow /\ [LiveNext]_liveVars => SendsFollow'
  BY SendsStep
<1>3. LiveInv /\ SendsFollow => LiveTypeOK
  <2> SUFFICES ASSUME LiveInv, SendsFollow PROVE LiveTypeOK
    OBVIOUS
  <2>1. \A S \in SUBSET Socket : Cardinality(S) \in 0 .. Cardinality(Socket)
    BY SocketAssumption, FS_Subset, FS_CardinalityType
  <2>2. ASSUME NEW b \in Broadcast PROVE cast[b] \in CastState /\ cast[b].size \in 0 .. Cardinality(Socket)
    <3>1. cast[b] \in CastState
      BY DEF LiveInv
    <3>2. cast[b].size = 0 \/ \E S \in SUBSET Socket : cast[b].size = Cardinality(S)
      BY <3>1 DEF CastState
    <3>3. 0 \in 0 .. Cardinality(Socket)
      BY SocketAssumption, FS_CardinalityType
    <3> QED BY <2>1, <3>1, <3>2, <3>3
  <2> QED BY <2>2 DEF LiveInv, SendsFollow, LiveTypeOK, CastState
<1> QED BY <1>1, <1>2, <1>3, LiveInvHolds, PTL DEF LiveSpec

-----------------------------------------------------------------------------
(***************************************************************************)
(* Scaling advice                                                          *)
(***************************************************************************)
ScalerInv == ScalerTypeOK /\ GrowthStopsAtLimit

\* Those who were advised are counted, as every set of operators is.
LEMMA AdvisedCount ==
    ASSUME NEW S \in SUBSET Operator
    PROVE  IsFiniteSet(S) /\ Cardinality(S) \in Nat /\ Cardinality(S) <= Cardinality(Operator)
           /\ Cardinality(Operator) \in Nat
  BY ScalerAssumption, FS_Subset, FS_CardinalityType

\* Jobs and heartbeats move agents between statuses, and none appears.
LEMMA FleetKeepsSize ==
    ASSUME ScalerInv, QueueJob \/ TakeJob \/ BeginJob \/ EndJob \/ SetStatus
    PROVE  ScalerInv'
<1> USE DEF ScalerInv, ScalerTypeOK
<1>1. advice' = advice
  BY DEF QueueJob, TakeJob, BeginJob, EndJob, SetStatus
<1>2. fleet' \in [{"idle", "busy", "offline"} -> Nat] /\ Total' = Total
  <2>1. CASE QueueJob \/ BeginJob
    BY <2>1 DEF QueueJob, BeginJob, Total
  <2>2. CASE TakeJob \/ EndJob
    BY <2>2 DEF TakeJob, EndJob, Move, Total
  <2>3. CASE SetStatus
    <3>1. PICK from \in {"idle", "busy", "offline"}, to \in {"idle", "offline"} :
            from # to /\ fleet[from] > 0 /\ fleet' = Move(fleet, from, to)
      BY <2>3 DEF SetStatus
    <3> QED BY <3>1 DEF Move, Total
  <2> QED BY <2>1, <2>2, <2>3
<1>3. queue' \in [{"pending", "assigned", "running"} -> Nat]
  BY DEF QueueJob, TakeJob, BeginJob, EndJob, SetStatus, Move
<1>4. Advised' = Advised
  BY <1>1 DEF Advised
<1> QED BY <1>1, <1>2, <1>3, <1>4 DEF GrowthStopsAtLimit

\* Advice to grow is given only within the limit, to each operator once.
LEMMA AdviceKeepsLimit ==
    ASSUME ScalerInv, NEW o \in Operator, GetRecommendation(o) \/ FollowAdvice(o)
    PROVE  ScalerInv'
<1> USE DEF ScalerInv, ScalerTypeOK
<1>0. MinAgents \in Nat /\ MaxAgents \in Nat /\ MinAgents <= MaxAgents
  BY ScalerAssumption
<1>1. CASE GetRecommendation(o)
  <2>1. /\ Evaluate \in Advice
        /\ Evaluate = "scale_up" => Total <= MaxAgents
        /\ Total \in Nat
    BY <1>0 DEF Evaluate, Advice, Total
  <2>2. ScalerTypeOK'
    BY <1>1, <2>1 DEF GetRecommendation
  <2>3. Advised' \in SUBSET Operator /\ Total' = Total
    BY <1>1 DEF Advised, GetRecommendation, Total
  <2>4. CASE Evaluate = "scale_up"
    <3>1. PICK T \in SUBSET Operator : T = Advised'
      BY <2>3
    <3> QED BY <1>0, <2>1, <2>2, <2>3, <2>4, <3>1, AdvisedCount DEF GrowthStopsAtLimit
  <2>5. CASE Evaluate # "scale_up"
    <3>1. PICK S \in SUBSET Operator, T \in SUBSET Operator : S = Advised /\ T = Advised'
      BY <2>3 DEF Advised
    <3>2. T \subseteq S
      BY <1>1, <2>5, <3>1 DEF Advised, GetRecommendation
    <3>3. Cardinality(T) <= Cardinality(S) /\ Cardinality(S) \in Nat /\ Cardinality(T) \in Nat
      BY <3>2, AdvisedCount, FS_Subset
    <3> QED BY <1>0, <2>1, <2>2, <2>3, <3>1, <3>3, AdvisedCount DEF GrowthStopsAtLimit
  <2> QED BY <2>4, <2>5
<1>2. CASE FollowAdvice(o)
  <2>1. PICK S \in SUBSET Operator : S = Advised
    BY DEF Advised
  <2>2. Advised' = S \ {o} /\ advice' \in [Operator -> Advice] /\ queue' = queue
    BY <1>2, <2>1 DEF Advised, FollowAdvice, Advice
  <2>3. IsFiniteSet(S) /\ Cardinality(S) \in Nat
    BY AdvisedCount
  <2>4. Cardinality(S \ {o}) = IF o \in S THEN Cardinality(S) - 1 ELSE Cardinality(S)
    BY <2>3, FS_RemoveElement
  <2>5. CASE advice[o] = "scale_up" /\ fleet' = [fleet EXCEPT !.idle = @ + 1]
    <3>1. Total' = Total + 1 /\ Total \in Nat /\ fleet' \in [{"idle", "busy", "offline"} -> Nat]
      BY <2>5 DEF Total
    <3>2. o \in S
      BY <2>1, <2>5 DEF Advised
    <3> QED BY <1>0, <2>1, <2>2, <2>3, <2>4, <3>1, <3>2, AdvisedCount DEF GrowthStopsAtLimit
  <2>6. CASE fleet.idle > 0 /\ fleet' = Move(fleet, "idle", "offline")
    <3>1. Total' = Total /\ Total \in Nat /\ fleet' \in [{"idle", "busy", "offline"} -> Nat]
      BY <2>6 DEF Move, Total
    <3> QED BY <1>0, <2>1, <2>2, <2>3, <2>4, <3>1, AdvisedCount DEF GrowthStopsAtLimit
  <2> QED BY <1>2, <2>5, <2>6 DEF FollowAdvice
<1> QED BY <1>1, <1>2

LEMMA ScalerInvHolds == ScalerSpec => []ScalerInv
<1>1. ScalerInit => ScalerInv
  <2> SUFFICES ASSUME ScalerInit PROVE ScalerInv
    OBVIOUS
  <2>1. Advised \in SUBSET Operator /\ Total = 0
    BY DEF ScalerInit, Advised, Total
  <2>2. ScalerTypeOK
    BY DEF ScalerInit, ScalerTypeOK, Advice
  <2>3. Advised = {}
    BY DEF ScalerInit, Advised
  <2>4. MaxAgents \in Nat
    BY ScalerAssumption
  <2> QED BY <2>1, <2>2, <2>3, <2>4, AdvisedCount, FS_EmptySet DEF ScalerInv, GrowthStopsAtLimit
<1>2. ScalerInv /\ [ScalerNext]_scalerVars => ScalerInv'
  <2>1. ASSUME ScalerInv, UNCHANGED scalerVars PROVE ScalerInv'
    BY <2>1 DEF scalerVars, ScalerInv, ScalerTypeOK, GrowthStopsAtLimit, Total, Advised
  <2> QED BY <2>1, FleetKeepsSize, AdviceKeepsLimit DEF ScalerNext
<1> QED BY <1>1, <1>2, PTL DEF ScalerSpec

\* A fleet that grows by advice alone passes its limit by no more than those who
\* were advised before it was reached.
THEOREM GrowthStops == ScalerSpec => []GrowthStopsAtLimit
<1>1. ScalerInv => GrowthStopsAtLimit
  BY DEF ScalerInv
<1> QED BY <1>1, ScalerInvHolds, PTL

\* No count of agents or jobs ever goes below zero.
THEOREM ScalerTypeCorrect == ScalerSpec => []ScalerTypeOK
<1>1. ScalerInv => ScalerTypeOK
  BY DEF ScalerInv
<1> QED BY <1>1, ScalerInvHolds, PTL

-----------------------------------------------------------------------------
(***************************************************************************)
(* API tokens                                                              *)
(***************************************************************************)
TokenRow == [user : Account \union {""}, active : BOOLEAN, until : Nat, origin : Nat]

\* Two different tokens of one origin, or a rotation and a token it did not read.
Kin(i, j) == tokens[i].origin = tokens[j].origin

TokenTables ==
    /\ day \in Nat /\ made \in 0 .. MaxTokens
    /\ tokens \in [TokenId -> TokenRow]
    /\ rotating \in [Rotation -> 0 .. made]
    /\ \A i \in 1 .. made : tokens[i].origin \in 1 .. i

\* A rotation at work has read the one token of its origin that may be active.
ReaderHasTheToken ==
    \A r \in Rotation : rotating[r] # 0 =>
        \A j \in 1 .. made :
            Kin(j, rotating[r]) /\ tokens[j].active =>
                j = rotating[r] \/ tokens[j].origin \in contested

\* Two rotations at work on an origin contest it.
RotationsContest ==
    \A r, q \in Rotation :
        r # q /\ rotating[r] # 0 /\ rotating[q] # 0 /\ Kin(rotating[r], rotating[q]) =>
            tokens[rotating[r]].origin \in contested

TokenInv == TokenTables /\ OneTokenPerOrigin /\ ReaderHasTheToken /\ RotationsContest

LEMMA BoundsTyped == MaxTokens \in Nat /\ TokenLife \in Nat
  BY TokenAssumption

\* A token of its own: nothing is of its origin.
LEMMA CreateKeepsTokens ==
    ASSUME TokenInv, NEW a \in Account, CreateToken(a)
    PROVE  TokenInv'
<1> DEFINE n == made + 1
<1>1. /\ n \in TokenId /\ made' = n /\ UNCHANGED <<day, rotating, contested>>
      /\ tokens' = [tokens EXCEPT ![n] = NewToken(a, day + TokenLife, n)]
  BY BoundsTyped DEF CreateToken, TokenId, TokenInv, TokenTables
<1>2. NewToken(a, day + TokenLife, n) \in TokenRow
  <2>1. day + TokenLife \in Nat /\ n \in Nat
    BY <1>1, BoundsTyped DEF TokenId, TokenInv, TokenTables
  <2> QED BY <2>1 DEF NewToken, TokenRow
<1>3. /\ tokens' \in [TokenId -> TokenRow]
      /\ tokens'[n].origin = n
      /\ \A i \in 1 .. made : i \in TokenId /\ i # n /\ tokens'[i] = tokens[i]
  BY <1>1, <1>2, BoundsTyped DEF TokenInv, TokenTables, TokenId, NewToken
<1>4. \A i \in 1 .. n : i = n \/ i \in 1 .. made
  BY DEF TokenInv, TokenTables
<1>5. \A i \in 1 .. made : tokens'[i].origin # tokens'[n].origin /\ tokens'[i].origin \in 1 .. i
  BY <1>3, BoundsTyped DEF TokenInv, TokenTables
<1>6. made \in Nat /\ n \in 0 .. MaxTokens /\ rotating' \in [Rotation -> 0 .. n]
  BY <1>1, BoundsTyped DEF TokenInv, TokenTables, TokenId
<1>7. \A i \in 1 .. n : tokens'[i].origin \in 1 .. i
  BY <1>3, <1>4, <1>5, <1>6
<1>8. OneTokenPerOrigin'
  BY <1>1, <1>3, <1>4, <1>5 DEF TokenInv, TokenTables, OneTokenPerOrigin
<1>9. \A r \in Rotation : rotating[r] # 0 => rotating[r] \in 1 .. made
  BY <1>6 DEF TokenInv, TokenTables
<1>10. \A r \in Rotation : rotating[r] # 0 =>
          \A j \in 1 .. n :
              Kin(j, rotating[r])' /\ tokens'[j].active =>
                  j = rotating[r] \/ tokens'[j].origin \in contested
  BY <1>1, <1>3, <1>4, <1>5, <1>9 DEF TokenInv, ReaderHasTheToken, Kin
<1>11. \A r, q \in Rotation :
          r # q /\ rotating[r] # 0 /\ rotating[q] # 0 /\ Kin(rotating[r], rotating[q])' =>
              tokens'[rotating[r]].origin \in contested
  BY <1>1, <1>3, <1>9 DEF TokenInv, RotationsContest, Kin
<1> QED BY <1>1, <1>3, <1>6, <1>7, <1>8, <1>10, <1>11
       DEF TokenInv, TokenTables, ReaderHasTheToken, RotationsContest

\* A revoked token makes no other active.
LEMMA RevokeKeepsTokens ==
    ASSUME TokenInv, NEW a \in Account, NEW i \in TokenId, RevokeToken(a, i)
    PROVE  TokenInv'
<1>1. UNCHANGED <<day, rotating, contested, made>> /\ tokens' = [tokens EXCEPT ![i].active = FALSE]
  BY DEF RevokeToken, Revoked
<1>2. /\ tokens' \in [TokenId -> TokenRow]
      /\ \A j \in TokenId : /\ tokens'[j].origin = tokens[j].origin
                            /\ tokens'[j].user = tokens[j].user
                            /\ tokens'[j].until = tokens[j].until
                            /\ tokens'[j].active => tokens[j].active
  BY <1>1 DEF TokenInv, TokenTables, TokenRow
<1>3. /\ 1 .. made \subseteq TokenId
      /\ \A r \in Rotation : rotating[r] # 0 => rotating[r] \in TokenId
  BY BoundsTyped DEF TokenInv, TokenTables, TokenId
<1>4. OneTokenPerOrigin'
  BY <1>1, <1>2, <1>3 DEF TokenInv, TokenTables, OneTokenPerOrigin
<1>5. TokenTables'
  BY <1>1, <1>2, <1>3 DEF TokenInv, TokenTables
<1>6. ReaderHasTheToken' /\ RotationsContest'
  BY <1>1, <1>2, <1>3 DEF TokenInv, ReaderHasTheToken, RotationsContest, Kin
<1> QED BY <1>4, <1>5, <1>6 DEF TokenInv

\* A second rotation that reads the same token contests its origin.
LEMMA RotateReadsKeepsTokens ==
    ASSUME TokenInv, NEW r \in Rotation, NEW a \in Account, NEW i \in TokenId, RotateReads(r, a, i)
    PROVE  TokenInv'
<1>1. /\ UNCHANGED <<day, tokens, made>> /\ rotating[r] = 0
      /\ i \in 1 .. made /\ tokens[i].active
      /\ rotating' = [rotating EXCEPT ![r] = i]
      /\ contested \subseteq contested'
      /\ \A q \in Rotation : rotating[q] = i => tokens[i].origin \in contested'
  BY BoundsTyped DEF RotateReads, RotatesToken, TokenId, TokenInv, TokenTables
<1>2. rotating' \in [Rotation -> 0 .. made]
  BY <1>1 DEF TokenInv, TokenTables
<1>3. OneTokenPerOrigin'
  BY <1>1 DEF TokenInv, TokenTables, OneTokenPerOrigin
<1>4. \A q \in Rotation : rotating'[q] = IF q = r THEN i ELSE rotating[q]
  BY <1>1 DEF TokenInv, TokenTables
<1>5. \A q \in Rotation : rotating'[q] # 0 =>
          \A j \in 1 .. made :
              Kin(j, rotating'[q]) /\ tokens[j].active =>
                  j = rotating'[q] \/ tokens[j].origin \in contested'
  <2> SUFFICES ASSUME NEW q \in Rotation, rotating'[q] # 0, NEW j \in 1 .. made,
                      Kin(j, rotating'[q]), tokens[j].active
               PROVE  j = rotating'[q] \/ tokens[j].origin \in contested'
    OBVIOUS
  <2>1. CASE q = r
    BY <1>1, <1>4, <2>1 DEF TokenInv, OneTokenPerOrigin, Kin
  <2>2. CASE q # r
    BY <1>1, <1>4, <2>2 DEF TokenInv, ReaderHasTheToken
  <2> QED BY <2>1, <2>2
<1>6. \A q \in Rotation : q # r /\ rotating[q] # 0 /\ Kin(rotating[q], i) =>
          tokens[i].origin \in contested'
  BY <1>1 DEF TokenInv, ReaderHasTheToken, Kin
<1>7. \A p, q \in Rotation :
          p # q /\ rotating'[p] # 0 /\ rotating'[q] # 0 /\ Kin(rotating'[p], rotating'[q]) =>
              tokens[rotating'[p]].origin \in contested'
  BY <1>1, <1>4, <1>6 DEF TokenInv, RotationsContest, Kin
<1>8. TokenTables'
  BY <1>1, <1>2 DEF TokenInv, TokenTables
<1>9. ReaderHasTheToken' /\ RotationsContest'
  BY <1>1, <1>5, <1>7 DEF ReaderHasTheToken, RotationsContest, Kin
<1> QED BY <1>3, <1>8, <1>9 DEF TokenInv

\* The successor takes the place of the token that was read.
LEMMA RotateCommitsKeepsTokens ==
    ASSUME TokenInv, NEW r \in Rotation, RotateCommits(r)
    PROVE  TokenInv'
<1> DEFINE old == rotating[r]
           n == made + 1
           successor == NewToken(tokens[old].user, tokens[old].until, tokens[old].origin)
<1>1. /\ old \in 1 .. made /\ old \in TokenId /\ n \in TokenId /\ old # n /\ made \in Nat
      /\ made' = n /\ UNCHANGED <<day, contested>>
      /\ tokens' = [tokens EXCEPT ![old].active = FALSE, ![n] = successor]
      /\ rotating' = [rotating EXCEPT ![r] = 0]
  BY BoundsTyped DEF RotateCommits, TokenId, TokenInv, TokenTables
<1>2. successor \in TokenRow
  BY <1>1 DEF NewToken, TokenRow, TokenInv, TokenTables
<1>3. /\ tokens' \in [TokenId -> TokenRow]
      /\ tokens'[n] = successor
      /\ \A i \in 1 .. made : /\ tokens'[i].origin = tokens[i].origin
                              /\ tokens'[i].user = tokens[i].user
                              /\ tokens'[i].until = tokens[i].until
                              /\ tokens'[i].active => tokens[i].active /\ i # old
  <2>1. tokens' \in [TokenId -> TokenRow] /\ tokens'[n] = successor
    BY <1>1, <1>2 DEF TokenInv, TokenTables, TokenRow
  <2>2. \A i \in 1 .. made : i \in TokenId /\ i # n
    BY <1>1, BoundsTyped DEF TokenId
  <2>3. \A i \in 1 .. made : i # old => tokens'[i] = tokens[i]
    BY <1>1, <2>2 DEF TokenInv, TokenTables
  <2>4. tokens'[old] = [tokens[old] EXCEPT !.active = FALSE]
    <3>1. old \in DOMAIN tokens
      BY <1>1 DEF TokenInv, TokenTables
    <3> QED BY <1>1, <3>1
  <2>5. tokens[old] \in TokenRow
    BY <1>1 DEF TokenInv, TokenTables
  <2>6. /\ tokens'[old].origin = tokens[old].origin /\ tokens'[old].user = tokens[old].user
        /\ tokens'[old].until = tokens[old].until /\ tokens'[old].active = FALSE
    BY <2>4, <2>5 DEF TokenRow
  <2> HIDE DEF old, successor, n
  <2> QED BY <2>1, <2>3, <2>6, Zenon
<1>4. /\ tokens'[n].origin = tokens[old].origin /\ tokens'[n].user = tokens[old].user
      /\ tokens'[n].until = tokens[old].until
  BY <1>3 DEF NewToken
<1>5. \A i \in 1 .. n : i = n \/ i \in 1 .. made
  BY <1>1
<1>6. n \in 0 .. MaxTokens /\ rotating' \in [Rotation -> 0 .. n]
  BY <1>1, BoundsTyped DEF TokenInv, TokenTables, TokenId
<1>7. \A q \in Rotation : rotating'[q] # 0 => q # r /\ rotating'[q] = rotating[q] /\ rotating[q] \in 1 .. made
  BY <1>1 DEF TokenInv, TokenTables
<1>8. \A i \in 1 .. n : tokens'[i].origin \in 1 .. i
  <2>1. tokens[old].origin \in 1 .. n
    BY <1>1 DEF TokenInv, TokenTables
  <2> QED BY <1>3, <1>4, <1>5, <2>1 DEF TokenInv, TokenTables
<1>9. \A j \in 1 .. made : tokens'[j].active /\ tokens[j].origin = tokens[old].origin =>
          tokens[j].origin \in contested
  <2> SUFFICES ASSUME NEW j \in 1 .. made, tokens'[j].active, tokens[j].origin = tokens[old].origin
               PROVE  tokens[j].origin \in contested
    OBVIOUS
  <2>1. tokens[j].active /\ j # old
    BY <1>3
  <2>2. Kin(j, rotating[r]) /\ rotating[r] # 0
    BY <1>1 DEF Kin
  <2> QED BY <2>1, <2>2 DEF TokenInv, ReaderHasTheToken
<1>10. OneTokenPerOrigin'
  <2> SUFFICES ASSUME NEW i \in 1 .. n, NEW j \in 1 .. n, tokens'[i].origin = tokens'[j].origin
               PROVE  /\ tokens'[i].user = tokens'[j].user /\ tokens'[i].until = tokens'[j].until
                      /\ tokens'[i].active /\ tokens'[j].active =>
                            i = j \/ tokens'[i].origin \in contested
    <3>1. made' = n /\ contested' = contested
      BY <1>1
    <3> QED BY <3>1 DEF OneTokenPerOrigin
  <2>1. CASE i \in 1 .. made /\ j \in 1 .. made
    BY <1>3, <2>1 DEF TokenInv, TokenTables, OneTokenPerOrigin
  <2>2. CASE i = n /\ j \in 1 .. made
    <3>1. tokens[j].origin = tokens[old].origin /\ tokens'[j].origin = tokens[j].origin
      BY <1>3, <1>4, <2>2
    <3>2. tokens[j].user = tokens[old].user /\ tokens[j].until = tokens[old].until
      BY <1>1, <2>2, <3>1 DEF TokenInv, OneTokenPerOrigin
    <3> QED BY <1>3, <1>4, <1>9, <2>2, <3>1, <3>2
  <2>3. CASE i \in 1 .. made /\ j = n
    <3>1. tokens[i].origin = tokens[old].origin /\ tokens'[i].origin = tokens[i].origin
      BY <1>3, <1>4, <2>3
    <3>2. tokens[i].user = tokens[old].user /\ tokens[i].until = tokens[old].until
      BY <1>1, <2>3, <3>1 DEF TokenInv, OneTokenPerOrigin
    <3> QED BY <1>3, <1>4, <1>9, <2>3, <3>1, <3>2
  <2> QED BY <1>5, <2>1, <2>2, <2>3
<1>11. \A q \in Rotation : rotating'[q] # 0 =>
          \A j \in 1 .. n :
              Kin(j, rotating[q])' /\ tokens'[j].active =>
                  j = rotating'[q] \/ tokens'[j].origin \in contested
  <2> SUFFICES ASSUME NEW q \in Rotation, rotating'[q] # 0, NEW j \in 1 .. n,
                      Kin(j, rotating[q])', tokens'[j].active
               PROVE  j = rotating'[q] \/ tokens'[j].origin \in contested
    OBVIOUS
  <2>1. tokens'[j].origin = tokens[rotating[q]].origin /\ rotating[q] # 0 /\ rotating'[q] = rotating[q]
    BY <1>3, <1>7 DEF Kin
  <2>2. CASE j \in 1 .. made
    BY <1>3, <2>1, <2>2 DEF TokenInv, ReaderHasTheToken, Kin
  <2>3. CASE j = n
    <3>1. Kin(rotating[r], rotating[q]) /\ q # r /\ rotating[r] # 0
      BY <1>1, <1>4, <1>7, <2>1, <2>3 DEF Kin
    <3> QED BY <1>4, <2>1, <2>3, <3>1 DEF TokenInv, RotationsContest
  <2> QED BY <1>5, <2>2, <2>3
<1>12. \A p, q \in Rotation :
          p # q /\ rotating'[p] # 0 /\ rotating'[q] # 0 /\ Kin(rotating[p], rotating[q])' =>
              tokens'[rotating'[p]].origin \in contested
  BY <1>3, <1>7 DEF TokenInv, RotationsContest, Kin
<1>13. TokenTables'
  BY <1>1, <1>3, <1>6, <1>8 DEF TokenInv, TokenTables
<1>14. ReaderHasTheToken' /\ RotationsContest'
  BY <1>1, <1>11, <1>12 DEF ReaderHasTheToken, RotationsContest, Kin
<1> QED BY <1>10, <1>13, <1>14 DEF TokenInv

LEMMA TokenInvHolds == TokenSpec => []TokenInv
<1>1. TokenInit => TokenInv
  <2> SUFFICES ASSUME TokenInit PROVE TokenInv
    OBVIOUS
  <2>1. NoToken \in TokenRow
    BY DEF NoToken, TokenRow
  <2>2. TokenTables
    BY <2>1, BoundsTyped DEF TokenInit, TokenTables, TokenId
  <2>3. OneTokenPerOrigin /\ ReaderHasTheToken /\ RotationsContest
    BY DEF TokenInit, OneTokenPerOrigin, ReaderHasTheToken, RotationsContest
  <2> QED BY <2>2, <2>3 DEF TokenInv
<1>2. TokenInv /\ [TokenNext]_tokenVars => TokenInv'
  <2> SUFFICES ASSUME TokenInv, [TokenNext]_tokenVars PROVE TokenInv'
    OBVIOUS
  <2>1. ASSUME UNCHANGED <<tokens, contested, made>>, day' \in Nat,
               rotating' = rotating \/ rotating' = [r \in Rotation |-> 0]
        PROVE  TokenInv'
    BY <2>1, BoundsTyped DEF TokenInv, TokenTables, OneTokenPerOrigin, ReaderHasTheToken, RotationsContest, Kin
  <2>2. CASE DayPasses \/ RestartAuth
    BY <2>1, <2>2 DEF DayPasses, RestartAuth, TokenInv, TokenTables
  <2>3. ASSUME NEW a \in Account, RegisterUser(a) \/ Login(a) \/ RefreshLogin(a)
        PROVE  TokenInv'
    BY <2>1, <2>3 DEF RegisterUser, Login, RefreshLogin, TokenInv, TokenTables
  <2>4. CASE UNCHANGED tokenVars
    BY <2>1, <2>4 DEF tokenVars, TokenInv, TokenTables
  <2> QED BY <2>2, <2>3, <2>4, CreateKeepsTokens, RevokeKeepsTokens, RotateReadsKeepsTokens,
             RotateCommitsKeepsTokens DEF TokenNext
<1> QED BY <1>1, <1>2, PTL DEF TokenSpec

\* Of a token and all that it was rotated into at most one is active, unless
\* two rotations read the same token before either committed.
THEOREM OneTokenHolds == TokenSpec => []OneTokenPerOrigin
<1>1. TokenInv => OneTokenPerOrigin
  BY DEF TokenInv
<1> QED BY <1>1, TokenInvHolds, PTL

\* Logins, tokens and rotations stay within the lives that were given them.
TokenLimits ==
    /\ day \in 1 .. LastDay /\ accounts \subseteq Account
    /\ login \in [Account -> [access : 0 .. LastDay + AccessLife, refresh : 0 .. LastDay + RefreshLife]]
    /\ \A i \in TokenId : /\ tokens[i].until \in 0 .. LastDay + TokenLife
                          /\ tokens[i].origin \in 0 .. MaxTokens
    /\ contested \subseteq TokenId

LEMMA LivesTyped ==
    /\ AccessLife \in Nat /\ RefreshLife \in Nat /\ TokenLife \in Nat /\ LastDay \in Nat \ {0}
    /\ MaxTokens \in Nat
  BY TokenAssumption

LEMMA NewRowKeepsLimits ==
    ASSUME TokenLimits, TokenTables, NEW n \in TokenId, NEW entry \in TokenRow,
           entry.until \in 0 .. LastDay + TokenLife, entry.origin \in 0 .. MaxTokens,
           NEW rest \in [TokenId -> TokenRow],
           \A i \in TokenId : rest[i].until = tokens[i].until /\ rest[i].origin = tokens[i].origin,
           tokens' = [rest EXCEPT ![n] = entry], UNCHANGED <<day, accounts, login, contested>>
    PROVE  TokenLimits'
<1>1. \A i \in TokenId : tokens'[i] = IF i = n THEN entry ELSE rest[i]
  OBVIOUS
<1>2. \A i \in TokenId : tokens'[i].until \in 0 .. LastDay + TokenLife /\ tokens'[i].origin \in 0 .. MaxTokens
  BY <1>1 DEF TokenLimits
<1> QED BY <1>2 DEF TokenLimits

LEMMA TokenLimitsStep ==
    ASSUME TokenLimits, TokenInv, [TokenNext]_tokenVars
    PROVE  TokenLimits'
<1>0. /\ TokenTables /\ tokens \in [TokenId -> TokenRow] /\ made \in Nat /\ made <= MaxTokens
      /\ day \in 1 .. LastDay
  BY LivesTyped DEF TokenInv, TokenTables, TokenLimits
<1>1. CASE DayPasses
  BY <1>1, LivesTyped DEF DayPasses, TokenLimits
<1>2. CASE RestartAuth
  BY <1>2, LivesTyped DEF RestartAuth, TokenLimits, SignedOut
<1>3. ASSUME NEW a \in Account, RegisterUser(a) PROVE TokenLimits'
  BY <1>3 DEF RegisterUser, NewAccount, TokenLimits
<1>4. ASSUME NEW a \in Account, Login(a) \/ RefreshLogin(a) PROVE TokenLimits'
  <2>1. day + AccessLife \in 0 .. LastDay + AccessLife /\ day + RefreshLife \in 0 .. LastDay + RefreshLife
    BY <1>0, LivesTyped
  <2> QED BY <1>4, <2>1 DEF Login, RefreshLogin, NewLogin, TokenLimits
<1>5. ASSUME NEW a \in Account, CreateToken(a) PROVE TokenLimits'
  <2> DEFINE entry == NewToken(a, day + TokenLife, made + 1)
  <2>1. made + 1 \in TokenId /\ made + 1 \in 0 .. MaxTokens /\ day + TokenLife \in 0 .. LastDay + TokenLife
    BY <1>0, <1>5, LivesTyped DEF CreateToken, TokenId
  <2>2. entry \in TokenRow /\ entry.until = day + TokenLife /\ entry.origin = made + 1
    <3>1. day + TokenLife \in Nat /\ made + 1 \in Nat
      BY <1>0, LivesTyped
    <3> QED BY <3>1 DEF NewToken, TokenRow
  <2>3. tokens' = [tokens EXCEPT ![made + 1] = entry] /\ UNCHANGED <<day, accounts, login, contested>>
    BY <1>5 DEF CreateToken
  <2> HIDE DEF entry
  <2> QED BY <1>0, <2>1, <2>2, <2>3, NewRowKeepsLimits
<1>6. ASSUME NEW a \in Account, NEW i \in TokenId, RevokeToken(a, i) PROVE TokenLimits'
  <2> DEFINE entry == [tokens[i] EXCEPT !.active = FALSE]
  <2>1. tokens' = [tokens EXCEPT ![i] = entry] /\ UNCHANGED <<day, accounts, login, contested>>
    BY <1>6 DEF RevokeToken, Revoked
  <2>2. entry \in TokenRow /\ entry.until = tokens[i].until /\ entry.origin = tokens[i].origin
    BY <1>0 DEF TokenRow
  <2>3. entry.until \in 0 .. LastDay + TokenLife /\ entry.origin \in 0 .. MaxTokens
    BY <2>2 DEF TokenLimits
  <2> HIDE DEF entry
  <2> QED BY <1>0, <2>1, <2>2, <2>3, NewRowKeepsLimits
<1>7. ASSUME NEW r \in Rotation, NEW a \in Account, NEW i \in TokenId, RotateReads(r, a, i)
      PROVE  TokenLimits'
  <2>1. i \in 1 .. made /\ UNCHANGED <<day, accounts, login, tokens>>
        /\ contested' \subseteq contested \union {tokens[i].origin}
    BY <1>0, <1>7, LivesTyped DEF RotateReads, RotatesToken, TokenId
  <2>2. tokens[i].origin \in TokenId
    BY <1>0, <2>1, LivesTyped DEF TokenTables, TokenId
  <2> QED BY <2>1, <2>2 DEF TokenLimits
<1>8. ASSUME NEW r \in Rotation, RotateCommits(r) PROVE TokenLimits'
  <2> DEFINE old == rotating[r]
             rest == [tokens EXCEPT ![old].active = FALSE]
             entry == NewToken(tokens[old].user, tokens[old].until, tokens[old].origin)
  <2>1. /\ old \in TokenId /\ made + 1 \in TokenId
        /\ tokens' = [tokens EXCEPT ![old].active = FALSE, ![made + 1] = entry]
        /\ UNCHANGED <<day, accounts, login, contested>>
    BY <1>0, <1>8, LivesTyped DEF RotateCommits, TokenTables, TokenId
  <2> HIDE DEF old
  <2>2. tokens[old] \in TokenRow
    BY <1>0, <2>1
  <2>3. entry \in TokenRow /\ entry.until = tokens[old].until /\ entry.origin = tokens[old].origin
    BY <2>2 DEF NewToken, TokenRow
  <2>4. entry.until \in 0 .. LastDay + TokenLife /\ entry.origin \in 0 .. MaxTokens
    BY <2>1, <2>3 DEF TokenLimits
  <2>5. /\ rest \in [TokenId -> TokenRow]
        /\ \A i \in TokenId : rest[i].until = tokens[i].until /\ rest[i].origin = tokens[i].origin
    BY <1>0, <2>1, <2>2 DEF TokenRow
  <2>6. tokens' = [rest EXCEPT ![made + 1] = entry]
    BY <1>0, <2>1
  <2> HIDE DEF rest, entry
  <2> QED BY <1>0, <2>1, <2>3, <2>4, <2>5, <2>6, NewRowKeepsLimits
<1>9. CASE UNCHANGED tokenVars
  BY <1>9 DEF tokenVars, TokenLimits
<1> QED BY <1>1, <1>2, <1>3, <1>4, <1>5, <1>6, <1>7, <1>8, <1>9 DEF TokenNext

\* Logins and tokens are rows of registered users, within the lives given them.
THEOREM TokenTypeCorrect == TokenSpec => []TokenTypeOK
<1>1. TokenInit => TokenLimits
  <2> SUFFICES ASSUME TokenInit PROVE TokenLimits
    OBVIOUS
  <2>1. NoToken.until \in 0 .. LastDay + TokenLife /\ NoToken.origin \in 0 .. MaxTokens
    BY LivesTyped DEF NoToken
  <2>2. \A i \in TokenId : tokens[i] = NoToken
    BY DEF TokenInit
  <2>3. SignedOut \in [access : 0 .. LastDay + AccessLife, refresh : 0 .. LastDay + RefreshLife]
    BY LivesTyped DEF SignedOut
  <2>4. day \in 1 .. LastDay
    BY LivesTyped DEF TokenInit
  <2> QED BY <2>1, <2>2, <2>3, <2>4 DEF TokenInit, TokenLimits
<1>2. TokenLimits /\ TokenInv /\ [TokenNext]_tokenVars => TokenLimits'
  BY TokenLimitsStep
<1>3. TokenLimits /\ TokenInv => TokenTypeOK
  <2> SUFFICES ASSUME TokenLimits, TokenInv PROVE TokenTypeOK
    OBVIOUS
  <2>1. tokens \in [TokenId -> [user : Account \union {""}, active : BOOLEAN,
                               until : 0 .. LastDay + TokenLife, origin : 0 .. MaxTokens]]
    <3>1. tokens \in [TokenId -> TokenRow]
      BY DEF TokenInv, TokenTables
    <3> SUFFICES ASSUME NEW i \in TokenId
                 PROVE  tokens[i] \in [user : Account \union {""}, active : BOOLEAN,
                               until : 0 .. LastDay + TokenLife, origin : 0 .. MaxTokens]
      BY <3>1
    <3>2. tokens[i] \in TokenRow
      BY <3>1
    <3>3. tokens[i].until \in 0 .. LastDay + TokenLife /\ tokens[i].origin \in 0 .. MaxTokens
      BY DEF TokenLimits
    <3> QED BY <3>2, <3>3 DEF TokenRow
  <2>2. rotating \in [Rotation -> 0 .. MaxTokens] /\ made \in 0 .. MaxTokens
    BY LivesTyped DEF TokenInv, TokenTables
  <2> QED BY <2>1, <2>2 DEF TokenLimits, TokenTypeOK
<1> QED BY <1>1, <1>2, <1>3, TokenInvHolds, PTL DEF TokenSpec

-----------------------------------------------------------------------------
(***************************************************************************)
(* The hooks around a job                                                  *)
(***************************************************************************)

\* The plugins whose turn in the running dispatch has come.
Called == {Plugins[k] : k \in 1 .. turn - 1}

\* What execute_job has done so far, at each place it can be.
HookInv ==
    /\ turn \in Nat \ {0} /\ enabled \subseteq Hooked
    /\ seen \in [Hooked -> Int] /\ exitCode \in Int
    /\ turn <= Len(Plugins) + 1
    /\ phase = "pre" => before = enabled \intersect Called
    /\ phase \in {"run", "post", "report"} => before = enabled /\ jobCommand = command
    /\ phase \in {"post", "report"} => exitCode = answer
    /\ phase = "post" => result \in Int
    /\ phase = "post" /\ enabled \intersect Meddlers \intersect Called = {} => result = exitCode
    /\ phase = "post" => \A p \in enabled \intersect Called : Undisturbed(p) => seen[p] = exitCode
    /\ phase = "report" => \A p \in enabled : Undisturbed(p) => seen[p] = exitCode

LEMMA PluginsInOrder ==
    /\ Len(Plugins) \in Nat
    /\ Hooked = {Plugins[k] : k \in 1 .. Len(Plugins)}
  BY HookAssumption DEF Hooked, ToSet

\* The dispatch that a turn belongs to moves on by the plugin whose turn it was.
LEMMA TurnsMove ==
    ASSUME HookInv, NEW ph, Turn(ph), NextTurn
    PROVE  /\ Called' = Called \union {Plugin} /\ Plugin \in Hooked
           /\ turn' \in Nat \ {0} /\ turn' <= Len(Plugins) + 1
<1>1. turn \in 1 .. Len(Plugins) /\ turn' = turn + 1
  BY PluginsInOrder DEF Turn, NextTurn, HookInv
<1>2. 1 .. turn' - 1 = (1 .. turn - 1) \union {turn}
  BY <1>1, PluginsInOrder
<1> QED BY <1>1, <1>2, PluginsInOrder DEF Called, Plugin

\* Whom no meddler precedes is called before any meddler has been.
LEMMA CalledUndisturbed ==
    ASSUME HookInv, NEW ph, Turn(ph), Undisturbed(Plugin)
    PROVE  enabled \intersect Meddlers \intersect Called = {}
<1>1. turn \in 1 .. Len(Plugins) /\ Len(Plugins) \in Nat /\ DOMAIN Plugins = 1 .. Len(Plugins)
  BY PluginsInOrder, HookAssumption DEF Turn, HookInv
<1>2. \A k \in 1 .. turn - 1 : k \in DOMAIN Plugins /\ k < turn /\ turn \in DOMAIN Plugins
  BY <1>1
<1>3. \A k \in 1 .. turn - 1 : Plugins[k] \notin enabled \intersect Meddlers
  BY <1>2 DEF Undisturbed, Plugin
<1> QED BY <1>3 DEF Called

LEMMA HookInvHolds == HookSpec => []HookInv
<1>1. HookInit => HookInv
  BY PluginsInOrder DEF HookInit, HookInv, Unseen, Nothing
<1>2. ASSUME HookInv, [HookNext]_hookVars PROVE HookInv'
  <2>0. enabled' = enabled
    BY <1>2 DEF HookNext, BeginJobRun, HookKillsAgent, SkipDisabled, PreHook, HooksDone, RunCommand,
               PostHook, Returns, ReportRun, hookVars
  <2>1. CASE BeginJobRun
    BY <1>2, <2>1, PluginsInOrder DEF BeginJobRun, HookInv, Called, Unseen, Nothing
  <2>2. ASSUME NEW ph \in {"pre", "post"}, HookKillsAgent(ph) PROVE HookInv'
    BY <1>2, <2>2 DEF HookKillsAgent, HookInv, Called
  <2>3. ASSUME NEW ph \in {"pre", "post"}, SkipDisabled(ph) PROVE HookInv'
    <3>1. Turn(ph) /\ NextTurn /\ Plugin \notin enabled
      BY <2>3 DEF SkipDisabled, IsOn
    <3>2. Called' = Called \union {Plugin} /\ turn' \in Nat \ {0} /\ turn' <= Len(Plugins) + 1
      BY <1>2, <3>1, TurnsMove
    <3>3. enabled \intersect Called' = enabled \intersect Called
      BY <3>1, <3>2
    <3>4. enabled \intersect Meddlers \intersect Called' = enabled \intersect Meddlers \intersect Called
      BY <3>1, <3>2
    <3> QED BY <1>2, <2>3, <3>2, <3>3, <3>4 DEF SkipDisabled, NextTurn, HookInv, Undisturbed
  <2>4. CASE PreHook
    <3>1. Called' = Called \union {Plugin} /\ turn' \in Nat \ {0} /\ turn' <= Len(Plugins) + 1
      BY <1>2, <2>4, TurnsMove DEF PreHook
    <3> QED BY <1>2, <2>4, <3>1 DEF PreHook, IsOn, Turn, NextTurn, HookInv
  <2>5. CASE PostHook
    <3>1. /\ Called' = Called \union {Plugin} /\ turn' \in Nat \ {0} /\ turn' <= Len(Plugins) + 1
          /\ Plugin \in Hooked
      BY <1>2, <2>5, TurnsMove DEF PostHook
    <3>2. /\ phase = "post" /\ phase' = "post" /\ seen' = [seen EXCEPT ![Plugin] = result]
          /\ result' \in ResultAfter(Plugin) /\ Plugin \in enabled
          /\ UNCHANGED <<enabled, jobCommand, command, exitCode, answer, before>>
      BY <2>5 DEF PostHook, Turn, NextTurn, IsOn
    <3>3. seen' \in [Hooked -> Int] /\ result' \in Int
      BY <1>2, <3>2 DEF HookInv, ResultAfter, Nothing
    <3>4. Undisturbed(Plugin) => result = exitCode
      BY <1>2, <2>5, <3>2, CalledUndisturbed DEF PostHook, HookInv
    <3>5. \A p \in enabled \intersect Called' : Undisturbed(p) => seen'[p] = exitCode
      BY <1>2, <3>1, <3>2, <3>4 DEF HookInv
    <3>6. enabled \intersect Meddlers \intersect Called' = {} => result' = exitCode
      BY <1>2, <3>1, <3>2 DEF HookInv, ResultAfter
    <3> QED BY <1>2, <3>1, <3>2, <3>3, <3>5, <3>6 DEF HookInv, Undisturbed
  <2>6. CASE HooksDone
    <3>1. Called = Hooked
      BY <1>2, <2>6, PluginsInOrder DEF HooksDone, HookInv, Called
    <3> QED BY <1>2, <2>6, <3>1 DEF HooksDone, HookInv, Called
  <2>7. CASE RunCommand
    <3>1. turn' = 1 /\ phase' = "post" /\ phase = "run" /\ Called' = {}
          /\ UNCHANGED <<enabled, seen, before, jobCommand, command>>
      BY <2>7 DEF RunCommand, Called
    <3>2. exitCode' \in {-1, 0, 1} /\ answer' = exitCode' /\ result' = exitCode'
      BY <2>7 DEF RunCommand, CommandEnds
    <3> QED BY <1>2, <3>1, <3>2, PluginsInOrder DEF HookInv
  <2>8. CASE Returns
    <3>1. Called = Hooked
      BY <1>2, <2>8, PluginsInOrder DEF Returns, HookInv, Called
    <3>2. \A p \in enabled : Undisturbed(p) => seen[p] = exitCode
      BY <1>2, <2>8, <3>1 DEF Returns, HookInv
    <3> QED BY <1>2, <2>8, <3>1, <3>2 DEF Returns, HookInv, Called, Undisturbed
  <2>9. CASE ReportRun \/ UNCHANGED hookVars
    BY <1>2, <2>9 DEF ReportRun, hookVars, HookInv, Called, Undisturbed
  <2> QED BY <1>2, <2>1, <2>2, <2>3, <2>4, <2>5, <2>6, <2>7, <2>8, <2>9 DEF HookNext
<1> QED BY <1>1, <1>2, PTL DEF HookSpec

\* MetricsPlugin counts the beginning and the end of every job, each once, and
\* the agent reports each once.
CountsKept ==
    /\ ran \in 0 .. MaxRuns
    /\ counted \in [{"total", "passed", "failed"} -> Nat]
    /\ reports \in [{"passed", "failed"} -> Nat]
    /\ counted.total <= ran /\ counted.passed + counted.failed <= ran
    /\ reports.passed + reports.failed <= ran
    /\ phase = "pre" /\ Metrics \notin Called => counted.total < ran
    /\ phase \in {"pre", "run"} \/ (phase = "post" /\ Metrics \notin Called) =>
          counted.passed + counted.failed < ran
    /\ phase \in {"pre", "run", "post", "report"} => reports.passed + reports.failed < ran

FieldsTyped ==
    /\ phase \in {"idle", "pre", "run", "post", "report", "dead"}
    /\ before \subseteq enabled
    /\ jobCommand \in {"job", "middleware", "hook"} /\ command \in {"job", "hook", "none"}
    /\ {exitCode, answer} \subseteq {-1, 0, 1} /\ result \in {-1, 0, 1, Nothing}
    /\ seen \in [Hooked -> {-1, 0, 1, Nothing}]

\* A plugin has one turn in a dispatch.
LEMMA OneTurnEach ==
    ASSUME HookInv, NEW ph, Turn(ph)
    PROVE  Plugin \notin Called
<1>1. turn \in 1 .. Len(Plugins) /\ Len(Plugins) \in Nat
  BY PluginsInOrder DEF Turn, HookInv
<1>2. DOMAIN Plugins = 1 .. Len(Plugins)
  BY HookAssumption
<1>3. \A k \in 1 .. turn - 1 : k \in DOMAIN Plugins /\ k # turn
  BY <1>1, <1>2
<1> QED BY <1>1, <1>2, <1>3, HookAssumption DEF IsInjective, Called, Plugin

LEMMA CountedOnce ==
    ASSUME NEW tally \in [{"total", "passed", "failed"} -> Nat], NEW code
    PROVE  /\ Counted(tally, code) \in [{"total", "passed", "failed"} -> Nat]
           /\ Counted(tally, code).total = tally.total
           /\ Counted(tally, code).passed = tally.passed + (IF code = 0 THEN 1 ELSE 0)
           /\ Counted(tally, code).failed = tally.failed + (IF code = 0 THEN 0 ELSE 1)
BY DEF Counted

LEMMA ReportedOnce ==
    ASSUME NEW tally \in [{"passed", "failed"} -> Nat], NEW code
    PROVE  /\ Counted(tally, code) \in [{"passed", "failed"} -> Nat]
           /\ Counted(tally, code).passed = tally.passed + (IF code = 0 THEN 1 ELSE 0)
           /\ Counted(tally, code).failed = tally.failed + (IF code = 0 THEN 0 ELSE 1)
BY DEF Counted

\* What a step of MetricsPlugin's own hooks does to its figures.
LEMMA MetricsBegins ==
    ASSUME HookInv, CountsKept, PreHook, Plugin = Metrics
    PROVE  /\ phase = "pre" /\ phase' = "pre" /\ UNCHANGED <<ran, reports, enabled, exitCode>>
           /\ Metrics \notin Called /\ Metrics \in Called' /\ Metrics \in enabled
           /\ counted' \in [{"total", "passed", "failed"} -> Nat]
           /\ counted'.total = counted.total + 1
           /\ counted'.passed = counted.passed /\ counted'.failed = counted.failed
<1>1. /\ counted' = [counted EXCEPT !.total = @ + 1] /\ UNCHANGED <<ran, reports, enabled, exitCode>>
      /\ phase = "pre" /\ phase' = "pre" /\ Turn("pre") /\ NextTurn /\ Metrics \in enabled
  BY DEF PreHook, Turn, NextTurn, IsOn
<1>2. Metrics \notin Called /\ Metrics \in Called'
  BY <1>1, OneTurnEach, TurnsMove
<1>3. counted \in [{"total", "passed", "failed"} -> Nat]
  BY DEF CountsKept
<1> QED BY <1>1, <1>2, <1>3

LEMMA MetricsEnds ==
    ASSUME HookInv, CountsKept, PostHook, Plugin = Metrics
    PROVE  /\ phase = "post" /\ phase' = "post" /\ UNCHANGED <<ran, reports, enabled, exitCode>>
           /\ Metrics \notin Called /\ Metrics \in Called' /\ Metrics \in enabled
           /\ counted' \in [{"total", "passed", "failed"} -> Nat]
           /\ counted'.total = counted.total
           /\ counted'.passed + counted'.failed <= counted.passed + counted.failed + 1
           /\ result = exitCode /\ exitCode # Nothing =>
                 /\ counted'.passed = counted.passed + (IF exitCode = 0 THEN 1 ELSE 0)
                 /\ counted'.failed = counted.failed + (IF exitCode = 0 THEN 0 ELSE 1)
<1>1. /\ counted' = IF result # Nothing THEN Counted(counted, result) ELSE counted
      /\ UNCHANGED <<ran, reports, enabled, exitCode>>
      /\ phase = "post" /\ phase' = "post" /\ Turn("post") /\ NextTurn /\ Metrics \in enabled
  BY DEF PostHook, Turn, NextTurn, IsOn
<1>2. Metrics \notin Called /\ Metrics \in Called'
  BY <1>1, OneTurnEach, TurnsMove
<1>3. counted \in [{"total", "passed", "failed"} -> Nat]
  BY DEF CountsKept
<1>4. CASE result = Nothing
  BY <1>1, <1>2, <1>3, <1>4
<1>5. CASE result # Nothing
  BY <1>1, <1>2, <1>3, <1>5, CountedOnce
<1> QED BY <1>4, <1>5

LEMMA CountsStep ==
    ASSUME HookInv, CountsKept, [HookNext]_hookVars
    PROVE  CountsKept'
<1> USE HookAssumption
<1>0. /\ ran \in Nat /\ MaxRuns \in Nat /\ ran <= MaxRuns
      /\ counted \in [{"total", "passed", "failed"} -> Nat]
      /\ counted.total \in Nat /\ counted.passed \in Nat /\ counted.failed \in Nat
      /\ reports \in [{"passed", "failed"} -> Nat]
      /\ reports.passed \in Nat /\ reports.failed \in Nat
  BY DEF CountsKept
<1>1. CASE BeginJobRun
  <2>1. ran' = ran + 1 /\ counted' = counted /\ reports' = reports /\ ran' <= MaxRuns /\ phase' = "pre"
    BY <1>0, <1>1 DEF BeginJobRun
  <2> QED BY <1>0, <2>1 DEF CountsKept
<1>2. CASE ReportRun
  <2>1. ran' = ran /\ counted' = counted /\ phase = "report" /\ phase' = "idle"
        /\ reports' = Counted(reports, answer)
    BY <1>2 DEF ReportRun
  <2>2. /\ reports' \in [{"passed", "failed"} -> Nat]
        /\ reports'.passed = reports.passed + (IF answer = 0 THEN 1 ELSE 0)
        /\ reports'.failed = reports.failed + (IF answer = 0 THEN 0 ELSE 1)
    BY <1>0, <2>1, ReportedOnce
  <2>3. reports.passed + reports.failed < ran
    BY <2>1 DEF CountsKept
  <2>4. reports'.passed + reports'.failed <= ran
    <3>1. CASE answer = 0
      BY <1>0, <2>2, <2>3, <3>1
    <3>2. CASE answer # 0
      BY <1>0, <2>2, <2>3, <3>2
    <3> QED BY <3>1, <3>2
  <2>5. counted.total <= ran /\ counted.passed + counted.failed <= ran /\ ran \in 0 .. MaxRuns
    BY DEF CountsKept
  <2> QED BY <2>1, <2>2, <2>4, <2>5, <1>0 DEF CountsKept
<1>3. ASSUME NEW ph \in {"pre", "post"}, SkipDisabled(ph) \/ ((PreHook \/ PostHook) /\ Plugin # Metrics),
             Turn(ph), NextTurn
      PROVE  CountsKept'
  <2>1. UNCHANGED <<counted, reports, ran, phase>> /\ phase \in {"pre", "post"}
    BY <1>3 DEF SkipDisabled, PreHook, PostHook, NextTurn, Turn
  <2>2. Metrics \notin Called' => Metrics \notin Called
    BY <1>3, TurnsMove
  <2> QED BY <2>1, <2>2 DEF CountsKept
<1>4. CASE PreHook /\ Plugin = Metrics
  BY <1>0, <1>4, MetricsBegins DEF CountsKept
<1>5. CASE PostHook /\ Plugin = Metrics
  <2>1. /\ phase = "post" /\ phase' = "post" /\ UNCHANGED <<ran, reports>>
        /\ Metrics \notin Called /\ Metrics \in Called'
        /\ counted' \in [{"total", "passed", "failed"} -> Nat]
        /\ counted'.total = counted.total
        /\ counted'.passed + counted'.failed <= counted.passed + counted.failed + 1
    BY <1>5, MetricsEnds
  <2>2. counted'.passed \in Nat /\ counted'.failed \in Nat
    BY <2>1
  <2> QED BY <1>0, <2>1, <2>2 DEF CountsKept
<1>6. CASE RunCommand
  <2>1. /\ UNCHANGED <<counted, reports, ran>> /\ phase = "run" /\ phase' = "post"
    BY <1>6 DEF RunCommand
  <2> QED BY <2>1 DEF CountsKept
<1>7. CASE HooksDone \/ Returns
  <2>1. /\ UNCHANGED <<counted, reports, ran>>
        /\ \/ phase = "pre" /\ phase' \in {"run", "dead"}
           \/ phase = "post" /\ phase' = "report"
    BY <1>7 DEF HooksDone, Returns
  <2> QED BY <2>1 DEF CountsKept
<1>8. ASSUME NEW ph \in {"pre", "post"}, HookKillsAgent(ph) PROVE CountsKept'
  BY <1>8 DEF HookKillsAgent, CountsKept
<1>9. CASE UNCHANGED hookVars
  BY <1>9 DEF hookVars, CountsKept, Called
<1>10. ASSUME NEW ph \in {"pre", "post"}, SkipDisabled(ph) PROVE CountsKept'
  BY <1>3, <1>10 DEF SkipDisabled
<1>11. CASE PreHook \/ PostHook
  BY <1>3, <1>4, <1>5, <1>11 DEF PreHook, PostHook
<1> QED BY <1>1, <1>2, <1>6, <1>7, <1>8, <1>9, <1>10, <1>11 DEF HookNext

\* Middleware rewrites a command or leaves it.
LEMMA ProcessedCommands == Processed \subseteq {"job", "middleware"}
BY DEF Processed

LEMMA FieldsStep ==
    ASSUME HookInv, FieldsTyped, [HookNext]_hookVars
    PROVE  FieldsTyped'
<1>1. CASE BeginJobRun
  BY <1>1, ProcessedCommands DEF BeginJobRun, FieldsTyped, Unseen
<1>2. ASSUME NEW ph \in {"pre", "post"}, HookKillsAgent(ph) \/ SkipDisabled(ph) PROVE FieldsTyped'
  BY <1>2 DEF HookKillsAgent, SkipDisabled, NextTurn, FieldsTyped
<1>3. CASE PreHook
  <2>1. command' \in {"job", "hook", "none"}
    BY <1>3 DEF PreHook, ContextAfter, FieldsTyped
  <2> QED BY <1>3, <2>1 DEF PreHook, IsOn, NextTurn, FieldsTyped
<1>4. CASE HooksDone
  <2>1. jobCommand' \in {"job", "middleware", "hook"} /\ phase' \in {"run", "dead"}
    BY <1>4 DEF HooksDone, FieldsTyped
  <2> QED BY <1>4, <2>1 DEF HooksDone, FieldsTyped
<1>5. CASE RunCommand
  BY <1>5 DEF RunCommand, CommandEnds, FieldsTyped
<1>6. CASE PostHook
  <2>1. /\ seen' = [seen EXCEPT ![Plugin] = result] /\ result' \in ResultAfter(Plugin)
        /\ UNCHANGED <<phase, enabled, jobCommand, command, exitCode, answer, before>>
    BY <1>6 DEF PostHook, NextTurn
  <2>2. result \in {-1, 0, 1, Nothing}
    BY DEF FieldsTyped
  <2>3. seen' \in [Hooked -> {-1, 0, 1, Nothing}] /\ result' \in {-1, 0, 1, Nothing}
    BY <2>1, <2>2 DEF FieldsTyped, ResultAfter
  <2> QED BY <2>1, <2>3 DEF FieldsTyped
<1>7. CASE Returns \/ ReportRun
  BY <1>7 DEF Returns, ReportRun, FieldsTyped
<1>8. CASE UNCHANGED hookVars
  BY <1>8 DEF hookVars, FieldsTyped
<1> QED BY <1>1, <1>2, <1>3, <1>4, <1>5, <1>6, <1>7, <1>8 DEF HookNext

\* The figures of an enabled MetricsPlugin, at each place of execute_job; those
\* of one that no meddler precedes follow the reports, ahead by the job in hand
\* from its own post_execute on.
Ahead == IF phase = "report" \/ (phase = "post" /\ Metrics \in Called) THEN 1 ELSE 0

FiguresAgree ==
    /\ phase # "dead" /\ Metrics \in enabled =>
          counted.total = IF phase = "pre" /\ Metrics \notin Called THEN ran - 1 ELSE ran
    /\ phase # "dead" /\ Metrics \in enabled /\ Undisturbed(Metrics) =>
          /\ counted.passed = reports.passed + (IF exitCode = 0 THEN Ahead ELSE 0)
          /\ counted.failed = reports.failed + (IF exitCode = 0 THEN 0 ELSE Ahead)

LEMMA FiguresStep ==
    ASSUME HookInv, CountsKept, FieldsTyped, FiguresAgree, [HookNext]_hookVars
    PROVE  FiguresAgree'
<1>0. /\ enabled' = enabled /\ (Undisturbed(Metrics)' <=> Undisturbed(Metrics))
      /\ ran \in Nat /\ (phase = "dead" => phase' = "dead")
      /\ counted.total \in Nat /\ counted.passed \in Nat /\ counted.failed \in Nat
      /\ reports \in [{"passed", "failed"} -> Nat] /\ reports.passed \in Nat /\ reports.failed \in Nat
      /\ exitCode \in {-1, 0, 1} /\ Metrics \in Hooked
      /\ phase \in {"idle", "pre", "run", "post", "report", "dead"}
  <2>1. enabled' = enabled
    BY DEF HookNext, BeginJobRun, HookKillsAgent, SkipDisabled, PreHook, HooksDone, RunCommand,
           PostHook, Returns, ReportRun, hookVars
  <2>2. phase = "dead" => phase' = "dead"
    BY DEF HookNext, BeginJobRun, HookKillsAgent, SkipDisabled, PreHook, HooksDone, RunCommand,
           PostHook, Returns, ReportRun, hookVars, Turn
  <2> QED BY <2>1, <2>2, HookAssumption DEF Undisturbed, CountsKept, FieldsTyped, Hooked
<1>1. CASE BeginJobRun
  <2>1. /\ ran' = ran + 1 /\ phase = "idle" /\ phase' = "pre" /\ turn' = 1
        /\ UNCHANGED <<counted, reports>>
    BY <1>1 DEF BeginJobRun
  <2>2. Called' = {}
    BY <2>1 DEF Called
  <2> QED BY <1>0, <2>1, <2>2 DEF FiguresAgree, Ahead
<1>2. ASSUME NEW ph \in {"pre", "post"}, HookKillsAgent(ph) PROVE FiguresAgree'
  BY <1>2 DEF HookKillsAgent, FiguresAgree
<1>3. ASSUME NEW ph \in {"pre", "post"}, Turn(ph), NextTurn, Plugin # Metrics \/ Metrics \notin enabled,
             UNCHANGED <<exitCode, counted, reports, ran>>
      PROVE  FiguresAgree'
  <2>1. phase' = phase /\ (Metrics \in enabled => (Metrics \in Called' <=> Metrics \in Called))
    BY <1>3, TurnsMove DEF NextTurn
  <2>2. Metrics \in enabled => Ahead' = Ahead
    BY <2>1 DEF Ahead
  <2> QED BY <1>0, <1>3, <2>1, <2>2 DEF FiguresAgree
<1>4. ASSUME NEW ph \in {"pre", "post"}, SkipDisabled(ph) PROVE FiguresAgree'
  BY <1>3, <1>4 DEF SkipDisabled, IsOn
<1>5. CASE PreHook /\ Plugin # Metrics
  BY <1>3, <1>5 DEF PreHook
<1>6. CASE PostHook /\ Plugin # Metrics
  BY <1>3, <1>6 DEF PostHook
<1>7. CASE PreHook /\ Plugin = Metrics
  <2>1. /\ phase = "pre" /\ phase' = "pre" /\ UNCHANGED <<ran, reports, exitCode>>
        /\ Metrics \notin Called /\ Metrics \in Called' /\ Metrics \in enabled
        /\ counted'.total = counted.total + 1
        /\ counted'.passed = counted.passed /\ counted'.failed = counted.failed
    BY <1>7, MetricsBegins
  <2> QED BY <1>0, <2>1 DEF FiguresAgree, Ahead
<1>8. CASE PostHook /\ Plugin = Metrics
  <2>1. /\ phase = "post" /\ phase' = "post" /\ UNCHANGED <<ran, reports, exitCode>>
        /\ Metrics \notin Called /\ Metrics \in Called' /\ Metrics \in enabled
        /\ counted'.total = counted.total
        /\ result = exitCode /\ exitCode # Nothing =>
              /\ counted'.passed = counted.passed + (IF exitCode = 0 THEN 1 ELSE 0)
              /\ counted'.failed = counted.failed + (IF exitCode = 0 THEN 0 ELSE 1)
    BY <1>8, MetricsEnds
  <2>2. Undisturbed(Metrics) => result = exitCode
    BY <1>8, <2>1, CalledUndisturbed DEF PostHook, HookInv
  <2>3. exitCode # Nothing
    BY <1>0 DEF Nothing
  <2> QED BY <1>0, <2>1, <2>2, <2>3 DEF FiguresAgree, Ahead
<1>9. CASE HooksDone
  <2>1. Called = Hooked
    BY <1>9, PluginsInOrder DEF HooksDone, HookInv, Called
  <2>2. UNCHANGED <<counted, reports, ran, exitCode>> /\ phase = "pre" /\ phase' \in {"run", "dead"}
    BY <1>9 DEF HooksDone
  <2> QED BY <1>0, <2>1, <2>2 DEF FiguresAgree, Ahead
<1>10. CASE RunCommand
  <2>1. /\ UNCHANGED <<counted, reports, ran>> /\ phase = "run" /\ phase' = "post" /\ turn' = 1
    BY <1>10 DEF RunCommand
  <2>2. Called' = {}
    BY <2>1 DEF Called
  <2> QED BY <1>0, <2>1, <2>2 DEF FiguresAgree, Ahead
<1>11. CASE Returns
  <2>1. Called = Hooked
    BY <1>11, PluginsInOrder DEF Returns, HookInv, Called
  <2>2. UNCHANGED <<counted, reports, ran, exitCode>> /\ phase = "post" /\ phase' = "report"
    BY <1>11 DEF Returns
  <2> QED BY <1>0, <2>1, <2>2 DEF FiguresAgree, Ahead
<1>12. CASE ReportRun
  <2>1. /\ UNCHANGED <<counted, ran, exitCode>> /\ phase = "report" /\ phase' = "idle"
        /\ reports' = Counted(reports, exitCode)
    BY <1>12 DEF ReportRun, HookInv
  <2>2. /\ reports'.passed = reports.passed + (IF exitCode = 0 THEN 1 ELSE 0)
        /\ reports'.failed = reports.failed + (IF exitCode = 0 THEN 0 ELSE 1)
    BY <1>0, <2>1, ReportedOnce
  <2> QED BY <1>0, <2>1, <2>2 DEF FiguresAgree, Ahead
<1>13. CASE UNCHANGED hookVars
  BY <1>13 DEF hookVars, FiguresAgree, Ahead, Called, Undisturbed
<1> QED BY <1>1, <1>2, <1>4, <1>5, <1>6, <1>7, <1>8, <1>9, <1>10, <1>11, <1>12, <1>13 DEF HookNext

\* What execute_job has kept of its figures and fields.
LEMMA HookFieldsHold == HookSpec => [](HookInv /\ CountsKept /\ FieldsTyped /\ FiguresAgree)
<1>1. HookInit => CountsKept /\ FieldsTyped /\ FiguresAgree
  <2> SUFFICES ASSUME HookInit PROVE CountsKept /\ FieldsTyped /\ FiguresAgree
    OBVIOUS
  <2>1. counted \in [{"total", "passed", "failed"} -> Nat] /\ ran \in 0 .. MaxRuns
    BY HookAssumption DEF HookInit
  <2>2. /\ counted.total = 0 /\ counted.passed = 0 /\ counted.failed = 0 /\ ran = 0 /\ phase = "idle"
        /\ reports.passed = 0 /\ reports.failed = 0 /\ reports \in [{"passed", "failed"} -> Nat]
    BY DEF HookInit
  <2>3. CountsKept
    BY <2>1, <2>2 DEF CountsKept
  <2>4. seen \in [Hooked -> {-1, 0, 1, Nothing}] /\ before = {}
    BY DEF HookInit, Unseen
  <2>5. FieldsTyped
    BY <2>4 DEF HookInit, FieldsTyped
  <2>6. FiguresAgree
    BY <2>2 DEF FiguresAgree, Ahead
  <2> QED BY <2>3, <2>5, <2>6
<1>2. HookInv /\ CountsKept /\ FieldsTyped /\ FiguresAgree /\ [HookNext]_hookVars
         => CountsKept' /\ FieldsTyped' /\ FiguresAgree'
  BY CountsStep, FieldsStep, FiguresStep
<1> QED BY <1>1, <1>2, HookInvHolds, PTL DEF HookSpec

\* The agent reports a job only after every enabled plugin saw its beginning and
\* its end, and those that no meddler precedes saw the code that is reported; the
\* figures of such a MetricsPlugin agree with the reports between two jobs.
THEOREM ReportedJobsAreWrapped == HookSpec => []ReportedJobIsWrapped
<1>1. HookInv /\ CountsKept /\ FiguresAgree => ReportedJobIsWrapped
  <2> SUFFICES ASSUME HookInv, CountsKept, FiguresAgree PROVE ReportedJobIsWrapped
    OBVIOUS
  <2>1. phase = "idle" => Ahead = 0
    BY DEF Ahead
  <2>2. reports.passed \in Nat /\ reports.failed \in Nat
    BY DEF CountsKept
  <2> QED BY <2>1, <2>2 DEF HookInv, FiguresAgree, ReportedJobIsWrapped
<1> QED BY <1>1, HookFieldsHold, PTL

\* The fields of execute_job are typed, and MetricsPlugin counts no job twice.
THEOREM HookTypeCorrect == HookSpec => []HookTypeOK
<1>1. HookInv /\ CountsKept /\ FieldsTyped => HookTypeOK
  <2> SUFFICES ASSUME HookInv, CountsKept, FieldsTyped PROVE HookTypeOK
    OBVIOUS
  <2>1. /\ counted \in [{"total", "passed", "failed"} -> 0 .. MaxRuns]
        /\ reports \in [{"passed", "failed"} -> 0 .. MaxRuns]
    <3>1. /\ ran \in 0 .. MaxRuns /\ MaxRuns \in Nat /\ counted.total <= ran
          /\ counted.passed + counted.failed <= ran /\ reports.passed + reports.failed <= ran
          /\ counted \in [{"total", "passed", "failed"} -> Nat]
          /\ reports \in [{"passed", "failed"} -> Nat]
      BY HookAssumption DEF CountsKept
    <3>2. /\ counted.total \in Nat /\ counted.passed \in Nat /\ counted.failed \in Nat
          /\ reports.passed \in Nat /\ reports.failed \in Nat
      BY <3>1
    <3>3. /\ counted.total \in 0 .. MaxRuns /\ counted.passed \in 0 .. MaxRuns
          /\ counted.failed \in 0 .. MaxRuns
          /\ reports.passed \in 0 .. MaxRuns /\ reports.failed \in 0 .. MaxRuns
      BY <3>1, <3>2
    <3> QED BY <3>1, <3>3
  <2>2. turn \in 1 .. Len(Plugins) + 1 /\ enabled \subseteq Hooked
    BY PluginsInOrder DEF HookInv
  <2> QED BY <2>1, <2>2 DEF HookTypeOK, FieldsTyped, CountsKept
<1> QED BY <1>1, HookFieldsHold, PTL

-----------------------------------------------------------------------------
(***************************************************************************)
(* The services together                                                   *)
(***************************************************************************)

\* Beside the others each component behaves as its own specification says: it
\* begins as one of its own, and takes one of its steps or none.  What is
\* proved of a component's specification therefore holds in the whole.
LEMMA EachFollowsItsSpec ==
    ServicesSpec => /\ CacheSpec /\ TriggerSpec /\ ScalerSpec /\ StepSpec /\ HookSpec
                    /\ ContainerSpec /\ VaultSpec /\ ArtifactSpec /\ LiveSpec /\ SkillSpec
                    /\ TokenSpec
<1>1. Init => /\ CacheInit /\ TriggerInit /\ ScalerInit /\ StepInit /\ HookInit /\ ContainerInit
              /\ VaultInit /\ ArtifactInit /\ LiveInit /\ SkillInit /\ TokenInit
  BY DEF Init
<1>2. [Next]_servicesVars => /\ [CacheNext]_cacheVars /\ [TriggerNext]_triggerVars
                             /\ [ScalerNext]_scalerVars /\ [StepNext]_stepVars
                             /\ [HookNext]_hookVars /\ [ContainerNext]_containerVars
                             /\ [VaultNext]_vaultVars /\ [ArtifactNext]_artifactVars
                             /\ [LiveNext]_liveVars /\ [SkillNext]_skillVars
                             /\ [TokenNext]_tokenVars
  BY Zenon DEF Next, Rest, servicesVars
<1> QED BY <1>1, <1>2, PTL DEF ServicesSpec, CacheSpec, TriggerSpec, ScalerSpec, StepSpec, HookSpec,
           ContainerSpec, VaultSpec, ArtifactSpec, LiveSpec, SkillSpec, TokenSpec

\* Every component is typed, whatever the others do.
THEOREM ServicesTypeCorrect == ServicesSpec => []ServicesTypeOK
BY EachFollowsItsSpec, CacheTypeCorrect, TriggerTypeCorrect, ScalerTypeCorrect,
   StepTypeCorrect, HookTypeCorrect, ContainerTypeCorrect, VaultTypeCorrect, ArtifactTypeCorrect,
   LiveTypeCorrect, SkillTypeCorrect, TokenTypeCorrect, PTL DEF ServicesTypeOK
=============================================================================
