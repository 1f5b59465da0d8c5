--------------------------- MODULE HostApplyProofs ---------------------------
EXTENDS HostApply, TLAPS

\* The two values a slot is reset to.
LEMMA ResetTypes ==
  /\ NoScript \in ScriptRun
  /\ [NoScript EXCEPT !.pc = "failed"] \in ScriptRun
<1>1. NoScript \in ScriptRun
  BY DEF NoScript, ScriptRun
<1>2. [NoScript EXCEPT !.pc = "failed"] \in ScriptRun
  BY <1>1 DEF ScriptRun, Exited
<1>3. QED
  BY <1>1, <1>2

\* What may happen to slot w: a run starts, goes on, breaks off or is reaped.
ScriptAction(w) ==
  \/ \E c \in SUBSET PanelProfile : StartScript(w, c)
  \/ ScriptProgress(w)
  \/ ScriptFailure(w)
  \/ ReapScript(w)

\* One step of one run of the script keeps the types.
LEMMA ScriptKeepsTypes ==
  ASSUME NEW w \in Slot, HostTypeOK, ScriptAction(w)
  PROVE  HostTypeOK'
<1> USE DEF HostTypeOK, hostFiles, At
<1>0. /\ script[w] \in ScriptRun
      /\ script[w].merged \in SUBSET Profile
      /\ script[w].cand \in SUBSET PanelProfile
      /\ PanelProfile \subseteq Profile
  BY DEF ScriptRun, PanelProfile, Profile
<1>1. ASSUME NEW c \in SUBSET PanelProfile, StartScript(w, c) PROVE HostTypeOK'
  <2> DEFINE alone == \A u \in Slot \ {w} : script[u].pc \notin Running
             new   == [NoScript EXCEPT !.pc = "merge", !.cand = c, !.alone = alone]
             other(v) == [script[v] EXCEPT !.alone = FALSE, !.base = None]
  <2>1. new \in ScriptRun
    BY ResetTypes DEF ScriptRun, Running
  <2>2. \A v \in Slot : other(v) \in ScriptRun
    BY DEF ScriptRun
  <2>3. script' = [v \in Slot |-> IF v = w THEN new ELSE other(v)]
    BY <1>1 DEF StartScript
  <2>4. script' \in [Slot -> ScriptRun]
    BY <2>1, <2>2, <2>3
  <2>5. QED
    BY <1>1, <2>4 DEF StartScript
<1>2. CASE MergeStep(w)
  <2> DEFINE m == MergedProfiles(live, script[w].cand)
  <2>1. m \in SUBSET Profile
    BY <1>0 DEF MergedProfiles, Profiles
  <2>2. CASE Unique(m)
    BY <1>2, <2>1, <2>2 DEF MergeStep, ScriptRun, Running
  <2>3. CASE ~Unique(m)
    BY <1>2, <2>3, ResetTypes DEF MergeStep, Fail
  <2>4. QED
    BY <2>2, <2>3
<1>3. CASE BackupStep(w)
  <2> DEFINE mine(k) == [script[w] EXCEPT !.pc = "install",
                           !.backup = IF w \in k THEN live ELSE None]
             other(k, v) == [script[v] EXCEPT !.backup = IF v \in k THEN @ ELSE None]
  <2>1. PICK k \in Unrotated :
          script' = [v \in Slot |-> IF v = w THEN mine(k) ELSE other(k, v)]
    BY <1>3 DEF BackupStep
  <2>2. mine(k) \in ScriptRun
    BY <1>0 DEF ScriptRun, Running
  <2>3. \A v \in Slot : other(k, v) \in ScriptRun
    BY DEF ScriptRun
  <2>4. script' \in [Slot -> ScriptRun]
    BY <2>1, <2>2, <2>3
  <2>5. QED
    BY <1>3, <2>4 DEF BackupStep
<1>p. CASE PortsStep(w)
  BY <1>p, ResetTypes DEF PortsStep, Goto, Fail, ScriptRun, Running
<1>4. CASE InstallStep(w)
  <2> DEFINE new == [script[w] EXCEPT !.pc = "verify", !.merged = {}]
  <2>1. new \in ScriptRun
    BY <1>0 DEF ScriptRun, Running
  <2>2. script' = [script EXCEPT ![w] = new]
    BY <1>4 DEF InstallStep
  <2>3. QED
    BY <1>4, <2>1, <2>2, <1>0 DEF InstallStep
<1>5. CASE VerifyStep(w)
  <2>1. script' \in [Slot -> ScriptRun]
    BY <1>5, ResetTypes DEF VerifyStep, Goto, Fail, ScriptRun, Running
  <2>2. QED
    BY <1>5, <2>1 DEF VerifyStep
<1>6. CASE RestartStep(w)
  <2> DEFINE new == [script[w] EXCEPT !.pc = "sync", !.backup = None, !.base = None]
  <2>1. new \in ScriptRun
    BY <1>0 DEF ScriptRun, Running
  <2>2. script' = [script EXCEPT ![w] = new]
    BY <1>6 DEF RestartStep
  <2>3. QED
    BY <1>6, <2>1, <2>2 DEF RestartStep
<1>7. CASE RestoreStep(w)
  BY <1>7 DEF RestoreStep, Goto, ScriptRun, Exited
<1>8. CASE SyncStep(w)
  <2> DEFINE s   == SecretsOf(Profiles(live))
             new == [script[w] EXCEPT !.pc = "compare", !.secrets = s]
  <2>1. s \in SUBSET Secret
    BY DEF SecretsOf, Profiles, Profile
  <2>2. new \in ScriptRun
    BY <1>0, <2>1 DEF ScriptRun, Running
  <2>3. CASE s = {}
    BY <1>8, <2>3, ResetTypes DEF SyncStep, Fail
  <2>4. CASE s # {}
    <3>1. script' = [script EXCEPT ![w] = new]
      BY <1>8, <2>4 DEF SyncStep
    <3>2. QED
      BY <1>8, <3>1, <2>2 DEF SyncStep
  <2>5. QED
    BY <2>3, <2>4
<1>9. CASE CompareStep(w)
  BY <1>9 DEF CompareStep, Goto, ScriptRun, Running, Exited
<1>10. CASE WriteStep(w)
  <2> DEFINE new == [script[w] EXCEPT !.pc = "mtproxy", !.secrets = {}]
  <2>1. /\ new \in ScriptRun
        /\ script[w].secrets \in SUBSET Secret
    BY <1>0 DEF ScriptRun, Running
  <2>2. script' = [script EXCEPT ![w] = new]
    BY <1>10 DEF WriteStep
  <2>3. QED
    BY <1>10, <2>1, <2>2 DEF WriteStep
<1>11. CASE MtproxyStep(w)
  BY <1>11 DEF MtproxyStep, Goto, ScriptRun, Exited
<1>f. ASSUME Fault PROVE faults' \in 0 .. MaxFaults
  BY <1>f, HostAssumption DEF Fault
<1>12. CASE RestartRejected(w)
  <2> DEFINE new == [script[w] EXCEPT !.pc = "restore"]
  <2>1. new \in ScriptRun
    BY <1>0 DEF ScriptRun, Running
  <2>2. script' = [script EXCEPT ![w] = new]
    BY <1>12 DEF RestartRejected, Goto
  <2>3. script' \in [Slot -> ScriptRun]
    BY <2>1, <2>2
  <2>4. faults' \in 0 .. MaxFaults
    BY <1>12, <1>f DEF RestartRejected
  <2>5. QED
    BY <1>12, <2>3, <2>4 DEF RestartRejected
<1>13. CASE MtproxyRestartFails(w)
  BY <1>13, <1>f, ResetTypes DEF MtproxyRestartFails, Fail
<1>14. CASE ScriptDies(w)
  BY <1>14, <1>f, ResetTypes DEF ScriptDies, Fail
<1>15. CASE ReapScript(w)
  BY <1>15, ResetTypes DEF ReapScript
<1>16. QED
  BY <1>1, <1>2, <1>3, <1>4, <1>5, <1>6, <1>7, <1>8, <1>9, <1>10, <1>11, <1>12,
     <1>13, <1>14, <1>15, <1>p DEF ScriptAction, ScriptProgress, ScriptFailure

\* What taking the backup does to the run that takes it.
LEMMA BackupTaken ==
  ASSUME NEW w \in Slot, HostTypeOK, BackupStep(w)
  PROVE  \E file \in {live, None} :
           script'[w] = [script[w] EXCEPT !.pc = "install", !.backup = file]
<1>1. PICK k \in Unrotated :
        script' = [v \in Slot |->
                     IF v = w
                       THEN [script[w] EXCEPT !.pc = "install",
                               !.backup = IF w \in k THEN live ELSE None]
                       ELSE [script[v] EXCEPT
                               !.backup = IF v \in k THEN @ ELSE None]]
  BY DEF BackupStep
<1>2. script'[w] = [script[w] EXCEPT !.pc = "install",
                      !.backup = IF w \in k THEN live ELSE None]
  BY <1>1
<1>3. QED
  BY <1>2

\* A step of one run leaves the others where they are; all it can do to them is
\* to rotate their backup away.
LEMMA OtherRuns ==
  ASSUME NEW w \in Slot, NEW v \in Slot \ {w}, HostTypeOK, ScriptAction(w)
  PROVE  /\ script'[v].pc = script[v].pc
         /\ script'[v].cand = script[v].cand
         /\ script'[v].merged = script[v].merged
         /\ script'[v].secrets = script[v].secrets
         /\ script'[v].backup \in {script[v].backup, None}
<1> USE DEF HostTypeOK
<1>0. script[v] \in ScriptRun
  OBVIOUS
<1>1. CASE \E c \in SUBSET PanelProfile : StartScript(w, c)
  <2>1. script'[v] = [script[v] EXCEPT !.alone = FALSE, !.base = None]
    BY <1>1 DEF StartScript
  <2>2. QED
    BY <1>0, <2>1 DEF ScriptRun
<1>2. CASE BackupStep(w)
  <2>1. \E x \in {script[v].backup, None} : script'[v] = [script[v] EXCEPT !.backup = x]
    BY <1>2 DEF BackupStep
  <2>2. QED
    BY <1>0, <2>1 DEF ScriptRun
<1>3. CASE \/ MergeStep(w) \/ PortsStep(w) \/ InstallStep(w) \/ VerifyStep(w) \/ RestartStep(w)
           \/ RestoreStep(w) \/ SyncStep(w) \/ CompareStep(w) \/ WriteStep(w)
           \/ MtproxyStep(w) \/ ScriptFailure(w) \/ ReapScript(w)
  <2>1. script'[v] = script[v]
    BY <1>3 DEF MergeStep, PortsStep, InstallStep, VerifyStep, RestartStep, RestoreStep,
                SyncStep, CompareStep, WriteStep, MtproxyStep, ScriptFailure,
                RestartRejected, MtproxyRestartFails, ScriptDies, ReapScript,
                Goto, Fail
  <2>2. QED
    BY <2>1
<1>4. QED
  BY <1>1, <1>2, <1>3 DEF ScriptAction, ScriptProgress

------------------------------------------------------------------------------
(* The files.  Every file a run installs or restores is the live file of    *)
(* some moment with its panel profiles exchanged.                           *)

\* A merge keeps the foreign profiles and contains the candidate.
LEMMA MergeKeepsForeign ==
  ASSUME NEW file, FileInv(Profiles(file)),
         NEW c \in SUBSET PanelProfile, Unique(MergedProfiles(file, c))
  PROVE  FileInv(MergedProfiles(file, c)) /\ c \subseteq MergedProfiles(file, c)
<1> DEFINE m == MergedProfiles(file, c)
<1>1. \A p \in c : IsPanel(p)
  BY DEF PanelProfile, IsPanel
<1>2. {p \in m : ~IsPanel(p)} = {p \in Profiles(file) : ~IsPanel(p)}
  BY <1>1 DEF MergedProfiles
<1>3. QED
  BY <1>2 DEF FileInv, MergedProfiles

FilesInv == FileInv(Profiles(live)) /\ \A w \in Slot : RunInv(w)

\* A step that leaves the live file alone keeps FilesInv if it keeps its own
\* run's files in order.
LEMMA SameLiveKeepsFiles ==
  ASSUME NEW w \in Slot, HostTypeOK, FilesInv, ScriptAction(w),
         live' = live, RunInv(w)'
  PROVE  FilesInv'
<1>1. ASSUME NEW v \in Slot \ {w} PROVE RunInv(v)'
  BY OtherRuns DEF FilesInv, RunInv, FileInv
<1>2. QED
  BY <1>1 DEF FilesInv, FileInv, Profiles

\* So does a step that installs or restores an orderly file.
LEMMA NewLiveKeepsFiles ==
  ASSUME NEW w \in Slot, HostTypeOK, FilesInv, ScriptAction(w), RunInv(w)',
         NEW file \in SUBSET Profile, FileInv(file), live' = file
  PROVE  FilesInv'
<1>1. ASSUME NEW v \in Slot \ {w} PROVE RunInv(v)'
  BY OtherRuns DEF FilesInv, RunInv, FileInv
<1>2. Profiles(live') = file
  BY ProfileAssumption DEF Profiles
<1>3. QED
  BY <1>1, <1>2 DEF FilesInv, FileInv, Profiles

\* Every step of every run keeps the live file, the merged files and the
\* backups in order.
LEMMA ScriptKeepsFiles ==
  ASSUME NEW w \in Slot, HostTypeOK, FilesInv, ScriptAction(w)
  PROVE  FilesInv'
<1> USE DEF HostTypeOK, hostFiles, At
<1>0. /\ script[w] \in ScriptRun
      /\ script[w].cand \in SUBSET PanelProfile
      /\ RunInv(w)
  BY DEF ScriptRun, FilesInv
<1>1. CASE \E c \in SUBSET PanelProfile : StartScript(w, c)
  <2>1. live' = live /\ script'[w].pc = "merge" /\ script'[w].backup = None
    BY <1>1 DEF StartScript, NoScript
  <2>2. QED
    BY <2>1, SameLiveKeepsFiles DEF RunInv
<1>2. CASE MergeStep(w)
  <2> DEFINE m == MergedProfiles(live, script[w].cand)
  <2>1. live' = live
    BY <1>2 DEF MergeStep
  <2>2. CASE Unique(m)
    <3>1. FileInv(m) /\ script[w].cand \subseteq m
      BY <1>0, <2>2, MergeKeepsForeign DEF FilesInv
    <3>2. /\ script'[w].merged = m
          /\ script'[w].cand = script[w].cand
          /\ script'[w].backup = script[w].backup
      BY <1>0, <1>2, <2>2 DEF MergeStep, ScriptRun
    <3>3. RunInv(w)'
      BY <1>0, <3>1, <3>2 DEF RunInv, FileInv
    <3>4. QED
      BY <2>1, <3>3, SameLiveKeepsFiles
  <2>3. CASE ~Unique(m)
    <3>1. script'[w].pc = "failed" /\ script'[w].backup = None
      BY <1>2, <2>3 DEF MergeStep, Fail, NoScript
    <3>2. QED
      BY <2>1, <3>1, SameLiveKeepsFiles DEF RunInv
  <2>4. QED
    BY <2>2, <2>3
<1>3. CASE BackupStep(w)
  <2>1. live' = live
    BY <1>3 DEF BackupStep
  <2>2. /\ script'[w].merged = script[w].merged
        /\ script'[w].cand = script[w].cand
        /\ script'[w].backup \in {None, live}
    BY <1>0, <1>3, BackupTaken DEF ScriptRun
  <2>3. script[w].pc = "backup"
    BY <1>3 DEF BackupStep
  <2>4. live # None => FileInv(live)
    BY DEF FilesInv, Profiles
  <2>5. RunInv(w)'
    BY <1>0, <2>2, <2>3, <2>4 DEF RunInv, FileInv
  <2>6. QED
    BY <2>1, <2>5, SameLiveKeepsFiles
<1>p. CASE PortsStep(w)
  <2>1. live' = live
    BY <1>p DEF PortsStep
  <2>2. \/ script'[w].pc = "failed" /\ script'[w].backup = None
        \/ /\ script'[w].pc = "backup"
           /\ script'[w].merged = script[w].merged
           /\ script'[w].cand = script[w].cand
           /\ script'[w].backup = script[w].backup
    BY <1>0, <1>p DEF PortsStep, Goto, Fail, NoScript, ScriptRun
  <2>3. RunInv(w)'
    BY <1>0, <1>p, <2>2 DEF RunInv, FileInv, PortsStep
  <2>4. QED
    BY <2>1, <2>3, SameLiveKeepsFiles
<1>4. CASE InstallStep(w)
  <2>1. /\ script[w].merged \in SUBSET Profile
        /\ FileInv(script[w].merged)
        /\ live' = script[w].merged
    BY <1>0, <1>4 DEF InstallStep, RunInv, ScriptRun
  <2>2. script'[w].pc = "verify" /\ script'[w].backup = script[w].backup
    BY <1>0, <1>4 DEF InstallStep, ScriptRun
  <2>3. RunInv(w)'
    BY <1>0, <2>2 DEF RunInv, FileInv
  <2>4. QED
    BY <2>1, <2>3, NewLiveKeepsFiles
<1>5. CASE RestoreStep(w)
  <2>1. script'[w].pc = "rejected" /\ script'[w].backup = script[w].backup
    BY <1>0, <1>5 DEF RestoreStep, Goto, ScriptRun
  <2>2. RunInv(w)'
    BY <1>0, <2>1 DEF RunInv, FileInv
  <2>3. CASE script[w].backup = None
    BY <1>5, <2>2, <2>3, SameLiveKeepsFiles DEF RestoreStep
  <2>4. CASE script[w].backup # None
    <3>1. script[w].backup \in SUBSET Profile /\ FileInv(script[w].backup)
      BY <1>0, <2>4 DEF RunInv, ScriptRun
    <3>2. live' = script[w].backup
      BY <1>5, <2>4 DEF RestoreStep
    <3>3. QED
      BY <2>2, <3>1, <3>2, NewLiveKeepsFiles
  <2>5. QED
    BY <2>3, <2>4
<1>6. CASE \/ VerifyStep(w) \/ RestartStep(w) \/ SyncStep(w) \/ CompareStep(w)
           \/ WriteStep(w) \/ MtproxyStep(w) \/ ScriptFailure(w)
           \/ ReapScript(w)
  <2>1. live' = live
    BY <1>6 DEF VerifyStep, RestartStep, SyncStep, CompareStep, WriteStep,
                MtproxyStep, ScriptFailure, RestartRejected,
                MtproxyRestartFails, ScriptDies, ReapScript
  <2>2. /\ script'[w].pc \notin {"ports", "backup", "install"}
        /\ script'[w].backup \in {script[w].backup, None}
    BY <1>0, <1>6 DEF VerifyStep, RestartStep, SyncStep, CompareStep, WriteStep,
                MtproxyStep, ScriptFailure, RestartRejected,
                MtproxyRestartFails, ScriptDies, ReapScript, Goto, Fail,
                NoScript, ScriptRun
  <2>3. RunInv(w)'
    BY <1>0, <2>2 DEF RunInv, FileInv
  <2>4. QED
    BY <2>1, <2>3, SameLiveKeepsFiles
<1>7. QED
  BY <1>1, <1>2, <1>3, <1>4, <1>5, <1>6, <1>p DEF ScriptAction, ScriptProgress

------------------------------------------------------------------------------
(* The services.                                                            *)

ServicesInv ==
  faults = 0 => /\ \A w \in Slot : ~At(w, "restore")
                /\ TproxyInv
                /\ MtproxyInv

\* A step that leaves the live file, the two services and the secrets file
\* alone, and takes its run neither out of a restart nor into a restore, keeps
\* the services about to be restarted.
LEMMA QuietStepKeepsServices ==
  ASSUME NEW w \in Slot, HostTypeOK, ServicesInv, ScriptAction(w),
         faults' = faults,
         live' = live, loaded' = loaded,
         secretsFile' = secretsFile, mtLoaded' = mtLoaded,
         script[w].pc \notin {"verify", "restart", "mtproxy"},
         script'[w].pc \notin {"restore", "mtproxy"}
  PROVE  ServicesInv'
<1> SUFFICES ASSUME faults = 0
             PROVE  ServicesInv'
  BY DEF ServicesInv
<1>1. \A v \in Slot : ~At(v, "restore")'
  BY OtherRuns DEF ServicesInv, At
<1>2. TproxyInv'
  <2>1. CASE loaded = live
    BY <2>1 DEF TproxyInv
  <2>2. ASSUME NEW v \in Slot,
               \/ At(v, "restart")
               \/ At(v, "verify") /\ Names(script[v].cand) \subseteq Names(Profiles(live))
        PROVE  TproxyInv'
    <3>1. v \in Slot \ {w}
      BY <2>2 DEF At
    <3>2. script'[v].pc = script[v].pc /\ script'[v].cand = script[v].cand
      BY <3>1, OtherRuns
    <3>3. QED
      BY <2>2, <3>2 DEF TproxyInv, At, Names, Profiles
  <2>3. QED
    BY <2>1, <2>2 DEF ServicesInv, TproxyInv
<1>3. MtproxyInv'
  BY OtherRuns DEF ServicesInv, MtproxyInv, At
<1>4. QED
  BY <1>1, <1>2, <1>3 DEF ServicesInv

\* Every step of every run keeps them.
LEMMA ScriptKeepsServices ==
  ASSUME NEW w \in Slot, HostTypeOK, FilesInv, ServicesInv, ScriptAction(w)
  PROVE  ServicesInv'
<1> USE DEF HostTypeOK, hostFiles, At
<1>0. /\ script[w] \in ScriptRun
      /\ faults \in Nat
      /\ \A v \in Slot \ {w} :
           script'[v].pc = script[v].pc /\ script'[v].cand = script[v].cand
  BY OtherRuns, HostAssumption DEF ScriptRun
<1>1. CASE \E c \in SUBSET PanelProfile : StartScript(w, c)
  BY <1>1, QuietStepKeepsServices DEF StartScript, NoScript
<1>2. CASE MergeStep(w) \/ PortsStep(w) \/ BackupStep(w) \/ SyncStep(w)
           \/ CompareStep(w) \/ ReapScript(w)
  <2>1. script[w].pc \notin {"verify", "restart", "mtproxy"}
    BY <1>2 DEF MergeStep, PortsStep, BackupStep, SyncStep, CompareStep, ReapScript, Exited
  <2>2. script'[w].pc \notin {"restore", "mtproxy"}
    <3>1. CASE MergeStep(w)
      BY <1>0, <3>1 DEF MergeStep, Fail, NoScript, ScriptRun
    <3>2. CASE BackupStep(w)
      <4>1. PICK kept \in Unrotated :
              script' = [v \in Slot |->
                IF v = w
                  THEN [script[w] EXCEPT !.pc = "install",
                          !.backup = IF w \in kept THEN live ELSE None]
                  ELSE [script[v] EXCEPT !.backup = IF v \in kept THEN @ ELSE None]]
        BY <3>2 DEF BackupStep
      <4>2. script'[w] = [script[w] EXCEPT !.pc = "install",
                            !.backup = IF w \in kept THEN live ELSE None]
        BY <4>1
      <4>3. QED
        BY <1>0, <4>2 DEF ScriptRun
    <3>3. CASE PortsStep(w)
      BY <1>0, <3>3 DEF PortsStep, Goto, Fail, NoScript, ScriptRun
    <3>4. CASE SyncStep(w)
      BY <1>0, <3>4 DEF SyncStep, Fail, NoScript, ScriptRun
    <3>5. CASE CompareStep(w) \/ ReapScript(w)
      BY <1>0, <3>5 DEF CompareStep, ReapScript, Goto, NoScript, ScriptRun
    <3>6. QED
      BY <1>2, <3>1, <3>2, <3>3, <3>4, <3>5
  <2>3. faults' = faults /\ UNCHANGED hostFiles
    BY <1>2 DEF MergeStep, PortsStep, BackupStep, SyncStep, CompareStep, ReapScript
  <2>4. QED
    BY <2>1, <2>2, <2>3, QuietStepKeepsServices
<1>3. CASE InstallStep(w)
  <2>1. /\ script'[w].pc = "verify"
        /\ script'[w].cand = script[w].cand
        /\ live' = script[w].merged
        /\ script[w].merged \in SUBSET Profile
    BY <1>0, <1>3 DEF InstallStep, ScriptRun
  <2>2. script[w].cand \subseteq script[w].merged
    BY <1>3 DEF InstallStep, FilesInv, RunInv
  <2>3. Profiles(live') = script[w].merged
    BY <2>1, ProfileAssumption DEF Profiles
  <2>4. TproxyInv'
    BY <2>1, <2>2, <2>3 DEF TproxyInv, Names, Profiles
  <2>5. faults = 0 => MtproxyInv'
    BY <1>0, <1>3, <2>1 DEF InstallStep, ServicesInv, MtproxyInv
  <2>6. QED
    BY <1>0, <1>3, <2>1, <2>4, <2>5 DEF InstallStep, ServicesInv
<1>4. CASE VerifyStep(w)
  <2> SUFFICES ASSUME faults = 0
               PROVE  ServicesInv'
    BY <1>4 DEF VerifyStep, ServicesInv
  <2>1. UNCHANGED <<live, loaded, secretsFile, mtLoaded>>
    BY <1>4 DEF VerifyStep
  <2>2. script'[w].pc \in {"restart", "failed"}
    BY <1>0, <1>4 DEF VerifyStep, Goto, Fail, NoScript, ScriptRun
  <2>3. Names(script[w].cand) \subseteq Names(Profiles(live))
          => script'[w].pc = "restart"
    BY <1>0, <1>4 DEF VerifyStep, Goto, ScriptRun
  <2>4. TproxyInv'
    <3>1. CASE loaded = live
      BY <2>1, <3>1 DEF TproxyInv
    <3>2. ASSUME NEW v \in Slot,
                 \/ At(v, "restart")
                 \/ At(v, "verify")
                    /\ Names(script[v].cand) \subseteq Names(Profiles(live))
          PROVE  TproxyInv'
      <4>1. CASE v = w
        BY <1>4, <2>3, <3>2, <4>1 DEF TproxyInv, VerifyStep
      <4>2. CASE v # w
        BY <1>0, <2>1, <3>2, <4>2 DEF TproxyInv, Names, Profiles
      <4>3. QED
        BY <4>1, <4>2
    <3>3. QED
      BY <3>1, <3>2 DEF ServicesInv, TproxyInv
  <2>5. MtproxyInv'
    BY <1>0, <1>4, <2>1, <2>2 DEF ServicesInv, MtproxyInv, VerifyStep
  <2>6. QED
    BY <1>0, <2>2, <2>4, <2>5 DEF ServicesInv
<1>5. CASE RestartStep(w)
  <2>1. loaded' = live' /\ script'[w].pc = "sync"
    BY <1>0, <1>5 DEF RestartStep, ScriptRun
  <2>2. faults = 0 => MtproxyInv'
    BY <1>0, <1>5, <2>1 DEF RestartStep, ServicesInv, MtproxyInv
  <2>3. QED
    BY <1>0, <1>5, <2>1, <2>2 DEF RestartStep, ServicesInv, TproxyInv
<1>6. CASE RestoreStep(w)
  BY <1>6 DEF RestoreStep, ServicesInv
<1>7. CASE WriteStep(w) \/ MtproxyStep(w)
  <2> SUFFICES ASSUME faults = 0
               PROVE  ServicesInv'
    BY <1>7 DEF WriteStep, MtproxyStep, ServicesInv
  <2>1. /\ script[w].pc \in {"write", "mtproxy"}
        /\ script'[w].pc # "restore"
        /\ live' = live /\ loaded' = loaded
    BY <1>0, <1>7 DEF WriteStep, MtproxyStep, Goto, ScriptRun
  <2>2. TproxyInv'
    <3>1. CASE loaded = live
      BY <2>1, <3>1 DEF TproxyInv
    <3>2. ASSUME NEW v \in Slot,
                 \/ At(v, "restart")
                 \/ At(v, "verify")
                    /\ Names(script[v].cand) \subseteq Names(Profiles(live))
          PROVE  TproxyInv'
      BY <1>0, <2>1, <3>2 DEF TproxyInv, Names, Profiles
    <3>3. QED
      BY <3>1, <3>2 DEF ServicesInv, TproxyInv
  <2>3. MtproxyInv'
    <3>1. CASE WriteStep(w)
      <4>1. secretsFile' \in SUBSET Secret /\ script'[w].pc = "mtproxy"
        BY <1>0, <3>1 DEF WriteStep, ScriptRun
      <4>2. secretsFile' # None
        BY <4>1, ProfileAssumption
      <4>3. QED
        BY <1>0, <3>1, <4>1, <4>2 DEF WriteStep, ServicesInv, MtproxyInv
    <3>2. CASE MtproxyStep(w)
      <4>1. secretsFile' # None /\ mtLoaded' = secretsFile'
        BY <3>2 DEF MtproxyStep, ServicesInv, MtproxyInv
      <4>2. QED
        BY <1>0, <4>1 DEF MtproxyInv
    <3>3. QED
      BY <1>7, <3>1, <3>2
  <2>4. QED
    BY <1>0, <2>1, <2>2, <2>3 DEF ServicesInv
<1>8. CASE ScriptFailure(w)
  BY <1>0, <1>8 DEF ScriptFailure, RestartRejected, MtproxyRestartFails,
                    ScriptDies, Fault, ServicesInv
<1>9. QED
  BY <1>1, <1>2, <1>3, <1>4, <1>5, <1>6, <1>7, <1>8
     DEF ScriptAction, ScriptProgress

------------------------------------------------------------------------------
(* The whole invariant.                                                     *)

\* The script's own behaviours consist of the actions above.
LEMMA HostNextActs ==
  HostNext => MtproxyComesBack \/ \E w \in Slot : ScriptAction(w)
BY DEF HostNext, ScriptAction, Candidate

\* HostInv is the conjunction the lemmas above are about.
LEMMA HostInvParts ==
  HostInv <=> FilesInv /\ ServicesInv
BY DEF HostInv, FilesInv, ServicesInv

\* A host with some valid list of panel profiles applied satisfies the invariant.
LEMMA HostInitEstablishes ==
  ASSUME NEW c \in SUBSET PanelProfile, Unique(ForeignProfile \cup c), HostInit(c)
  PROVE  HostTypeOK /\ HostInv
<1> DEFINE file == ForeignProfile \cup c
<1>1. /\ file \in SUBSET Profile
      /\ live \in {file} \cup {f \in {None} : file = {}}
      /\ loaded = live
      /\ secretsFile \in {SecretsOf(file)} \cup {None}
      /\ mtLoaded = SecretsOf(file)
      /\ script = [w \in Slot |-> NoScript]
      /\ faults = 0
  BY ProfileAssumption DEF HostInit, Profile, PanelProfile
<1>2. SecretsOf(file) \in SUBSET Secret
  BY <1>1 DEF SecretsOf, Profile
<1>3. HostTypeOK
  <2>1. 0 \in 0 .. MaxFaults
    BY HostAssumption
  <2>2. QED
    BY <1>1, <1>2, <2>1, ResetTypes DEF HostTypeOK
<1>4. Profiles(live) = file
  BY <1>1, ProfileAssumption DEF Profiles
<1>5. /\ \A p \in ForeignProfile : ~IsPanel(p)
      /\ \A p \in c : IsPanel(p)
  BY ProfileAssumption DEF IsPanel, PanelProfile
<1>6. FileInv(Profiles(live))
  BY <1>4, <1>5 DEF FileInv
<1>7. \A w \in Slot : RunInv(w) /\ ~At(w, "restore")
  BY <1>1 DEF RunInv, At, NoScript
<1>8. TproxyInv /\ MtproxyInv
  BY <1>1, <1>2, <1>7, ProfileAssumption DEF TproxyInv, MtproxyInv, At, NoScript
<1>9. QED
  BY <1>3, <1>6, <1>7, <1>8 DEF HostInv

\* Steps outside the host change nothing of it.
LEMMA HostStutters ==
  ASSUME HostTypeOK, HostInv, UNCHANGED hostVars
  PROVE  HostTypeOK' /\ HostInv'
BY DEF HostTypeOK, HostInv, FileInv, RunInv, TproxyInv, MtproxyInv, At, Names,
       Profiles, hostVars

\* Nor does MTProxy's return disturb any of it.
LEMMA MtproxyReturns ==
  ASSUME HostTypeOK, HostInv, MtproxyComesBack
  PROVE  HostTypeOK' /\ HostInv'
<1>1. HostTypeOK'
  BY DEF MtproxyComesBack, HostTypeOK
<1>2. faults' # 0
  BY DEF MtproxyComesBack, HostInv, MtproxyInv
<1>3. QED
  BY <1>1, <1>2 DEF MtproxyComesBack, HostInv, FileInv, RunInv, At, Profiles

\* A step of any run keeps the whole invariant.
LEMMA ScriptKeepsInv ==
  ASSUME NEW w \in Slot, HostTypeOK, HostInv, ScriptAction(w)
  PROVE  HostTypeOK' /\ HostInv'
<1>1. FilesInv /\ ServicesInv
  BY HostInvParts
<1>2. HostTypeOK'
  BY ScriptKeepsTypes
<1>3. FilesInv'
  BY <1>1, ScriptKeepsFiles
<1>4. ServicesInv'
  BY <1>1, ScriptKeepsServices
<1>5. HostInv'
  BY <1>3, <1>4 DEF HostInv, FilesInv, ServicesInv
<1>6. QED
  BY <1>2, <1>5

------------------------------------------------------------------------------
(* A run on its own.                                                        *)

\* With the foreign profiles in place, a merge depends on the candidate alone.
LEMMA MergeOfForeign ==
  ASSUME NEW file, FileInv(Profiles(file)), NEW c
  PROVE  MergedProfiles(file, c) = MergedProfiles(ForeignProfile, c)
<1>1. /\ Profiles(ForeignProfile) = ForeignProfile
      /\ \A p \in ForeignProfile : ~IsPanel(p)
  BY ProfileAssumption DEF Profiles, Profile, IsPanel
<1>2. {p \in Profiles(ForeignProfile) : ~IsPanel(p)} = ForeignProfile
  BY <1>1
<1>3. QED
  BY <1>2 DEF FileInv, MergedProfiles

\* A run that goes on, breaks off or starts is, or becomes, the one that runs: a
\* run that is alone and not over has no other run beside it, so only reaping
\* another one leaves it alone.
LEMMA OthersStayAlone ==
  ASSUME NEW w \in Slot, NEW v \in Slot \ {w}, HostTypeOK, SoloInv,
         ScriptAction(w)
  PROVE  SoloRun(v)'
<1> USE DEF HostTypeOK
<1>0. script[v] \in ScriptRun /\ SoloRun(v) /\ script[w] \in ScriptRun
  BY DEF SoloInv
<1>1. CASE \E c \in SUBSET PanelProfile : StartScript(w, c)
  <2>1. script'[v] = [script[v] EXCEPT !.alone = FALSE, !.base = None]
    BY <1>1 DEF StartScript
  <2>2. ~script'[v].alone
    BY <1>0, <2>1 DEF ScriptRun
  <2>3. QED
    BY <2>2 DEF SoloRun
<1>2. CASE ScriptProgress(w) \/ ScriptFailure(w)
  <2>1. script[w].pc \in Running
    BY <1>2 DEF ScriptProgress, ScriptFailure, MergeStep, PortsStep, BackupStep,
                InstallStep,
                VerifyStep, RestartStep, RestoreStep, SyncStep, CompareStep,
                WriteStep, MtproxyStep, RestartRejected, MtproxyRestartFails,
                ScriptDies, At, Running
  <2>2. ~script[v].alone \/ script[v].pc \in {"none", "failed"}
    BY <1>0, <2>1 DEF SoloRun
  <2>3. script'[v].pc = script[v].pc
    BY <1>2, OtherRuns DEF ScriptAction
  <2>4. script'[v].alone = script[v].alone
    <3>1. CASE BackupStep(w)
      <4>1. \E x \in {script[v].backup, None} :
              script'[v] = [script[v] EXCEPT !.backup = x]
        BY <3>1 DEF BackupStep
      <4>2. QED
        BY <1>0, <4>1 DEF ScriptRun
    <3>2. CASE ~BackupStep(w)
      <4>1. script'[v] = script[v]
        BY <1>2, <3>2
           DEF ScriptProgress, ScriptFailure, MergeStep, PortsStep, InstallStep,
               VerifyStep,
               RestartStep, RestoreStep, SyncStep, CompareStep, WriteStep,
               MtproxyStep, RestartRejected, MtproxyRestartFails, ScriptDies,
               Goto, Fail
      <4>2. QED
        BY <4>1
    <3>3. QED
      BY <3>1, <3>2
  <2>5. QED
    BY <2>2, <2>3, <2>4 DEF SoloRun
<1>3. CASE ReapScript(w)
  <2>1. /\ script'[v] = script[v]
        /\ \A u \in Slot \ {w} : script'[u] = script[u]
        /\ script'[w].pc = "none"
        /\ live' = live /\ loaded' = loaded /\ secretsFile' = secretsFile
        /\ mtLoaded' = mtLoaded
    BY <1>3 DEF ReapScript, NoScript, hostFiles
  <2>2. \A u \in Slot : script'[u].pc \in Running => script[u].pc \in Running
    BY <2>1 DEF Running
  <2>3. QED
    BY <1>0, <2>1, <2>2 DEF SoloRun, Applied
<1>4. QED
  BY <1>1, <1>2, <1>3 DEF ScriptAction

\* A run that is alone stays on the program that SoloRun describes.
LEMMA RunStaysSolo ==
  ASSUME NEW w \in Slot, HostTypeOK, FilesInv, SoloInv, ScriptAction(w)
  PROVE  SoloRun(w)'
<1> USE DEF HostTypeOK, hostFiles, At
<1>0. /\ script[w] \in ScriptRun
      /\ SoloRun(w)
      /\ \A u \in Slot \ {w} : script'[u].pc = script[u].pc
  BY OtherRuns DEF SoloInv
<1> DEFINE s == script[w]
           t == script'[w]
           Carries == t.alone = s.alone /\ t.cand = s.cand /\ t.base = s.base
                      /\ t.backup = s.backup
<1>1. CASE \E c \in SUBSET PanelProfile : StartScript(w, c)
  <2> PICK c \in SUBSET PanelProfile : StartScript(w, c)
    BY <1>1
  <2> DEFINE alone == \A u \in Slot \ {w} : script[u].pc \notin Running
  <2>1. t = [NoScript EXCEPT !.pc = "merge", !.cand = c, !.alone = alone]
    BY DEF StartScript
  <2>2. t.pc = "merge" /\ t.alone = alone /\ t.backup = None
    BY <2>1 DEF NoScript
  <2>3. QED
    BY <1>0, <2>2 DEF SoloRun
<1>2. CASE MergeStep(w)
  <2> DEFINE m == MergedProfiles(live, s.cand)
  <2>1. CASE Unique(m)
    <3>1. /\ t.pc = "ports" /\ t.merged = m /\ t.alone = s.alone
          /\ t.cand = s.cand /\ t.backup = s.backup
          /\ s.alone => t.base = live
          /\ live' = live
      BY <1>0, <1>2, <2>1 DEF MergeStep, ScriptRun
    <3>2. m = MergedProfiles(ForeignProfile, s.cand)
      BY MergeOfForeign DEF FilesInv
    <3>3. QED
      BY <1>0, <1>2, <3>1, <3>2 DEF SoloRun, Applied, MergeStep
  <2>2. CASE ~Unique(m)
    BY <1>2, <2>2 DEF MergeStep, Fail, NoScript, SoloRun
  <2>3. QED
    BY <2>1, <2>2
<1>p. CASE PortsStep(w)
  <2>1. /\ live' = live /\ mtLoaded' = mtLoaded
        /\ \/ t.pc = "failed"
           \/ /\ t.pc = "backup" /\ Carries /\ t.merged = s.merged
              /\ s.merged = {} \/ mtLoaded # None
    BY <1>0, <1>p DEF PortsStep, Goto, Fail, NoScript, ScriptRun
  <2>2. QED
    BY <1>0, <1>p, <2>1 DEF SoloRun, Applied, PortsStep
<1>3. CASE BackupStep(w)
  <2>1. /\ t.pc = "install" /\ t.merged = s.merged /\ t.alone = s.alone
        /\ t.cand = s.cand /\ t.base = s.base
        /\ t.backup \in {live, None}
        /\ live' = live /\ mtLoaded' = mtLoaded
    <3>1. live' = live /\ mtLoaded' = mtLoaded
      BY <1>3 DEF BackupStep
    <3>2. QED
      BY <1>0, <1>3, <3>1, BackupTaken DEF ScriptRun
  <2>2. QED
    BY <1>0, <1>3, <2>1 DEF SoloRun, Applied, BackupStep
<1>4. CASE InstallStep(w)
  <2>1. t.pc = "verify" /\ Carries /\ live' = s.merged /\ mtLoaded' = mtLoaded
    BY <1>0, <1>4 DEF InstallStep, ScriptRun
  <2>2. QED
    BY <1>0, <1>4, <2>1 DEF SoloRun, Applied, InstallStep
<1>5. CASE VerifyStep(w)
  <2>1. /\ live' = live /\ mtLoaded' = mtLoaded
        /\ t.pc = "failed" \/ (t.pc = "restart" /\ Carries)
    BY <1>0, <1>5 DEF VerifyStep, Goto, Fail, NoScript, ScriptRun
  <2>2. QED
    BY <1>0, <1>5, <2>1 DEF SoloRun, Applied, VerifyStep
<1>6. CASE RestartStep(w)
  <2>1. /\ t.pc = "sync" /\ t.alone = s.alone /\ t.cand = s.cand
        /\ live' = live /\ loaded' = live /\ mtLoaded' = mtLoaded
    BY <1>0, <1>6 DEF RestartStep, ScriptRun
  <2>2. QED
    BY <1>0, <1>6, <2>1 DEF SoloRun, Applied, RestartStep
<1>7. CASE RestartRejected(w)
  <2>1. t.pc = "restore" /\ Carries /\ live' = live /\ mtLoaded' = mtLoaded
    BY <1>0, <1>7 DEF RestartRejected, Goto, ScriptRun
  <2>2. QED
    BY <1>0, <1>7, <2>1 DEF SoloRun, Applied, RestartRejected
<1>8. CASE RestoreStep(w)
  <2>1. /\ t.pc = "rejected" /\ Carries
        /\ live' = IF s.backup = None THEN live ELSE s.backup
    BY <1>0, <1>8 DEF RestoreStep, Goto, ScriptRun
  <2>2. QED
    BY <1>0, <1>8, <2>1 DEF SoloRun, Applied, RestoreStep
<1>9. CASE SyncStep(w)
  <2> DEFINE new == SecretsOf(Profiles(live))
  <2>1. /\ live' = live /\ loaded' = loaded /\ mtLoaded' = mtLoaded
        /\ \/ t.pc = "failed"
           \/ t.pc = "compare" /\ Carries /\ t.secrets = new /\ new # {}
    BY <1>0, <1>9 DEF SyncStep, Fail, NoScript, ScriptRun
  <2>2. s.alone => Profiles(live) = live
    <3>1. s.cand \in SUBSET PanelProfile
      BY <1>0 DEF ScriptRun
    <3>2. Applied(w) \in SUBSET Profile
      BY <3>1, ProfileAssumption
         DEF Applied, MergedProfiles, Profiles, Profile, PanelProfile
    <3>3. s.alone => live = Applied(w)
      BY <1>0, <1>9 DEF SoloRun, SyncStep
    <3>4. QED
      BY <3>2, <3>3, ProfileAssumption DEF Profiles
  <2>3. s.alone /\ new # {} => Applied(w) # {}
    <3>1. s.alone => live = Applied(w)
      BY <1>0, <1>9 DEF SoloRun, SyncStep
    <3>2. QED
      BY <2>2, <3>1 DEF SecretsOf
  <2>4. QED
    BY <1>0, <1>9, <2>1, <2>2, <2>3 DEF SoloRun, Applied, SyncStep
<1>10. CASE CompareStep(w)
  <2>1. /\ live' = live /\ loaded' = loaded /\ secretsFile' = secretsFile
        /\ mtLoaded' = mtLoaded /\ Carries
        /\ \/ t.pc = "ok" /\ secretsFile = s.secrets
           \/ t.pc = "write" /\ t.secrets = s.secrets
    BY <1>0, <1>10 DEF CompareStep, Goto, ScriptRun
  <2>2. QED
    BY <1>0, <1>10, <2>1 DEF SoloRun, Applied, CompareStep
<1>11. CASE WriteStep(w)
  <2>1. /\ live' = live /\ loaded' = loaded /\ secretsFile' = s.secrets
        /\ mtLoaded' = mtLoaded /\ Carries /\ t.pc = "mtproxy"
    BY <1>0, <1>11 DEF WriteStep, ScriptRun
  <2>2. QED
    BY <1>0, <1>11, <2>1 DEF SoloRun, Applied, WriteStep
<1>12. CASE MtproxyStep(w)
  <2>1. /\ live' = live /\ loaded' = loaded /\ secretsFile' = secretsFile
        /\ mtLoaded' = secretsFile /\ Carries /\ t.pc = "ok"
    BY <1>0, <1>12 DEF MtproxyStep, Goto, ScriptRun
  <2>2. s.alone => secretsFile # None
    <3>1. SecretsOf(Applied(w)) \in SUBSET Secret
      BY <1>0, ProfileAssumption
         DEF Applied, SecretsOf, MergedProfiles, Profiles, Profile, PanelProfile,
             ScriptRun
    <3>2. SecretsOf(Applied(w)) # None
      BY <3>1, ProfileAssumption
    <3>3. s.alone => secretsFile = SecretsOf(Applied(w))
      BY <1>0, <1>12 DEF SoloRun, MtproxyStep
    <3>4. QED
      BY <3>2, <3>3
  <2>3. QED
    BY <1>0, <1>12, <2>1, <2>2 DEF SoloRun, Applied, MtproxyStep
<1>13. CASE MtproxyRestartFails(w) \/ ScriptDies(w) \/ ReapScript(w)
  <2>1. t.pc \in {"none", "failed"}
    BY <1>0, <1>13 DEF MtproxyRestartFails, ScriptDies, ReapScript, Fail, NoScript
  <2>2. QED
    BY <2>1 DEF SoloRun
<1>14. QED
  BY <1>1, <1>2, <1>3, <1>4, <1>5, <1>6, <1>7, <1>8, <1>9, <1>10, <1>11, <1>12,
     <1>13, <1>p DEF ScriptAction, ScriptProgress, ScriptFailure

\* So does every run when any of them takes a step.
LEMMA ScriptKeepsSolo ==
  ASSUME NEW w \in Slot, HostTypeOK, HostInv, SoloInv, ScriptAction(w)
  PROVE  SoloInv'
<1>1. SoloRun(w)'
  BY RunStaysSolo, HostInvParts
<1>2. \A v \in Slot \ {w} : SoloRun(v)'
  BY OthersStayAlone
<1>3. QED
  BY <1>1, <1>2 DEF SoloInv

\* MTProxy's return leaves every run where it is.
LEMMA ReturnKeepsSolo ==
  ASSUME HostTypeOK, SoloInv, MtproxyComesBack
  PROVE  SoloInv'
<1> SUFFICES ASSUME NEW w \in Slot PROVE SoloRun(w)'
  BY DEF SoloInv
<1>1. SoloRun(w)
  BY DEF SoloInv
<1>2. QED
  BY <1>1 DEF SoloRun, Applied, MtproxyComesBack

\* No run has begun yet.
LEMMA HostInitSolo ==
  ASSUME script = [w \in Slot |-> NoScript]
  PROVE  SoloInv
BY DEF SoloInv, SoloRun, NoScript

------------------------------------------------------------------------------
(* The theorems.                                                            *)

\* The inductive invariant holds in every behaviour of the script's runs, for
\* every number of runs, users, secrets, backups kept and failures.
THEOREM HostInvariant == HostSpec => [](HostTypeOK /\ HostInv)
<1>1. HostInit({}) => HostTypeOK /\ HostInv
  <2>1. ForeignProfile \cup {} = ForeignProfile
    OBVIOUS
  <2>2. QED
    BY <2>1, HostInitEstablishes, ProfileAssumption
<1>2. HostTypeOK /\ HostInv /\ [HostNext]_hostVars => (HostTypeOK /\ HostInv)'
  <2> SUFFICES ASSUME HostTypeOK, HostInv, [HostNext]_hostVars
               PROVE  (HostTypeOK /\ HostInv)'
    OBVIOUS
  <2>1. CASE HostNext
    BY <2>1, HostNextActs, ScriptKeepsInv, MtproxyReturns
  <2>2. CASE UNCHANGED hostVars
    BY <2>2, HostStutters
  <2>3. QED
    BY <2>1, <2>2
<1>3. QED
  BY <1>1, <1>2, PTL DEF HostSpec

\* Type correctness of apply-profiles.sh's runs and of the files they share.
THEOREM HostTypeCorrect == HostSpec => []HostTypeOK
BY HostInvariant, PTL

\* No interleaving of any number of runs, with failures anywhere, loses or
\* changes a profile of the live file that the panel does not own.
THEOREM ForeignKept == HostSpec => []ForeignPreserved
<1>1. HostInv => ForeignPreserved
  BY DEF HostInv, FileInv, ForeignPreserved
<1>2. QED
  BY <1>1, HostInvariant, PTL

\* Nor does any of them install a file with a repeated name or secret.
THEOREM LiveValid == HostSpec => []LiveFileValid
<1>1. HostInv => LiveFileValid
  BY DEF HostInv, FileInv, LiveFileValid
<1>2. QED
  BY <1>1, HostInvariant, PTL

\* As long as no command fails, both services run what is on disk whenever no
\* script is running.
THEOREM ServicesCurrent == HostSpec => []QuiescentServicesCurrent
<1>1. HostInv => QuiescentServicesCurrent
  <2> SUFFICES ASSUME HostInv, NoRun, faults = 0
               PROVE  /\ loaded = live
                      /\ secretsFile # None => mtLoaded = secretsFile
    BY DEF QuiescentServicesCurrent
  <2>1. \A w \in Slot : ~At(w, "restart") /\ ~At(w, "verify") /\ ~At(w, "mtproxy")
    BY DEF NoRun, Running, At
  <2>2. QED
    BY <2>1 DEF HostInv, TproxyInv, MtproxyInv
<1>2. QED
  BY <1>1, HostInvariant, PTL

\* SoloInv, with HostTypeOK and HostInv, is inductive too: what a run that
\* overlaps no other has found, carries and has done.
THEOREM SoloInvariant == HostSpec => []SoloInv
<1>1. HostInit({}) => SoloInv
  BY HostInitSolo DEF HostInit
<1>2. HostTypeOK /\ HostInv /\ SoloInv /\ [HostNext]_hostVars => SoloInv'
  <2> SUFFICES ASSUME HostTypeOK, HostInv, SoloInv, [HostNext]_hostVars
               PROVE  SoloInv'
    OBVIOUS
  <2>1. CASE HostNext
    BY <2>1, HostNextActs, ScriptKeepsSolo, ReturnKeepsSolo
  <2>2. CASE UNCHANGED hostVars
    BY <2>2 DEF SoloInv, SoloRun, Applied, hostVars
  <2>3. QED
    BY <2>1, <2>2
<1>3. QED
  BY <1>1, <1>2, HostInvariant, PTL DEF HostSpec

\* Whatever earlier runs left behind, a run that overlapped no other and exits 0
\* has installed exactly the foreign profiles and its candidate, restarted
\* tproxy-server on them and brought the secrets file in line, and MTProxy is up.
THEOREM SoloSuccess == HostSpec => []SoloSuccessMatches
<1>1. SoloInv => SoloSuccessMatches
  BY DEF SoloInv, SoloRun, Applied, SoloSuccessMatches, At
<1>2. QED
  BY <1>1, SoloInvariant, PTL

\* And when the restart is refused it has put back the file it found if it still
\* has its own backup, and left the file it installed otherwise.
THEOREM RejectionRestores == HostSpec => []RejectedRestartRestores
<1>1. SoloInv => RejectedRestartRestores
  BY DEF SoloInv, SoloRun, Applied, RejectedRestartRestores, At
<1>2. QED
  BY <1>1, SoloInvariant, PTL
==============================================================================
