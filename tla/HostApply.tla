------------------------------ MODULE HostApply ------------------------------
(***************************************************************************)
(* deploy/apply-profiles.sh: the root script that turns a candidate file   *)
(* of panel profiles into the live profiles.json, restarts tproxy-server   *)
(* and brings MTProxy's secret list in line.                               *)
(*                                                                         *)
(* Nothing serialises two runs: the panel starts one sudo process per      *)
(* handler and the script takes no lock.  So every access to a shared file *)
(* or service is a step of its own and the runs, one per slot, interleave. *)
(*                                                                         *)
(* None stands for a file that does not exist and for a process that does  *)
(* not run.                                                                *)
(***************************************************************************)
EXTENDS ProxyProfiles

CONSTANTS
  Slot,            \* runs of the script that may be in flight together
  BackupKeep,      \* BACKUP_KEEP; 0 turns rotation off
  MaxFaults        \* bound: failures of any kind in one behaviour

ASSUME HostAssumption ==
  /\ BackupKeep \in Nat
  /\ MaxFaults \in Nat

VARIABLES
  live,         \* /etc/tproxy-server/profiles.json
  loaded,       \* the profiles the running tproxy-server read when it started
  secretsFile,  \* /etc/mtproxy/mtproxy.secrets
  mtLoaded,     \* the -S secrets the running MTProxy was started with
  script,       \* the runs of the script
  faults        \* failures used up so far

hostFiles == <<live, loaded, secretsFile, mtLoaded>>
hostVars  == <<live, loaded, secretsFile, mtLoaded, script, faults>>

Running ==
  {"merge", "ports", "backup", "install", "verify", "restart", "restore",
   "sync", "compare", "write", "mtproxy"}

\* "rejected" is the exit after a refused tproxy-server restart, "failed" any
\* other non-zero exit.
Exited == {"ok", "failed", "rejected"}

NoScript ==
  [pc |-> "none", cand |-> {}, base |-> None, merged |-> {}, backup |-> None,
   secrets |-> {}, alone |-> TRUE]

ScriptRun ==
  [pc      : {"none"} \cup Running \cup Exited,
   cand    : SUBSET PanelProfile,           \* the argument's content
   base    : (SUBSET Profile) \cup {None},  \* history: the file a run that
                                            \*   is alone found
   merged  : SUBSET Profile,                \* $merged_tmp
   backup  : (SUBSET Profile) \cup {None},  \* $backup_path, None once rotated
   secrets : SUBSET Secret,                 \* $secrets_tmp
   alone   : BOOLEAN]                       \* history: no other run overlapped

\* The host with the panel's profiles c applied: the file exists unless it would
\* be empty, both services run what is on disk.  install.sh writes the secrets
\* file; where it could not, MTProxy still runs on its env file's secret.
HostInit(c) ==
  /\ live \in {ForeignProfile \cup c} \cup {f \in {None} : ForeignProfile \cup c = {}}
  /\ loaded = live
  /\ secretsFile \in {SecretsOf(ForeignProfile \cup c)} \cup {f \in {None} : c = {}}
  /\ mtLoaded = SecretsOf(ForeignProfile \cup c)
  /\ script = [w \in Slot |-> NoScript]
  /\ faults = 0

------------------------------------------------------------------------------
(* The script, step by step.                                               *)

Fault == faults < MaxFaults /\ faults' = faults + 1

At(w, pc) == script[w].pc = pc

Goto(w, pc) == script' = [script EXCEPT ![w].pc = pc]

\* die: the run ends and its temporary files are removed.
Fail(w) == script' = [script EXCEPT ![w] = [NoScript EXCEPT !.pc = "failed"]]

\* The panel executes the script with a file from its candidates directory.
StartScript(w, c) ==
  /\ At(w, "none")
  /\ script' =
       [v \in Slot |->
          IF v = w
            THEN [NoScript EXCEPT !.pc = "merge", !.cand = c,
                    !.alone = \A u \in Slot \ {w} : script[u].pc \notin Running]
            ELSE [script[v] EXCEPT !.alone = FALSE, !.base = None]]
  /\ UNCHANGED <<hostFiles, faults>>

\* Mutant: the merge accepts a repeated name or secret.
AcceptsDuplicates(w) ==
  /\ At(w, "merge")
  /\ script' = [script EXCEPT ![w].pc = "ports",
                              ![w].merged = MergedProfiles(live, script[w].cand)]
  /\ UNCHANGED <<hostFiles, faults>>

\* The merged file then passes tproxy-server -check; a refusal there is
\* ScriptDies.
MergeStep(w) ==
  /\ At(w, "merge")
  /\ LET m == MergedProfiles(live, script[w].cand)
     IN IF Unique(m)
          THEN script' = [script EXCEPT ![w].pc = "ports", ![w].merged = m,
                            ![w].base = IF script[w].alone THEN live ELSE None]
          ELSE Fail(w)
  /\ UNCHANGED <<hostFiles, faults>>

\* Mutant: the ports are not looked at.
SkipsPorts(w) ==
  /\ At(w, "ports")
  /\ Goto(w, "backup")
  /\ UNCHANGED <<hostFiles, faults>>

\* The backend of every profile must be listening.  All of them are MTProxy's
\* port, so the run dies when MTProxy is down, unless there is no profile.
PortsStep(w) ==
  /\ At(w, "ports")
  /\ IF script[w].merged = {} \/ mtLoaded # None
       THEN Goto(w, "backup")
       ELSE Fail(w)
  /\ UNCHANGED <<hostFiles, faults>>

\* The runs whose backups a rotation may leave.  It keeps the BackupKeep last of
\* the names in the directory.  Names are left out here (ApplyFiles has them),
\* so any of the backups may go, the one just taken included: it is not the last
\* name when a file of the same second, or from before the clock was set back,
\* sorts after it.
Unrotated ==
  IF BackupKeep = 0 THEN {Slot}
  ELSE {kept \in SUBSET Slot : Cardinality(kept) <= BackupKeep}

\* The live file, if there is one, is copied and the backups are rotated.
BackupStep(w) ==
  /\ At(w, "backup")
  /\ \E kept \in Unrotated :
       script' = [v \in Slot |->
                    IF v = w
                      THEN [script[w] EXCEPT !.pc = "install",
                              !.backup = IF w \in kept THEN live ELSE None]
                      ELSE [script[v] EXCEPT
                              !.backup = IF v \in kept THEN @ ELSE None]]
  /\ UNCHANGED <<hostFiles, faults>>

\* Written to a temporary file in the same directory and renamed: one step.
InstallStep(w) ==
  /\ At(w, "install")
  /\ live' = script[w].merged
  /\ script' = [script EXCEPT ![w].pc = "verify", ![w].merged = {}]
  /\ UNCHANGED <<loaded, secretsFile, mtLoaded, faults>>

\* The MISSING check reads the live file again and dies without restoring it.
VerifyStep(w) ==
  /\ At(w, "verify")
  /\ IF Names(script[w].cand) \subseteq Names(Profiles(live))
       THEN Goto(w, "restart")
       ELSE Fail(w)
  /\ UNCHANGED <<hostFiles, faults>>

\* Mutant: tproxy-server is not restarted.
ForgetsRestart(w) ==
  /\ At(w, "restart")
  /\ Goto(w, "sync")
  /\ UNCHANGED <<hostFiles, faults>>

\* The backup is not needed any more.
RestartStep(w) ==
  /\ At(w, "restart")
  /\ loaded' = live
  /\ script' = [script EXCEPT ![w].pc = "sync", ![w].backup = None, ![w].base = None]
  /\ UNCHANGED <<live, secretsFile, mtLoaded, faults>>

\* systemctl restart failed: the old process still runs or none does.
RestartRejected(w) ==
  /\ At(w, "restart")
  /\ Fault
  /\ loaded' \in {loaded, None}
  /\ Goto(w, "restore")
  /\ UNCHANGED <<live, secretsFile, mtLoaded>>

\* Mutant: the new file is restored, not the backup.
RestoresMerged(w) ==
  /\ At(w, "restore")
  /\ live' = IF script[w].backup = None THEN live
              ELSE MergedProfiles(live, script[w].cand)
  /\ Goto(w, "rejected")
  /\ UNCHANGED <<loaded, secretsFile, mtLoaded, faults>>

\* Best-effort restore of this run's own backup, when it still exists.
RestoreStep(w) ==
  /\ At(w, "restore")
  /\ live' = IF script[w].backup = None THEN live ELSE script[w].backup
  /\ Goto(w, "rejected")
  /\ UNCHANGED <<loaded, secretsFile, mtLoaded, faults>>

\* Mutant: names are collected, not secrets.
SyncsNames(w) ==
  /\ At(w, "sync")
  /\ script' = [script EXCEPT ![w].pc = "compare",
                              ![w].secrets = Names(Profiles(live))]
  /\ UNCHANGED <<hostFiles, faults>>

\* Mutant: the sync waits until there is a secret.
SyncWaits(w) ==
  /\ At(w, "sync")
  /\ SecretsOf(Profiles(live)) # {}
  /\ script' = [script EXCEPT ![w].pc = "compare",
                              ![w].secrets = SecretsOf(Profiles(live))]
  /\ UNCHANGED <<hostFiles, faults>>

\* sync_mtproxy_secrets: the secrets of the live file; it dies when there are
\* none.
SyncStep(w) ==
  /\ At(w, "sync")
  /\ LET s == SecretsOf(Profiles(live))
     IN IF s = {}
          THEN Fail(w)
          ELSE script' = [script EXCEPT ![w].pc = "compare", ![w].secrets = s]
  /\ UNCHANGED <<hostFiles, faults>>

CompareStep(w) ==
  /\ At(w, "compare")
  /\ IF secretsFile = script[w].secrets
       THEN script' = [script EXCEPT ![w].pc = "ok", ![w].secrets = {}]
       ELSE Goto(w, "write")
  /\ UNCHANGED <<hostFiles, faults>>

WriteStep(w) ==
  /\ At(w, "write")
  /\ secretsFile' = script[w].secrets
  /\ script' = [script EXCEPT ![w].pc = "mtproxy", ![w].secrets = {}]
  /\ UNCHANGED <<live, loaded, mtLoaded, faults>>

\* mtproxy-exec.sh reads the secrets file when the unit starts.
MtproxyStep(w) ==
  /\ At(w, "mtproxy")
  /\ mtLoaded' = secretsFile
  /\ Goto(w, "ok")
  /\ UNCHANGED <<live, loaded, secretsFile, faults>>

MtproxyRestartFails(w) ==
  /\ At(w, "mtproxy")
  /\ Fault
  /\ mtLoaded' \in {mtLoaded, None}
  /\ Fail(w)
  /\ UNCHANGED <<live, loaded, secretsFile>>

\* Any other command of the step fails (die, set -e) or the process is killed:
\* nothing more of this run happens.
ScriptDies(w) ==
  /\ script[w].pc \in Running
  /\ Fault
  /\ Fail(w)
  /\ UNCHANGED hostFiles

\* The caller has taken the exit status; the slot is free again.
ReapScript(w) ==
  /\ script[w].pc \in Exited
  /\ script' = [script EXCEPT ![w] = NoScript]
  /\ UNCHANGED <<hostFiles, faults>>

\* MTProxy, down since a failed restart, is started by systemd or the operator
\* and reads the secrets file.  Its unit is not the panel's.
MtproxyComesBack ==
  /\ mtLoaded = None
  /\ mtLoaded' = secretsFile
  /\ UNCHANGED <<live, loaded, secretsFile, script, faults>>

ScriptProgress(w) ==
  \/ MergeStep(w) \/ PortsStep(w) \/ BackupStep(w) \/ InstallStep(w)
  \/ VerifyStep(w) \/ RestartStep(w) \/ RestoreStep(w) \/ SyncStep(w)
  \/ CompareStep(w) \/ WriteStep(w) \/ MtproxyStep(w)

ScriptFailure(w) ==
  RestartRejected(w) \/ MtproxyRestartFails(w) \/ ScriptDies(w)

------------------------------------------------------------------------------
(* The script on its own: any valid candidate may be applied at any time.  *)

Candidate == {c \in SUBSET PanelProfile : Unique(c)}

HostNext ==
  \/ \E w \in Slot :
       \/ \E c \in Candidate : StartScript(w, c)
       \/ ScriptProgress(w)
       \/ ScriptFailure(w)
       \/ ReapScript(w)
  \/ MtproxyComesBack

\* The scheduler runs every process: a script that can go on does.
HostFairness == \A w \in Slot : WF_hostVars(ScriptProgress(w))

HostSpec == HostInit({}) /\ [][HostNext]_hostVars /\ HostFairness

------------------------------------------------------------------------------
(* Properties.                                                             *)

\* The files hold sets of profiles and secrets, each run is where the script
\* can be, and no more than MaxFaults commands have failed.
HostTypeOK ==
  /\ live \in (SUBSET Profile) \cup {None}
  /\ loaded \in (SUBSET Profile) \cup {None}
  /\ secretsFile \in (SUBSET Secret) \cup {None}
  /\ mtLoaded \in (SUBSET Secret) \cup {None}
  /\ script \in [Slot -> ScriptRun]
  /\ faults \in 0 .. MaxFaults

\* Whatever the runs overlap and wherever they fail, the live file keeps every
\* profile the panel does not own, unchanged, and gains no other such profile
\* (apply-profiles.sh: "keep non-panel profiles").
ForeignPreserved ==
  {p \in Profiles(live) : ~IsPanel(p)} = ForeignProfile

\* tproxy-server refuses a file with a repeated name or secret: the live file
\* never has one, although merges and restores of several runs interleave.
LiveFileValid == Unique(Profiles(live))

NoRun == \A w \in Slot : script[w].pc \notin Running

\* A run that overlapped no other and exits 0 has put exactly its candidate in
\* the live file, tproxy-server runs that file, the MTProxy secrets file lists
\* its secrets and MTProxy is up, whatever earlier runs left behind.  That
\* MTProxy was started with those secrets is not said: see
\* SuccessMeansMtproxyMatches.
SoloSuccessMatches ==
  \A w \in Slot :
    (script[w].alone /\ At(w, "ok")) =>
      /\ live = MergedProfiles(ForeignProfile, script[w].cand)
      /\ loaded = live
      /\ secretsFile = SecretsOf(live)
      /\ mtLoaded # None

\* As long as no command fails, both services run what is on disk once every
\* script has ended, however they interleaved: the last one to install a file
\* always gets to restart the service that reads it.
QuiescentServicesCurrent ==
  (NoRun /\ faults = 0) =>
    /\ loaded = live
    /\ secretsFile # None => mtLoaded = secretsFile

\* The live file that a run installs when no other runs beside it.
Applied(w) == MergedProfiles(ForeignProfile, script[w].cand)

\* When systemd rejects the restart, a run that overlapped no other leaves the
\* live file as it found it ("as close as possible to how it was found") if it
\* still has the backup it took; without one (no file was there, or the rotation
\* removed it) the rejected file stays.  No third file ever does.
RejectedRestartRestores ==
  \A w \in Slot :
    (script[w].alone /\ At(w, "rejected")) =>
      live = IF script[w].backup # None THEN script[w].base ELSE Applied(w)

\* Every started run ends: none of its steps waits for another run.
ScriptEnds ==
  \A w \in Slot : script[w].pc \in Running ~> script[w].pc \notin Running

\* Why the above holds.  What a run is about to install, and what it may put
\* back, has the foreign profiles and no duplicates, ...
FileInv(file) ==
  /\ {p \in file : ~IsPanel(p)} = ForeignProfile
  /\ Unique(file)

RunInv(w) ==
  /\ script[w].pc \in {"ports", "backup", "install"} =>
       FileInv(script[w].merged) /\ script[w].cand \subseteq script[w].merged
  /\ script[w].backup # None => FileInv(script[w].backup)

\* ... and a service that does not run what is on disk is about to be restarted
\* by the run that wrote it.
TproxyInv ==
  loaded = live \/
    \E w \in Slot :
      \/ At(w, "restart")
      \/ At(w, "verify") /\ Names(script[w].cand) \subseteq Names(Profiles(live))

MtproxyInv ==
  /\ mtLoaded # None
  /\ \A w \in Slot : At(w, "mtproxy") => secretsFile # None
  /\ secretsFile # None =>
       mtLoaded = secretsFile \/ \E w \in Slot : At(w, "mtproxy")

\* The inductive invariant of the script's runs: HostTypeOK, the two invariants
\* of the live file, and why they and QuiescentServicesCurrent hold.
HostInv ==
  /\ FileInv(Profiles(live))
  /\ \A w \in Slot : RunInv(w)
  /\ faults = 0 => /\ \A w \in Slot : ~At(w, "restore")
                   /\ TproxyInv
                   /\ MtproxyInv

\* Why a run on its own does what it should: what it found, what it carries and
\* what it has done so far.  A run that failed is not followed: it has forgotten
\* its candidate.
SoloRun(w) ==
  LET s == script[w]
  IN (s.alone /\ s.pc \notin {"none", "failed"}) =>
       /\ \A u \in Slot \ {w} : script[u].pc \notin Running
       /\ s.pc \in {"ports", "backup", "install"} =>
            s.merged = Applied(w) /\ live = s.base
       /\ s.pc \in {"install", "verify", "restart", "restore"} =>
            s.backup \in {s.base, None}
       /\ s.pc \in {"verify", "restart", "restore", "sync", "compare", "write",
                    "mtproxy", "ok"} => live = Applied(w)
       /\ s.pc \in {"backup", "install", "verify", "restart", "sync", "compare",
                    "write", "mtproxy", "ok"} =>
            Applied(w) = {} \/ mtLoaded # None
       /\ s.pc \in {"compare", "write", "mtproxy", "ok"} => Applied(w) # {}
       /\ s.pc \in {"sync", "compare", "write", "mtproxy", "ok"} => loaded = live
       /\ s.pc \in {"compare", "write"} => s.secrets = SecretsOf(live)
       /\ s.pc \in {"mtproxy", "ok"} => secretsFile = SecretsOf(live)
       /\ s.pc = "rejected" =>
            live = IF s.backup # None THEN s.base ELSE Applied(w)

SoloInv == \A w \in Slot : SoloRun(w)

\* The header's promise for step 9, "so revoke/issue always match", for a run on
\* its own: exit 0 means MTProxy accepts exactly the secrets of the live file.
SuccessMeansMtproxyMatches ==
  \A w \in Slot :
    (script[w].alone /\ At(w, "ok")) => mtLoaded = SecretsOf(Profiles(live))
==============================================================================
