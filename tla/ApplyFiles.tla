------------------------------ MODULE ApplyFiles ------------------------------
(***************************************************************************)
(* The candidate and backup files of an apply: internal/applier's          *)
(* writeCandidate and backupProfiles with their pruning, and how           *)
(* apply-profiles.sh names, rotates and restores backups.                  *)
(*                                                                         *)
(* Files are ordered by the timestamps in their names, every apply prunes  *)
(* what all of them wrote, and nothing takes a lock.  HostApply has the    *)
(* rest of the script; its backups are kept by age, these by name.         *)
(***************************************************************************)
EXTENDS Integers, Sequences, FiniteSets

CONSTANTS
  Apply,        \* the applies that may run, one after the other or together
  Keeps,        \* values of BACKUP_KEEP; the script reads 0 as no rotation
  TickRate,     \* clock ticks in a second
  MaxTime,      \* bound: the clock stops there
  MaxStepsBack  \* bound: times the clock is set back

ASSUME FilesAssumption ==
  /\ Apply \subseteq Nat \ {0} /\ IsFiniteSet(Apply)
  /\ Keeps \subseteq Nat /\ TickRate \in Nat \ {0}
  /\ MaxTime \in Nat /\ TickRate <= MaxTime
  /\ MaxStepsBack \in Nat

VARIABLES
  clock,       \* the wall clock, in ticks
  seq,         \* candidateSeq and backupSeq: only their order matters
  candidates,  \* the names in backup/candidates
  backups,     \* the names in backup, each with what its file holds
  installed,   \* whose profiles profiles.json holds, 0: the installer's
  readable,    \* the panel may read profiles.json
  keep,        \* BACKUP_KEEP, of the panel and of the script
  run,         \* what each apply is doing
  alone,       \* history: the applies that never overlapped another
  stepsBack    \* history: times the clock was set back

timeVars == <<clock, stepsBack>>
orderVars == <<seq, alone>>
dirVars == <<candidates, backups, installed, readable, keep>>

filesVars == <<timeVars, orderVars, dirVars, run>>

Second == clock \div TickRate

\* A name is the parts it sorts by: a candidate's time and number; of a backup
\* profiles.json.<second>.<nanos>Z.<seq>.bak the panel's, <second>Z.<n>.bak the
\* script's, <second>Z.bak the script's first in that second.
CandidateName(n) == <<clock, n>>
PanelBackup(n) == <<Second, 0, clock, n>>
ScriptBackup(n) == <<Second, IF n = 0 THEN 2 ELSE 1, 0, n>>

SortsBefore(x, y) ==
  \E i \in DOMAIN x : x[i] < y[i] /\ \A j \in 1 .. i - 1 : x[j] = y[j]

\* The n-th of these names in their order.
Nth(names, n) ==
  CHOOSE x \in names : Cardinality({y \in names : SortsBefore(y, x)}) = n - 1

\* Mutant: newest first.
SortsAfter(names) ==
  LET count == Cardinality(names)
  IN [i \in 1 .. (IF keep = 0 THEN 0 ELSE count - keep) |->
        Nth(names, count + 1 - i)]

\* Mutant: one file too many is kept.
KeepsOneMore(names) ==
  [i \in 1 .. (IF keep = 0 THEN 0 ELSE Cardinality(names) - keep - 1) |->
     Nth(names, i)]

\* What pruning removes, in its order.
Oldest(names) ==
  [i \in 1 .. (IF keep = 0 THEN 0 ELSE Cardinality(names) - keep) |->
     Nth(names, i)]

\* Ended: the candidate was pruned before it was used, or pruning failed.
Failed == {"lost", "prune_failed"}
Ended == Failed \cup {"done", "restored", "unrestored"}

Places ==
  {"idle", "named", "written", "pruning", "valid", "copied", "dropping", "script",
   "naming", "named_backup", "saved", "rotating", "restarting"} \cup Ended

NotBegun ==
  [at |-> "idle", cand |-> <<>>, todo |-> <<>>, bak |-> <<>>, from |-> 0]

FilesInit ==
  /\ clock = TickRate
  /\ seq = 0
  /\ candidates \in {{}, {<<0, 0>>}}
  /\ backups \in {<<>>, [b \in {<<0, 2, 0, 0>>} |-> 0]}
  /\ installed = 0
  /\ readable \in BOOLEAN /\ keep \in Keeps
  /\ run = [a \in Apply |-> NotBegun]
  /\ alone = Apply
  /\ stepsBack = 0

Is(a, at) == run[a].at = at

GoOn(a, at, todo) == run' = [run EXCEPT ![a].at = at, ![a].todo = todo]

\* Put a file that holds what profiles.json does.
Backed(b) ==
  backups' = [x \in DOMAIN backups \cup {b} |->
                IF x = b THEN installed ELSE backups[x]]

Drop(b) == backups' = [x \in DOMAIN backups \ {b} |-> backups[x]]

Working == {a \in Apply : run[a].at \notin Ended \cup {"idle"}}

------------------------------------------------------------------------------
(* The panel: writeCandidate, validateCandidate, backupProfiles.           *)

\* The number, then the time; another apply between the two changes nothing.
NameCandidate(a) ==
  /\ Is(a, "idle")
  /\ seq' = seq + 1
  /\ run' = [run EXCEPT ![a].at = "named", ![a].cand = CandidateName(seq')]
  /\ alone' = IF Working = {} THEN alone ELSE alone \ (Working \cup {a})
  /\ UNCHANGED <<timeVars, dirVars>>

WriteCandidate(a) ==
  /\ Is(a, "named")
  /\ candidates' = candidates \cup {run[a].cand}
  /\ GoOn(a, "written", <<>>)
  /\ UNCHANGED <<timeVars, orderVars, backups, installed, readable, keep>>

ListCandidates(a) ==
  /\ Is(a, "written")
  /\ GoOn(a, "pruning", Oldest(candidates))
  /\ UNCHANGED <<timeVars, orderVars, dirVars>>

\* os.Remove of a file another apply has removed is an error of the apply.
PruneCandidate(a) ==
  /\ Is(a, "pruning") /\ run[a].todo # <<>>
  /\ IF Head(run[a].todo) \in candidates
       THEN /\ candidates' = candidates \ {Head(run[a].todo)}
            /\ GoOn(a, "pruning", Tail(run[a].todo))
       ELSE GoOn(a, "prune_failed", <<>>) /\ UNCHANGED candidates
  /\ UNCHANGED <<timeVars, orderVars, backups, installed, readable, keep>>

ValidateCandidate(a) ==
  /\ Is(a, "pruning") /\ run[a].todo = <<>>
  /\ GoOn(a, IF run[a].cand \in candidates THEN "valid" ELSE "lost", <<>>)
  /\ UNCHANGED <<timeVars, orderVars, dirVars>>

\* apply goes on when the panel may not read profiles.json.
BackupProfiles(a) ==
  /\ Is(a, "valid")
  /\ IF readable
       THEN seq' = seq + 1 /\ Backed(PanelBackup(seq')) /\ GoOn(a, "copied", <<>>)
       ELSE UNCHANGED <<seq, backups>> /\ GoOn(a, "script", <<>>)
  /\ UNCHANGED <<timeVars, alone, candidates, installed, readable, keep>>

ListPanelBackups(a) ==
  /\ Is(a, "copied")
  /\ GoOn(a, "dropping", Oldest(DOMAIN backups))
  /\ UNCHANGED <<timeVars, orderVars, dirVars>>

\* A backup that is gone ends the pruning with an error that
\* isUnreadableProfiles takes for a profiles.json that cannot be read.
PruneBackup(a) ==
  /\ Is(a, "dropping")
  /\ IF run[a].todo # <<>> /\ Head(run[a].todo) \in DOMAIN backups
       THEN Drop(Head(run[a].todo)) /\ GoOn(a, "dropping", Tail(run[a].todo))
       ELSE UNCHANGED backups /\ GoOn(a, "script", <<>>)
  /\ UNCHANGED <<timeVars, orderVars, candidates, installed, readable, keep>>

------------------------------------------------------------------------------
(* The script.                                                             *)

\* Of its reads of the candidate the last one decides: what is gone stays gone.
ReadCandidate(a) ==
  /\ Is(a, "script")
  /\ GoOn(a, IF run[a].cand \in candidates THEN "naming" ELSE "lost", <<>>)
  /\ UNCHANGED <<timeVars, orderVars, dirVars>>

Takes(a, n) ==
  /\ Is(a, "naming")
  /\ run' = [run EXCEPT ![a].at = "named_backup", ![a].bak = ScriptBackup(n)]
  /\ UNCHANGED <<timeVars, orderVars, dirVars>>

\* Mutant: the name is not looked up first.
TakesSecond(a) == Takes(a, 0)

\* The first number that is free, and the copy is a step of its own.
NameBackup(a) ==
  \E n \in 0 .. Cardinality(DOMAIN backups) :
    /\ ScriptBackup(n) \notin DOMAIN backups
    /\ \A m \in 0 .. n - 1 : ScriptBackup(m) \in DOMAIN backups
    /\ Takes(a, n)

CopyBackup(a) ==
  /\ Is(a, "named_backup")
  /\ Backed(run[a].bak)
  /\ GoOn(a, "saved", <<>>)
  /\ UNCHANGED <<timeVars, orderVars, candidates, installed, readable, keep>>

ListBackups(a) ==
  /\ Is(a, "saved")
  /\ GoOn(a, "rotating", Oldest(DOMAIN backups))
  /\ UNCHANGED <<timeVars, orderVars, dirVars>>

\* rm -f does not mind a file that is gone.
RotateBackup(a) ==
  /\ Is(a, "rotating") /\ run[a].todo # <<>>
  /\ Drop(Head(run[a].todo))
  /\ GoOn(a, "rotating", Tail(run[a].todo))
  /\ UNCHANGED <<timeVars, orderVars, candidates, installed, readable, keep>>

InstallLive(a) ==
  /\ Is(a, "rotating") /\ run[a].todo = <<>>
  /\ installed' = a
  /\ run' = [run EXCEPT ![a].at = "restarting", ![a].from = installed]
  /\ UNCHANGED <<timeVars, orderVars, candidates, backups, readable, keep>>

RestartAccepted(a) ==
  /\ Is(a, "restarting")
  /\ GoOn(a, "done", <<>>)
  /\ UNCHANGED <<timeVars, orderVars, dirVars>>

\* The backup is put back if it is still there.
RestartRefused(a) ==
  /\ Is(a, "restarting")
  /\ IF run[a].bak \in DOMAIN backups
       THEN installed' = backups[run[a].bak] /\ GoOn(a, "restored", <<>>)
       ELSE UNCHANGED installed /\ GoOn(a, "unrestored", <<>>)
  /\ UNCHANGED <<timeVars, orderVars, candidates, backups, readable, keep>>

------------------------------------------------------------------------------
ClockTicks ==
  /\ clock < MaxTime
  /\ clock' = clock + 1
  /\ UNCHANGED <<stepsBack, orderVars, dirVars, run>>

\* time.Now().UTC() and date are the wall clock, which may be set back.
ClockSetBack ==
  /\ stepsBack < MaxStepsBack /\ clock > 0
  /\ clock' = clock - 1
  /\ stepsBack' = stepsBack + 1
  /\ UNCHANGED <<orderVars, dirVars, run>>

PanelStep(a) ==
  \/ NameCandidate(a) \/ WriteCandidate(a) \/ ListCandidates(a)
  \/ PruneCandidate(a) \/ ValidateCandidate(a) \/ BackupProfiles(a)
  \/ ListPanelBackups(a) \/ PruneBackup(a)

ScriptStep(a) ==
  \/ ReadCandidate(a) \/ NameBackup(a) \/ CopyBackup(a) \/ ListBackups(a)
  \/ RotateBackup(a) \/ InstallLive(a) \/ RestartAccepted(a)
  \/ RestartRefused(a)

FilesNext ==
  (\E a \in Apply : PanelStep(a) \/ ScriptStep(a)) \/ ClockTicks \/ ClockSetBack

FilesSpec == FilesInit /\ [][FilesNext]_filesVars

------------------------------------------------------------------------------
(* Properties.                                                             *)

\* Applies stay on the program above, and files hold what some apply installed.
FilesTypeOK ==
  /\ clock \in 0 .. MaxTime /\ stepsBack \in 0 .. MaxStepsBack
  /\ seq \in 0 .. 2 * Cardinality(Apply)
  /\ \A c \in candidates : c[1] \in 0 .. MaxTime /\ c[2] \in 0 .. seq
  /\ \A b \in DOMAIN backups : backups[b] \in Apply \cup {0}
  /\ installed \in Apply \cup {0} /\ readable \in BOOLEAN /\ keep \in Keeps
  /\ alone \subseteq Apply
  /\ \A a \in Apply : run[a].at \in Places

\* Pruning costs an apply its candidate, or fails it, only when another apply
\* ran at the same time or the clock was set back.
LossNeedsOverlap ==
  \A a \in Apply : run[a].at \in Failed => a \notin alone \/ stepsBack > 0

\* The script's rotation cannot fail: once no run is between its backup and its
\* install, at most BACKUP_KEEP backups are left, whatever overlapped.
BackupsBounded ==
  (keep > 0 /\ \A a \in Apply :
                 run[a].at \in {"idle", "restarting"} \cup (Ended \ Failed)) =>
    Cardinality(DOMAIN backups) <= keep

\* A backup keeps what it holds until it is rotated away, unless two runs took
\* the same name in the same second.
BackupsKeepContent ==
  [][\A b \in DOMAIN backups \cap DOMAIN backups' :
       backups'[b] # backups[b] =>
         \E a \in Apply \ alone : run[a].bak = b]_filesVars

\* A rejected restart puts back what the install replaced, when the run was
\* alone and the clock went forward.  A backup that is not the first of its
\* second sorts before that one: when more runs take theirs in one second than
\* are kept, it may be rotated away at once.
TookIn(second) ==
  {c \in Apply : run[c].bak # <<>> /\ run[c].bak[1] = second}

SoloRejectionRestores ==
  [][\A a \in alone :
       (/\ run'[a].at \in {"restored", "unrestored"} /\ ~(run[a].at \in Ended)
        /\ stepsBack = 0
        /\ \/ run[a].bak[2] = 2
           \/ Cardinality(TookIn(run[a].bak[1])) <= keep) =>
         Is(a, "restored")' /\ installed' = run[a].from]_filesVars
==============================================================================
