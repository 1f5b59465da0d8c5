-------------------------------- MODULE MCHost --------------------------------
(***************************************************************************)
(* The three models of an apply on the host checked in one run: the script *)
(* as a whole (HostApply), the names of its files (ApplyFiles) and the     *)
(* merge of profiles.json (ProfilesMerge).  They share no variable; a      *)
(* behaviour is one of part's, the other two stand still.                  *)
(***************************************************************************)
EXTENDS HostApply, ApplyFiles, ProfilesMerge

CONSTANTS default, s0, script_run, file_names, merge_files

VARIABLE part

MCForeign == {[name |-> default, secret |-> s0]}

HostStill ==
  live = ForeignProfile /\ loaded = live /\ secretsFile = None
    /\ mtLoaded = SecretsOf(live) /\ script = [w \in Slot |-> NoScript]
    /\ faults = 0

FilesStill ==
  clock = 0 /\ stepsBack = 0 /\ seq = 0 /\ candidates = {} /\ backups = <<>>
    /\ installed = 0 /\ readable = TRUE /\ keep \in Keeps
    /\ (\A k \in Keeps : keep <= k)
    /\ run = [a \in Apply |-> NotBegun] /\ alone = Apply

MergeStill == profilesFile = <<>> /\ candidateFile = None

MCInit ==
  \/ part = script_run /\ HostInit({}) /\ FilesStill /\ MergeStill
  \/ part = file_names /\ FilesInit /\ HostStill /\ MergeStill
  \/ part = merge_files /\ MergeInit /\ HostStill /\ FilesStill

\* Applies that are over and a clock at its bound leave nothing to do.
FilesOver ==
  /\ \A a \in Apply : run[a].at \in Ended
  /\ clock = MaxTime
  /\ UNCHANGED filesVars

MCNext ==
  \/ part = script_run /\ HostNext /\ UNCHANGED <<part, filesVars, mergeVars>>
  \/ part = file_names /\ (FilesNext \/ FilesOver)
       /\ UNCHANGED <<part, hostVars, mergeVars>>
  \/ part = merge_files /\ MergeNext /\ UNCHANGED <<part, hostVars, filesVars>>

MCSpec == MCInit /\ [][MCNext]_<<part, hostVars, filesVars, mergeVars>>

\* Runs of the script, applies and files hold what the code can give them.
TypesOK == HostTypeOK /\ FilesTypeOK
==============================================================================
