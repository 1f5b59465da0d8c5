---------------------------- MODULE ProfilesMerge ----------------------------
(***************************************************************************)
(* profiles.json entry by entry: the merge that apply-profiles.sh does in  *)
(* Python and MergePanelProfiles, the merge of internal/applier that       *)
(* documents it and that the package's tests run.                          *)
(*                                                                         *)
(* A file is the sequence of its entries with their backends and carrier   *)
(* modes, None where an entry has no such field.  HostApply keeps the set  *)
(* of names and secrets only; SetMergeSound relates the two.               *)
(***************************************************************************)
EXTENDS ProxyProfiles, Ranking, Sequences, SequencesExt

CONSTANTS
  Backend, Carrier,           \* backends and carrier modes
  PanelBackend, PanelCarrier, \* TPROXY_BACKEND and TPROXY_CARRIER_MODE
  Https,                      \* the script's default carrier mode
  MaxEntries                  \* bound: entries of the first file, of a candidate

Entry ==
  [name : User \cup ForeignName, secret : Secret,
   backend : Backend \cup {None}, carrier : Carrier \cup {None}]

ASSUME MergeAssumption ==
  /\ PanelBackend \in Backend /\ {PanelCarrier, Https} \subseteq Carrier
  /\ MaxEntries \in Nat
  /\ None \notin Backend \cup Carrier /\ None \notin Seq(Entry)

VARIABLES
  profilesFile,   \* profiles.json, <<>> also when there is no file
  candidateFile   \* what the script was started with, None between two runs

mergeVars == <<profilesFile, candidateFile>>

Unrepeated(f) ==
  \A i, j \in DOMAIN f :
    i # j => f[i].name # f[j].name /\ f[i].secret # f[j].secret

\* desiredProfiles: the backend and the carrier mode are the panel's own.
PanelFiles ==
  {f \in SeqOf([name : User, secret : Secret, backend : {PanelBackend},
                carrier : {PanelCarrier}], MaxEntries) : Unrepeated(f)}

Foreign(f) == EntriesAt(f, {i \in DOMAIN f : ~IsPanel(f[i])})

------------------------------------------------------------------------------
(* MergePanelProfiles.                                                     *)

\* An error stays one.
AddProfile(pf, p) ==
  IF pf = None \/ \E i \in DOMAIN pf : pf[i].name = p.name \/ pf[i].secret = p.secret
    THEN None
    ELSE Append(pf, p)

\* Mutant: the carrier mode is not copied.
SyncsBackendOnly(p, template) ==
  [p EXCEPT !.backend = IF template.backend = None THEN @ ELSE template.backend]

SyncProfileBackend(p, template) ==
  [p EXCEPT !.backend = IF template.backend = None THEN @ ELSE template.backend,
            !.carrier = IF template.carrier = None THEN @ ELSE template.carrier]

\* The first foreign profile is the template.
MergePanelProfiles(f, c) ==
  LET foreign == FoldLeft(AddProfile, <<>>, Foreign(f))
      synced == IF foreign \in {None, <<>>} THEN c
                ELSE [i \in DOMAIN c |-> SyncProfileBackend(c[i], foreign[1])]
  IN FoldLeft(AddProfile, foreign, synced)

------------------------------------------------------------------------------
(* merge_profiles of the script.                                           *)

\* Mutant: the template is the file's first profile, whoever owns it.
SyncedToAny(f, c) ==
  IF f = <<>> THEN c
  ELSE [i \in DOMAIN c |->
          [c[i] EXCEPT
             !.backend = IF f[1].backend = None THEN @ ELSE f[1].backend,
             !.carrier = IF f[1].carrier = None THEN Https ELSE f[1].carrier]]

\* A template without a carrier mode stands for "https".
Synced(f, c) ==
  LET foreign == Foreign(f)
  IN IF foreign = <<>> THEN c
     ELSE [i \in DOMAIN c |->
             [c[i] EXCEPT
                !.backend = IF foreign[1].backend = None THEN @
                            ELSE foreign[1].backend,
                !.carrier = IF foreign[1].carrier = None THEN Https
                            ELSE foreign[1].carrier]]

PanelOnly(c) == EntriesAt(c, {i \in DOMAIN c : IsPanel(c[i])})

\* Mutant: repeated names and secrets are not noticed.
ScriptMergeUnchecked(f, c) == Foreign(f) \o Synced(f, PanelOnly(c))

\* None when a name or a secret is repeated.
ScriptMerge(f, c) ==
  LET merged == Foreign(f) \o Synced(f, PanelOnly(c))
  IN IF Unrepeated(merged) THEN merged ELSE None

MergeInit ==
  /\ profilesFile \in {f \in SeqOf(Entry, MaxEntries) : Unrepeated(f)}
  /\ candidateFile = None

TakeCandidate(c) ==
  /\ candidateFile = None
  /\ candidateFile' = c
  /\ UNCHANGED profilesFile

\* A refused merge leaves the file alone.
MergeAndInstall ==
  /\ candidateFile # None
  /\ LET merged == ScriptMerge(profilesFile, candidateFile)
     IN profilesFile' = IF merged = None THEN profilesFile ELSE merged
  /\ candidateFile' = None

MergeNext == (\E c \in PanelFiles : TakeCandidate(c)) \/ MergeAndInstall

MergeSpec == MergeInit /\ [][MergeNext]_mergeVars

------------------------------------------------------------------------------
(* Properties.                                                             *)

\* The set merge HostApply works with is what the script does to the entries:
\* the same names and secrets come out, and it refuses the same candidates.
EntrySet(f) == {[name |-> f[i].name, secret |-> f[i].secret] : i \in DOMAIN f}

SetMergeSound ==
  candidateFile # None =>
    LET merged == MergedProfiles(EntrySet(profilesFile), EntrySet(candidateFile))
        written == ScriptMerge(profilesFile, candidateFile)
    IN IF Unique(merged) THEN written # None /\ EntrySet(written) = merged
       ELSE written = None

\* ARCHITECTURE.md calls the script's merge a "mirror of MergePanelProfiles":
\* on every file the panel can meet the two give the same file, or both refuse,
\* except that where the template has no carrier mode Go keeps the configured
\* one.
MergesAgree ==
  LET foreign == Foreign(profilesFile)
  IN (candidateFile # None /\ (foreign = <<>> \/ foreign[1].carrier # None)) =>
       MergePanelProfiles(profilesFile, candidateFile) =
         ScriptMerge(profilesFile, candidateFile)

\* What an apply installs depends on the foreign profiles and its own candidate
\* only, not on the candidates installed before: a retry changes nothing, a
\* later apply corrects an earlier one, and the template is never one of the
\* panel's own old entries.
LastMergeWins ==
  [][profilesFile' # profilesFile =>
       \A c \in PanelFiles :
         ScriptMerge(profilesFile', c) = ScriptMerge(profilesFile, c)]_mergeVars
==============================================================================
