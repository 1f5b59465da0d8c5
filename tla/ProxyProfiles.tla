---------------------------- MODULE ProxyProfiles ----------------------------
(***************************************************************************)
(* What the panel's database, the host's profiles.json and the apply       *)
(* script exchange: sets of profiles.                                      *)
(*                                                                         *)
(* A profile is its name and its secret.  The name user_<telegram_id> of a *)
(* panel profile is represented by the Telegram user, a file of profiles   *)
(* by the set of them.  Backend and carrier mode are left out: no property *)
(* here is about them.                                                     *)
(***************************************************************************)
EXTENDS Naturals, FiniteSets

CONSTANTS
  User,            \* Telegram users: the names the regexp ^user_\d+$ matches
  ForeignName,     \* names of profiles the panel does not own ("default")
  Secret,          \* proxy secrets
  ForeignProfile,  \* the profiles found in the file when the panel arrives
  None             \* no value, no file, no process

Profile == [name : User \cup ForeignName, secret : Secret]
PanelProfile == [name : User, secret : Secret]

IsPanel(p) == p.name \in User

Names(ps) == {p.name : p \in ps}
SecretsOf(ps) == {p.secret : p \in ps}

\* No two profiles of a file share a name or a secret.
Unique(ps) ==
  \A p, q \in ps : p # q => p.name # q.name /\ p.secret # q.secret

\* The profiles of a file that may not exist.
Profiles(file) == IF file = None THEN {} ELSE file

\* Mutant: the candidate replaces the whole file.
DropsForeign(file, c) == c

\* Mutant: old panel profiles stay in the file.
KeepsOldPanel(file, c) == Profiles(file) \cup c

\* merge_profiles: foreign profiles of the live file, panel profiles of the
\* candidate.
MergedProfiles(file, c) == {p \in Profiles(file) : ~IsPanel(p)} \cup c

ASSUME ProfileAssumption ==
  /\ User \cap ForeignName = {}
  /\ ForeignProfile \subseteq [name : ForeignName, secret : Secret]
  /\ Unique(ForeignProfile)
  /\ \A ps \in SUBSET Profile : ps # None
  /\ \A ss \in SUBSET Secret : ss # None
  /\ None \notin Secret
==============================================================================
