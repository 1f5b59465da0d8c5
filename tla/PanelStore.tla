------------------------------ MODULE PanelStore ------------------------------
(***************************************************************************)
(* internal/store: the SQLite database of the panel.  The pool holds one   *)
(* connection, so every statement is atomic; nothing is atomic across two  *)
(* statements except DeleteUser, which runs in a transaction.              *)
(*                                                                         *)
(* A row keeps the columns that decide what the program does: who it is    *)
(* for, its status and its secret.  profile_name is NULL exactly when      *)
(* secret is, and is derived from telegram_id, so the secret stands for    *)
(* both.  Of audit_log the model keeps the user ids it refers to.          *)
(***************************************************************************)
EXTENDS ProxyProfiles

CONSTANT MaxRows  \* bound: rows ever inserted; ids are never reused

VARIABLES
  users,      \* the rows of users by id, None where there is none
  nextId,     \* AUTOINCREMENT
  autoIssue,  \* the auto_issue setting
  auditRefs,  \* the user ids audit_log refers to
  issued      \* history: every profile ever committed to users

storeVars == <<users, nextId, autoIssue, auditRefs, issued>>

RowId == 1 .. MaxRows

Status == {"pending", "active", "revoked", "denied"}

Row == [tg : User, status : Status, secret : Secret \cup {None}]

ASSUME StoreAssumption == MaxRows \in Nat \ {0} /\ None \notin Row

Exists(id) == users[id] # None

\* GetUserByTelegramID: at most one id, telegram_id is UNIQUE.
RowsOf(tg) == {id \in RowId : Exists(id) /\ users[id].tg = tg}

HasStatus(id, statuses) == Exists(id) /\ users[id].status \in statuses

\* The INSERT fails when the user has a row (UNIQUE), and, for the bound, when
\* the ids are used up.
CanCreate(tg) == RowsOf(tg) = {} /\ nextId \in RowId

CreateUser(tg) ==
  /\ users' = [users EXCEPT ![nextId] =
                 [tg |-> tg, status |-> "pending", secret |-> None]]
  /\ nextId' = nextId + 1
  /\ UNCHANGED <<autoIssue, auditRefs, issued>>

\* Only revoked clears the profile columns.
UpdateUserStatus(id, st) ==
  /\ users' = [users EXCEPT ![id].status = st,
                            ![id].secret = IF st = "revoked" THEN None ELSE @]
  /\ UNCHANGED <<nextId, autoIssue, auditRefs, issued>>

SetUserProfile(id, s) ==
  /\ users' = [users EXCEPT ![id].status = "active", ![id].secret = s]
  /\ issued' = issued \cup {[name |-> users[id].tg, secret |-> s]}
  /\ UNCHANGED <<nextId, autoIssue, auditRefs>>

ClearUserProfile(id) ==
  /\ users' = [users EXCEPT ![id].secret = None]
  /\ UNCHANGED <<nextId, autoIssue, auditRefs, issued>>

\* Mutant: the audit rows stay attached.
KeepsAuditRefs(id) ==
  /\ users' = [users EXCEPT ![id] = None]
  /\ UNCHANGED <<nextId, autoIssue, auditRefs, issued>>

\* One transaction: detach the audit rows, delete the user.
DeleteUser(id) ==
  /\ users' = [users EXCEPT ![id] = None]
  /\ auditRefs' = auditRefs \ {id}
  /\ UNCHANGED <<nextId, autoIssue, issued>>

AppendAuditLog(id) ==
  /\ auditRefs' = auditRefs \cup {id}
  /\ UNCHANGED <<users, nextId, autoIssue, issued>>

SetSetting(b) ==
  /\ autoIssue' = b
  /\ UNCHANGED <<users, nextId, auditRefs, issued>>

\* desiredProfiles: what the host should have for the rows as they are now.  It
\* is an error that stops every apply when an active row has no profile.
DesiredProfiles ==
  {[name |-> users[id].tg, secret |-> users[id].secret] :
     id \in {i \in RowId : HasStatus(i, {"active"})}}

ActiveWithoutProfile(id) == HasStatus(id, {"active"}) /\ users[id].secret = None

\* The panel opens the database of an earlier run: users in any state, one row
\* each, a profile on the active rows only and no secret twice.
StoreInit ==
  /\ users \in [RowId -> Row \cup {None}]
  /\ nextId \in 1 .. MaxRows + 1
  /\ \A id \in RowId : Exists(id) <=> id < nextId
  /\ \A id \in RowId :
       Exists(id) =>
         /\ users[id].secret = None <=> users[id].status # "active"
         /\ RowsOf(users[id].tg) = {id}
  /\ Unique(ForeignProfile \cup DesiredProfiles)
  /\ autoIssue \in BOOLEAN
  /\ auditRefs = {}
  /\ issued = DesiredProfiles

StoreTypeOK ==
  /\ users \in [RowId -> Row \cup {None}]
  /\ nextId \in 1 .. MaxRows + 1
  /\ autoIssue \in BOOLEAN
  /\ auditRefs \subseteq RowId
  /\ issued \subseteq PanelProfile
==============================================================================
