------------------------- MODULE PanelLifecycleProofs -------------------------
(***************************************************************************)
(* Theorems about a panel that serves one handler at a time (one slot):    *)
(* the host matches the database at rest, the audit log refers to users    *)
(* that exist, and ProxyPanel implements UserLifecycle.  With several      *)
(* handlers none of the three is true: see the runs wedged, stale_revoke   *)
(* and stale_delete.                                                       *)
(*                                                                         *)
(* And about two handlers that race: as long as no command fails they      *)
(* leave no row active without a profile behind.  With a third one they    *)
(* do, see the run wedged.                                                 *)
(***************************************************************************)
EXTENDS PanelLifecycle, ProxyPanelProofs

Issuable == {"pending", "revoked", "denied"}

\* apply's part of Issue and Revoke.
Applying == {"apply_list", "apply_run", "script", "health"}

\* The steps of each operation.
OnPath(h) ==
  \/ h.pc \in {"idle", "done"}
  \/ h.op \in {"approve", "request"} /\ h.pc \in {"issue_write", "audit"} \cup IssuePart
  \/ /\ h.op = "request"
     /\ h.pc \in {"create", "create_read", "auto_issue", "set_pending", "pending_read"}
  \/ /\ h.op = "revoke"
     /\ h.pc \in {"revoke_write", "revoke_read", "revoke_check", "audit"} \cup Applying
  \/ h.op = "deny" /\ h.pc \in {"deny_write", "deny_read", "audit"}
  \/ h.op = "delete" /\ h.pc \in {"delete_audit", "delete_row"}
  \/ h.op = "resend" /\ h.pc = "audit"

\* The row a handler works on, and what it knows of it.
RowIs(w, statuses) ==
  HasStatus(handler[w].id, statuses) /\ users[handler[w].id].tg = handler[w].tg

AsRead(w) == handler[w].prev \in Issuable /\ RowIs(w, {handler[w].prev})

Written(w) ==
  /\ handler[w].prev \in Issuable
  /\ RowIs(w, {"active"})
  /\ users[handler[w].id].secret # None

\* What a handler has found and done to its row when it is the only one.
Follows(w) ==
  LET h == handler[w]
  IN /\ OnPath(h)
     /\ h.pc \in Step \ {"create"} => RowIs(w, Status)
     /\ h.pc = "create" => RowsOf(h.tg) = {}
     /\ h.pc = "create_read" => RowIs(w, {"pending"})
     /\ h.pc \in {"auto_issue", "set_pending", "issue_write", "rollback_read"} =>
          AsRead(w)
     /\ h.pc = "set_pending" => h.prev # "pending"
     /\ h.pc \in IssuePart \ {"rollback_status", "rollback_read"} =>
          h.op = "revoke" \/ Written(w)
     /\ h.pc \in {"issue_read", "issue_check"} => h.secret = users[h.id].secret
     /\ h.pc = "rollback_status" =>
          h.prev \in Issuable /\ RowIs(w, {"active"}) /\ RowCleared(w)
     /\ h.pc = "revoke_write" => RowIs(w, {"active"})
     /\ (h.op = "revoke" /\ h.pc \in {"revoke_read", "revoke_check"} \cup Applying) =>
          RowIs(w, {"revoked"})
     /\ h.pc = "deny_write" => RowIs(w, {"pending"})
     /\ h.op = "delete" => h.pc = "done" \/ RowIs(w, {"revoked", "denied"})

\* Only active users have a profile.
RowsTidy ==
  \A id \in RowId : (Exists(id) /\ users[id].secret # None) => HasStatus(id, {"active"})

Orderly(w) == RowsTidy /\ AuditRefersToUsers /\ Follows(w)

\* The inductive invariant of a panel with one slot, with PanelInv.
SequentialInv(w) == Orderly(w) /\ (Free(w) \/ handler[w].alone)

\* Between a statement of Issue or Revoke and the end of its apply the host is
\* behind the database.
Behind(w) ==
  handler[w].pc \in {"issue_read", "issue_check", "revoke_read", "revoke_check"}
                      \cup Applying

InLine ==
  {p \in Profiles(live) : IsPanel(p)} = DesiredProfiles /\ loaded = live

\* As long as nothing fails no row is rolled back, and a run of the script fails
\* only after a revocation that leaves MTProxy without a secret, with the file
\* in place.
Faultless(w) ==
  /\ \A id \in RowId : ~ActiveWithoutProfile(id)
  /\ ~handler[w].cancelled /\ handler[w].pc \notin RollbackPart
  /\ ~Behind(w) => InLine
  /\ ~At(w, "rejected") /\ ~At(w, "restore")
  /\ At(w, "failed") => InLine /\ handler[w].op = "revoke"

NoFaultInv(w) == faults = 0 => Faultless(w)

------------------------------------------------------------------------------
(* The database.                                                           *)

\* A statement that writes one row touches no other; the tables stay tidy when
\* the row does.
LEMMA OneRowChanges ==
  ASSUME StoreTypeOK, RowsTidy, AuditRefersToUsers, NEW id \in RowId,
         NEW row \in Row, users' = [users EXCEPT ![id] = row],
         row.secret # None => row.status = "active",
         auditRefs' = auditRefs
  PROVE  /\ RowsTidy' /\ AuditRefersToUsers'
         /\ Exists(id)' /\ users'[id] = row
         /\ \A i \in RowId \ {id} : users'[i] = users[i]
<1> USE DEF StoreTypeOK, Exists
<1>1. users'[id] = row /\ \A i \in RowId \ {id} : users'[i] = users[i]
  OBVIOUS
<1>2. row # None
  BY StoreAssumption
<1>3. RowsTidy'
  BY <1>1, <1>2 DEF RowsTidy, HasStatus
<1>4. AuditRefersToUsers'
  BY <1>1, <1>2 DEF AuditRefersToUsers
<1>5. QED
  BY <1>1, <1>2, <1>3, <1>4

\* UPDATE users SET status.
LEMMA StatusWritten ==
  ASSUME StoreTypeOK, RowsTidy, AuditRefersToUsers, NEW id \in RowId, Exists(id),
         NEW st \in Status, UpdateUserStatus(id, st),
         st = "revoked" \/ users[id].secret = None
  PROVE  /\ RowsTidy' /\ AuditRefersToUsers'
         /\ Exists(id)' /\ users'[id].tg = users[id].tg
         /\ users'[id].status = st /\ users'[id].secret = None
         /\ \A i \in RowId \ {id} : users'[i] = users[i]
<1> DEFINE row == [users[id] EXCEPT
                     !.status = st,
                     !.secret = IF st = "revoked" THEN None ELSE users[id].secret]
<1>1. users[id] \in Row
  BY RowTypes
<1>2. /\ row \in Row /\ row.tg = users[id].tg /\ row.status = st
      /\ row.secret = None
  BY <1>1 DEF Row
<1>3. users' = [users EXCEPT ![id] = row] /\ auditRefs' = auditRefs
  BY <1>1 DEF UpdateUserStatus, Row
<1>4. QED
  BY <1>2, <1>3, OneRowChanges

\* The two statements on a user's profile.
LEMMA ProfileWritten ==
  ASSUME StoreTypeOK, RowsTidy, AuditRefersToUsers, NEW id \in RowId, Exists(id),
         NEW s \in Secret, SetUserProfile(id, s)
  PROVE  /\ RowsTidy' /\ AuditRefersToUsers'
         /\ Exists(id)' /\ users'[id].tg = users[id].tg
         /\ users'[id].status = "active" /\ users'[id].secret = s
         /\ \A i \in RowId \ {id} : users'[i] = users[i]
<1> DEFINE row == [users[id] EXCEPT !.status = "active", !.secret = s]
<1>1. users[id] \in Row
  BY RowTypes
<1>2. /\ row \in Row /\ row.tg = users[id].tg /\ row.status = "active"
      /\ row.secret = s
  BY <1>1 DEF Row, Status
<1>3. users' = [users EXCEPT ![id] = row] /\ auditRefs' = auditRefs
  BY <1>1 DEF SetUserProfile, Row
<1>4. QED
  BY <1>2, <1>3, OneRowChanges

LEMMA ProfileCleared ==
  ASSUME StoreTypeOK, RowsTidy, AuditRefersToUsers, NEW id \in RowId, Exists(id),
         ClearUserProfile(id)
  PROVE  /\ RowsTidy' /\ AuditRefersToUsers'
         /\ Exists(id)' /\ users'[id].tg = users[id].tg
         /\ users'[id].status = users[id].status /\ users'[id].secret = None
         /\ \A i \in RowId \ {id} : users'[i] = users[i]
<1> DEFINE row == [users[id] EXCEPT !.secret = None]
<1>1. users[id] \in Row
  BY RowTypes
<1>2. /\ row \in Row /\ row.tg = users[id].tg /\ row.status = users[id].status
      /\ row.secret = None
  BY <1>1 DEF Row
<1>3. users' = [users EXCEPT ![id] = row] /\ auditRefs' = auditRefs
  BY <1>1 DEF ClearUserProfile, Row
<1>4. QED
  BY <1>2, <1>3, OneRowChanges

\* INSERT of a user without a row.
LEMMA RowInserted ==
  ASSUME StoreTypeOK, RowsTidy, AuditRefersToUsers, NEW tg \in User,
         NEW id \in RowId, id = nextId, CreateUser(tg)
  PROVE  /\ RowsTidy' /\ AuditRefersToUsers'
         /\ Exists(id)'
         /\ users'[id] = [tg |-> tg, status |-> "pending", secret |-> None]
         /\ \A i \in RowId \ {id} : users'[i] = users[i]
<1> DEFINE row == [tg |-> tg, status |-> "pending", secret |-> None]
<1>1. row \in Row /\ row.secret = None
  BY DEF Row, Status
<1>2. users' = [users EXCEPT ![id] = row] /\ auditRefs' = auditRefs
  BY DEF CreateUser
<1>3. QED
  BY <1>1, <1>2, OneRowChanges

\* The DELETE, and its audit rows in the same transaction.
LEMMA RowDeleted ==
  ASSUME StoreTypeOK, RowsTidy, AuditRefersToUsers, NEW id \in RowId, DeleteUser(id)
  PROVE  /\ RowsTidy' /\ AuditRefersToUsers'
         /\ ~Exists(id)' /\ \A i \in RowId \ {id} : users'[i] = users[i]
<1> USE DEF StoreTypeOK, Exists
<1>1. users'[id] = None /\ \A i \in RowId \ {id} : users'[i] = users[i]
  BY DEF DeleteUser
<1>2. auditRefs' = auditRefs \ {id} /\ auditRefs' \subseteq RowId
  BY DEF DeleteUser
<1>3. QED
  BY <1>1, <1>2 DEF RowsTidy, HasStatus, AuditRefersToUsers

------------------------------------------------------------------------------
(* The only handler.                                                       *)

\* An error moves a handler to where it gives up what it has not done: only the
\* row that Issue wrote is still to be put back.
LEMMA ErrorFollows ==
  ASSUME HandlerInv, NEW w \in Slot, Follows(w), handler[w].pc \in Step,
         OnError(w) \/ (ApplyFails(w) /\ handler[w].pc \in ApplyPart),
         users' = users
  PROVE  Follows(w)'
<1> DEFINE h == handler[w]
           Same == /\ handler'[w].op = h.op /\ handler'[w].id = h.id
                   /\ handler'[w].tg = h.tg /\ handler'[w].prev = h.prev
                   /\ handler'[w].secret = h.secret
<1>0. h \in Handler /\ handler \in [Slot -> Handler]
  BY DEF HandlerInv, HandlerTypeOK
<1>1. ASSUME NEW pc, Proceed(w, pc) PROVE handler'[w].pc = pc /\ Same
  BY <1>0, <1>1 DEF Proceed, Handler
<1>2. ASSUME NEW r, Done(w, r) PROVE handler'[w].pc = "done" /\ Same
  BY <1>0, <1>2 DEF Done, Handler
<1>3. ASSUME NEW r, Audit(w, r) PROVE handler'[w].pc = "audit" /\ Same
  BY <1>0, <1>3 DEF Audit, Handler
<1>4. CASE h.pc \in ApplyPart /\ ApplyFails(w)
  <2>1. CASE h.op = "revoke"
    <3>1. handler'[w].pc = "audit" /\ Same
      BY <1>3, <1>4, <2>1 DEF ApplyFails
    <3>2. RowIs(w, Status)
      BY <1>4 DEF Follows, ApplyPart, Step
    <3>3. QED
      BY <2>1, <3>1, <3>2 DEF Follows, OnPath, RowIs, HasStatus, Exists, IssuePart,
         Applying
  <2>2. CASE h.op # "revoke"
    <3>1. handler'[w].pc = "rollback_clear" /\ Same
      BY <1>1, <1>4, <2>2 DEF ApplyFails
    <3>2. RowIs(w, Status) /\ Written(w) /\ h.op \in {"approve", "request"}
      BY <1>4, <2>2 DEF Follows, OnPath, ApplyPart, Step, IssuePart, Applying
    <3>3. QED
      BY <3>1, <3>2 DEF Follows, OnPath, RowIs, Written, HasStatus, Exists,
         IssuePart, Applying
  <2>3. QED
    BY <2>1, <2>2
<1>5. CASE h.pc \in RollbackPart \cup {"delete_audit"}
  <2>1. /\ Same
        /\ \/ handler'[w].pc = "audit" /\ h.pc \in RollbackPart
           \/ handler'[w].pc = "delete_row" /\ h.pc = "delete_audit"
    BY <1>1, <1>3, <1>5 DEF OnError, ApplyFails, ApplyPart, RollbackPart,
       PendingPart, AuditPart
  <2>2. RowIs(w, Status)
    BY <1>5 DEF Follows, RollbackPart, Step
  <2>3. QED
    BY <2>1, <2>2 DEF Follows, OnPath, RowIs, HasStatus, Exists, RollbackPart,
       IssuePart, Applying
<1>6. CASE ~(h.pc \in ApplyPart /\ ApplyFails(w)) /\ h.pc \notin RollbackPart \cup {"delete_audit"}
  <2>1. handler'[w].pc = "done" /\ Same
    BY <1>1, <1>2, <1>6 DEF OnError, AuditPart
  <2>2. QED
    BY <2>1 DEF Follows, OnPath, Step, IssuePart, Applying
<1>7. QED
  BY <1>4, <1>5, <1>6

\* Each statement of the service finds the row as the one before left it.
LEMMA ServiceFollows ==
  ASSUME PanelInv1, NEW w \in Slot, Orderly(w), ServiceStep(w)
  PROVE  Orderly(w)'
<1> USE DEF PanelInv1, Orderly
<1> DEFINE h == handler[w]
           Same == /\ handler'[w].op = h.op /\ handler'[w].id = h.id
                   /\ handler'[w].tg = h.tg
           Kept == Same /\ handler'[w].prev = h.prev /\ handler'[w].secret = h.secret
<1>0. h \in Handler /\ handler \in [Slot -> Handler]
  BY DEF HandlerInv, HandlerTypeOK
<1>1. PICK id \in RowId : id = h.id
  BY HandlerFields
<1>2. ASSUME NEW pc, Proceed(w, pc) PROVE handler'[w].pc = pc /\ Kept
  BY <1>0, <1>2 DEF Proceed, Handler
<1>3. ASSUME NEW r, Done(w, r) PROVE handler'[w].pc = "done"
  BY <1>0, <1>3 DEF Done, Handler
<1>4. ASSUME NEW r, Audit(w, r) PROVE handler'[w].pc = "audit" /\ Kept
  BY <1>0, <1>4 DEF Audit, Handler
<1>5. ASSUME Unchanged
      PROVE  users' = users /\ RowsTidy' /\ AuditRefersToUsers'
  BY <1>5 DEF Unchanged, storeVars, RowsTidy, AuditRefersToUsers, HasStatus, Exists
<1>6. ASSUME StepRefused(w), h.pc \in Step PROVE Orderly(w)'
  BY <1>5, <1>6, ErrorFollows DEF StepRefused
<1>7. ASSUME handler'[w].pc = "done" PROVE Follows(w)'
  BY <1>7 DEF Follows, OnPath, Step, IssuePart, Applying
<1> USE DEF OnPath, RowIs, HasStatus, Exists, Step, IssuePart, Applying
<1>8. CASE AutoIssueStep(w) \/ PendingRead(w) \/ IssueRead(w)
  <2>1. h.pc \in {"auto_issue", "pending_read", "issue_read"}
    BY <1>8 DEF AutoIssueStep, PendingRead, IssueRead, Serving
  <2>2. CASE StepRefused(w)
    BY <1>6, <2>1, <2>2
  <2>3. CASE ~StepRefused(w)
    <3>1. \/ handler'[w].pc = "done"
          \/ Kept /\ h.pc = "auto_issue" /\ handler'[w].pc = "issue_write"
          \/ /\ Kept /\ h.pc = "auto_issue" /\ handler'[w].pc = "set_pending"
             /\ h.prev # "pending"
          \/ Kept /\ h.pc = "issue_read" /\ handler'[w].pc = "issue_check"
      BY <1>2, <1>3, <1>8, <2>3 DEF AutoIssueStep, PendingRead, IssueRead, Serving
    <3>2. Unchanged
      BY <1>8, <2>3 DEF AutoIssueStep, PendingRead, IssueRead
    <3>3. Follows(w)'
      BY <1>5, <1>7, <3>1, <3>2 DEF Follows, AsRead, Written
    <3>4. QED
      BY <1>5, <3>2, <3>3
  <2>4. QED
    BY <2>2, <2>3
<1>9. CASE RollbackRead(w) \/ RevokeRead(w) \/ RevokeCheck(w) \/ DenyRead(w)
  <2>1. h.pc \in {"rollback_read", "revoke_read", "revoke_check", "deny_read"}
    BY <1>9 DEF RollbackRead, RevokeRead, RevokeCheck, DenyRead, Serving
  <2>2. CASE StepRefused(w)
    BY <1>6, <2>1, <2>2
  <2>3. CASE ~StepRefused(w)
    <3>1. /\ Kept
          /\ \/ h.pc \in {"rollback_read", "deny_read"} /\ handler'[w].pc = "audit"
             \/ h.pc = "revoke_read" /\ handler'[w].pc = "revoke_check"
             \/ h.pc = "revoke_check" /\ handler'[w].pc = "apply_list"
      BY <1>2, <1>4, <1>9, <2>3
         DEF RollbackRead, RevokeRead, RevokeCheck, DenyRead, Serving
    <3>2. Unchanged
      BY <1>9, <2>3 DEF RollbackRead, RevokeRead, RevokeCheck, DenyRead
    <3>3. Follows(w)'
      BY <1>5, <3>1, <3>2 DEF Follows
    <3>4. QED
      BY <1>5, <3>2, <3>3
  <2>4. QED
    BY <2>2, <2>3
<1>10. CASE CreateStep(w)
  <2>1. h.pc = "create"
    BY <1>10 DEF CreateStep, Serving
  <2>2. CASE StepRefused(w)
    BY <1>6, <2>1, <2>2
  <2>3. CASE ~StepRefused(w)
    <3>1. /\ CanCreate(h.tg) /\ CreateUser(h.tg)
          /\ handler' = [handler EXCEPT ![w].pc = "create_read", ![w].id = nextId]
      BY <1>10, <2>3 DEF CreateStep
    <3>2. PICK new \in RowId : new = nextId
      BY <3>1 DEF CanCreate
    <3>3. /\ handler'[w].pc = "create_read" /\ handler'[w].id = new
          /\ handler'[w].tg = h.tg /\ handler'[w].op = h.op
      BY <1>0, <3>1, <3>2 DEF Handler
    <3>4. PICK tg \in User : tg = h.tg
      BY <2>1, HandlerFields
    <3>5. /\ RowsTidy' /\ AuditRefersToUsers' /\ Exists(new)'
          /\ users'[new] = [tg |-> tg, status |-> "pending", secret |-> None]
      BY <3>1, <3>2, <3>4, RowInserted
    <3>6. Follows(w)'
      BY <2>1, <3>3, <3>4, <3>5 DEF Follows, Status
    <3>7. QED
      BY <3>5, <3>6
  <2>4. QED
    BY <2>2, <2>3
<1>11. CASE CreateRead(w)
  <2>1. h.pc = "create_read"
    BY <1>11 DEF CreateRead, Serving
  <2>2. CASE StepRefused(w)
    BY <1>6, <2>1, <2>2
  <2>3. CASE ~StepRefused(w)
    <3>1. /\ handler'[w].pc = "auto_issue" /\ Same
          /\ handler'[w].prev = users[id].status
          /\ Unchanged
      BY <1>0, <1>1, <1>11, <2>3 DEF CreateRead, Handler
    <3>2. Follows(w)'
      BY <1>1, <1>5, <2>1, <3>1 DEF Follows, AsRead, Issuable
    <3>3. QED
      BY <1>5, <3>1, <3>2
  <2>4. QED
    BY <2>2, <2>3
<1>12. CASE SetPendingStep(w) \/ RevokeWrite(w) \/ DenyWrite(w)
  <2>1. h.pc \in {"set_pending", "revoke_write", "deny_write"}
    BY <1>12 DEF SetPendingStep, RevokeWrite, DenyWrite, Serving
  <2>2. CASE StepRefused(w)
    BY <1>6, <2>1, <2>2
  <2>3. CASE ~StepRefused(w)
    <3> DEFINE st == CASE h.pc = "set_pending" -> "pending"
                       [] h.pc = "revoke_write" -> "revoked"
                       [] OTHER -> "denied"
               to == CASE h.pc = "set_pending" -> "pending_read"
                       [] h.pc = "revoke_write" -> "revoke_read"
                       [] OTHER -> "deny_read"
    <3>1. /\ UpdateUserStatus(id, st) /\ Proceed(w, to) /\ Exists(id)
      BY <1>1, <1>12, <2>3 DEF SetPendingStep, RevokeWrite, DenyWrite, Serving
    <3>2. st = "revoked" \/ users[id].secret = None
      BY <1>1, <2>1 DEF Follows, AsRead, Issuable, RowsTidy
    <3>3. /\ RowsTidy' /\ AuditRefersToUsers'
          /\ Exists(id)' /\ users'[id].tg = users[id].tg /\ users'[id].status = st
      <4> PICK s \in Status : s = st
        BY DEF Status
      <4>1. UpdateUserStatus(id, s)
        BY <3>1
      <4>2. s = "revoked" \/ users[id].secret = None
        BY <3>2
      <4>3. QED
        BY <3>1, <4>1, <4>2, StatusWritten
    <3>4. handler'[w].pc = to /\ Kept
      BY <1>2, <3>1
    <3>5. Follows(w)'
      BY <1>1, <2>1, <3>3, <3>4 DEF Follows, Status
    <3>6. QED
      BY <3>3, <3>5
  <2>4. QED
    BY <2>2, <2>3
<1>13. CASE IssueWrite(w)
  <2>1. h.pc = "issue_write"
    BY <1>13 DEF IssueWrite, Serving
  <2>2. CASE StepRefused(w)
    BY <1>6, <2>1, <2>2
  <2>3. CASE ~StepRefused(w)
    <3>1. PICK s \in FreshSecret :
            /\ SetUserProfile(id, s)
            /\ handler' = [handler EXCEPT ![w].pc = "issue_read", ![w].secret = s]
      BY <1>1, <1>13, <2>3 DEF IssueWrite
    <3>2. Exists(id) /\ s \in Secret /\ s # None
      BY <1>1, <1>13, <2>3, ProfileAssumption DEF IssueWrite, FreshSecret
    <3>3. /\ RowsTidy' /\ AuditRefersToUsers'
          /\ Exists(id)' /\ users'[id].tg = users[id].tg
          /\ users'[id].status = "active" /\ users'[id].secret = s
      BY <3>1, <3>2, ProfileWritten
    <3>4. /\ handler'[w].pc = "issue_read" /\ Same
          /\ handler'[w].prev = h.prev /\ handler'[w].secret = s
      BY <1>0, <3>1 DEF Handler
    <3>5. Follows(w)'
      BY <1>1, <2>1, <3>2, <3>3, <3>4 DEF Follows, AsRead, Written, Status
    <3>6. QED
      BY <3>3, <3>5
  <2>4. QED
    BY <2>2, <2>3
<1>14. CASE IssueCheck(w)
  <2>1. h.pc = "issue_check"
    BY <1>14 DEF IssueCheck, Serving
  <2>2. CASE StepRefused(w)
    BY <1>6, <2>1, <2>2
  <2>3. CASE ~StepRefused(w)
    <3>1. /\ handler'[w].pc = "apply_list" /\ Same /\ handler'[w].prev = h.prev
          /\ Unchanged
      BY <1>0, <1>14, <2>3 DEF IssueCheck, Handler
    <3>2. Follows(w)'
      BY <1>5, <2>1, <3>1 DEF Follows, Written
    <3>3. QED
      BY <1>5, <3>1, <3>2
  <2>4. QED
    BY <2>2, <2>3
<1>15. CASE RollbackClear(w)
  <2>1. h.pc = "rollback_clear"
    BY <1>15 DEF RollbackClear, Serving
  <2>2. CASE StepRefused(w)
    BY <1>6, <2>1, <2>2
  <2>3. CASE ~StepRefused(w)
    <3>1. Exists(id) /\ ClearUserProfile(id) /\ Proceed(w, "rollback_status")
      BY <1>1, <1>15, <2>3 DEF RollbackClear
    <3>2. /\ RowsTidy' /\ AuditRefersToUsers'
          /\ Exists(id)' /\ users'[id].tg = users[id].tg
          /\ users'[id].status = users[id].status /\ users'[id].secret = None
      BY <3>1, ProfileCleared
    <3>3. handler'[w].pc = "rollback_status" /\ Kept
      BY <1>2, <3>1
    <3>4. Follows(w)'
      BY <1>1, <2>1, <3>2, <3>3 DEF Follows, Written, RowCleared
    <3>5. QED
      BY <3>2, <3>4
  <2>4. QED
    BY <2>2, <2>3
<1>16. CASE RollbackStatus(w)
  <2>1. h.pc = "rollback_status"
    BY <1>16 DEF RollbackStatus, Serving
  <2>2. CASE StepRefused(w)
    BY <1>6, <2>1, <2>2
  <2>3. CASE ~StepRefused(w)
    <3>1. PICK st \in Status : st = h.prev
      BY HandlerFields
    <3>2. Exists(id) /\ UpdateUserStatus(id, st) /\ Proceed(w, "rollback_read")
      BY <1>1, <1>16, <2>3, <3>1 DEF RollbackStatus
    <3>3. users[id].secret = None /\ st \in Issuable /\ users[id].tg = h.tg
      BY <1>1, <2>1, <3>1 DEF Follows, RowCleared
    <3>4. /\ RowsTidy' /\ AuditRefersToUsers'
          /\ Exists(id)' /\ users'[id].tg = users[id].tg /\ users'[id].status = st
      BY <3>2, <3>3, StatusWritten
    <3>5. handler'[w].pc = "rollback_read" /\ Kept
      BY <1>2, <3>2
    <3>6. Follows(w)'
      BY <1>1, <2>1, <3>1, <3>3, <3>4, <3>5 DEF Follows, AsRead, Status
    <3>7. QED
      BY <3>4, <3>6
  <2>4. QED
    BY <2>2, <2>3
<1>17. CASE DeleteAudit(w) \/ AuditStep(w)
  <2>1. /\ h.pc \in {"delete_audit", "audit"} /\ AppendAuditLog(id)
        /\ handler'[w].pc = (IF h.pc = "audit" THEN "done" ELSE "delete_row") /\ Kept
    BY <1>1, <1>2, <1>17 DEF DeleteAudit, AuditStep, Serving
  <2>2. users' = users /\ auditRefs' = auditRefs \cup {id} /\ Exists(id)
    BY <1>1, <2>1 DEF AppendAuditLog, Follows
  <2>3. RowsTidy' /\ AuditRefersToUsers'
    BY <2>2 DEF RowsTidy, AuditRefersToUsers
  <2>4. Follows(w)'
    BY <1>7, <2>1, <2>2 DEF Follows
  <2>5. QED
    BY <2>3, <2>4
<1>18. CASE DeleteRow(w)
  <2>1. h.pc = "delete_row"
    BY <1>18 DEF DeleteRow, Serving
  <2>2. CASE StepRefused(w)
    BY <1>6, <2>1, <2>2
  <2>3. CASE ~StepRefused(w)
    <3>1. DeleteUser(id) /\ Done(w, "ok")
      BY <1>1, <1>18, <2>3 DEF DeleteRow
    <3>2. RowsTidy' /\ AuditRefersToUsers'
      BY <3>1, RowDeleted
    <3>3. QED
      BY <1>3, <1>7, <3>1, <3>2
  <2>4. QED
    BY <2>2, <2>3
<1>19. QED
  BY <1>8, <1>9, <1>10, <1>11, <1>12, <1>13, <1>14, <1>15, <1>16, <1>17, <1>18
     DEF ServiceStep

\* apply's own steps change no row.
LEMMA ApplyFollows ==
  ASSUME PanelInv1, NEW w \in Slot, Orderly(w), ApplyStep(w)
  PROVE  Orderly(w)'
<1> USE DEF PanelInv1, Orderly
<1> DEFINE h == handler[w]
           Kept == /\ handler'[w].op = h.op /\ handler'[w].id = h.id
                   /\ handler'[w].tg = h.tg /\ handler'[w].prev = h.prev
<1>0. h \in Handler /\ handler \in [Slot -> Handler]
  BY DEF HandlerInv, HandlerTypeOK
<1>1. UNCHANGED storeVars
  BY DEF ApplyStep, ApplyList, ApplyRun, ScriptReturns, Healthy, Unhealthy,
         StepRefused, Unchanged
<1>2. users' = users /\ RowsTidy' /\ AuditRefersToUsers'
  BY <1>1 DEF storeVars, RowsTidy, AuditRefersToUsers, HasStatus, Exists
<1>3. CASE OnError(w) \/ (ApplyFails(w) /\ h.pc \in ApplyPart)
  <2>1. h.pc \in Step
    BY DEF ApplyStep, ApplyList, ApplyRun, ScriptReturns, Healthy, Unhealthy,
           Serving, Step
  <2>2. QED
    BY <1>2, <1>3, <2>1, ErrorFollows
<1>4. CASE ~(OnError(w) \/ (ApplyFails(w) /\ h.pc \in ApplyPart))
  <2>1. \/ h.pc = "apply_list" /\ handler'[w].pc = "apply_run" /\ Kept
        \/ h.pc = "apply_run" /\ handler'[w].pc = "script" /\ Kept
        \/ h.pc = "script" /\ handler'[w].pc = "health" /\ Kept
        \/ h.pc = "health" /\ handler'[w].pc = "audit" /\ Kept
    <3>1. CASE ApplyList(w) \/ ApplyRun(w)
      BY <1>0, <1>4, <3>1 DEF ApplyList, ApplyRun, StepRefused, Serving, Handler
    <3>2. CASE ScriptReturns(w) \/ Healthy(w) \/ Unhealthy(w)
      BY <1>0, <1>4, <3>2 DEF ScriptReturns, Healthy, Unhealthy, Proceed, Audit,
         Serving, Handler, ApplyPart
    <3>3. QED
      BY <3>1, <3>2 DEF ApplyStep
  <2>2. Follows(w)'
    BY <1>2, <2>1 DEF Follows, Written, OnPath, RowIs, HasStatus, Exists, Step,
       IssuePart, Applying
  <2>3. QED
    BY <1>2, <2>2
<1>5. QED
  BY <1>3, <1>4

\* A handler starts from what it read.
LEMMA StartsFollow ==
  ASSUME PanelInv1, NEW w \in Slot, Orderly(w), HandlerStarts(w)
  PROVE  /\ Orderly(w)'
         /\ handler'[w].alone = \A u \in Slot \ {w} : Free(u)
<1> USE DEF PanelInv1, Orderly
<1> DEFINE Goal == Orderly(w)' /\ handler'[w].alone = \A u \in Slot \ {w} : Free(u)
<1>1. ASSUME NEW f \in Handler, Begin(w, f)
      PROVE  /\ handler'[w].pc = f.pc /\ handler'[w].op = f.op
             /\ handler'[w].id = f.id /\ handler'[w].tg = f.tg
             /\ handler'[w].prev = f.prev
             /\ handler'[w].alone = \A u \in Slot \ {w} : Free(u)
             /\ users' = users /\ RowsTidy' /\ AuditRefersToUsers'
  <2>1. handler'[w] = [f EXCEPT !.alone = \A u \in Slot \ {w} : Free(u)]
    BY <1>1 DEF Begin
  <2>2. /\ handler'[w].pc = f.pc /\ handler'[w].op = f.op
        /\ handler'[w].id = f.id /\ handler'[w].tg = f.tg
        /\ handler'[w].prev = f.prev
        /\ handler'[w].alone = \A u \in Slot \ {w} : Free(u)
    BY <2>1 DEF Handler
  <2>3. UNCHANGED storeVars
    BY <1>1 DEF Begin
  <2>4. users' = users /\ RowsTidy' /\ AuditRefersToUsers'
    BY <2>3 DEF storeVars, RowsTidy, AuditRefersToUsers, HasStatus, Exists
  <2>5. QED
    BY <2>2, <2>4
<1>2. ASSUME NEW id \in RowId, Exists(id), NEW op \in Op, NEW pc \in Step,
             BeginAtRow(w, op, id, pc),
             \/ pc = "issue_write" /\ op = "approve" /\ HasStatus(id, Issuable)
             \/ pc = "revoke_write" /\ op = "revoke" /\ HasStatus(id, {"active"})
             \/ pc = "deny_write" /\ op = "deny" /\ HasStatus(id, {"pending"})
             \/ /\ pc = "delete_audit" /\ op = "delete"
                /\ HasStatus(id, {"revoked", "denied"})
             \/ pc = "audit" /\ op = "resend"
             \/ pc = "auto_issue" /\ op = "request" /\ HasStatus(id, {"revoked", "denied"})
      PROVE  Goal
  <2> DEFINE f == [Idle EXCEPT !.pc = pc, !.op = op, !.id = id,
                               !.tg = users[id].tg, !.prev = users[id].status]
  <2>1. users[id].tg \in User /\ users[id].status \in Status
    BY <1>2, RowTypes
  <2>2. f \in Handler
    BY <2>1, IdleTypes DEF Handler
  <2>3. /\ f.pc = pc /\ f.op = op /\ f.id = id /\ f.tg = users[id].tg
        /\ f.prev = users[id].status
    BY DEF Idle
  <2>4. Begin(w, f)
    BY <1>2 DEF BeginAtRow
  <2>5. /\ handler'[w].pc = pc /\ handler'[w].op = op
        /\ handler'[w].id = id /\ handler'[w].tg = users[id].tg
        /\ handler'[w].prev = users[id].status
        /\ handler'[w].alone = \A u \in Slot \ {w} : Free(u)
        /\ users' = users /\ RowsTidy' /\ AuditRefersToUsers'
    BY <1>1, <2>2, <2>3, <2>4
  <2>6. Follows(w)'
    BY <1>2, <2>1, <2>5 DEF Follows, OnPath, RowIs, AsRead, Issuable, HasStatus,
       Exists, Step, IssuePart, Applying
  <2>7. QED
    BY <2>5, <2>6
<1>3. ASSUME NEW tg \in User, RequestNew(w, tg) PROVE Goal
  <2> DEFINE f == [Idle EXCEPT !.pc = "create", !.op = "request", !.tg = tg]
  <2>1. f \in Handler
    BY IdleTypes DEF Handler, Step, Op
  <2>2. f.pc = "create" /\ f.op = "request" /\ f.tg = tg
    BY DEF Idle
  <2>3. Begin(w, f) /\ RowsOf(tg) = {}
    BY <1>3 DEF RequestNew
  <2>4. /\ handler'[w].pc = "create" /\ handler'[w].op = "request"
        /\ handler'[w].tg = tg
        /\ handler'[w].alone = \A u \in Slot \ {w} : Free(u)
        /\ users' = users /\ RowsTidy' /\ AuditRefersToUsers'
    BY <1>1, <2>1, <2>2, <2>3
  <2>5. Follows(w)'
    BY <2>3, <2>4 DEF Follows, OnPath, RowsOf, Exists, IssuePart, Applying
  <2>6. QED
    BY <2>4, <2>5
<1>4. ASSUME NEW id \in RowId,
             \/ Approve(w, id) \/ Revoke(w, id) \/ Deny(w, id) \/ Delete(w, id)
             \/ Resend(w, id) \/ RequestAgain(w, id)
      PROVE  Goal
  BY <1>2, <1>4 DEF Approve, Revoke, Deny, Delete, Resend, RequestAgain, HasStatus,
     Op, Step, Issuable
<1>5. QED
  BY <1>3, <1>4 DEF HandlerStarts

\* Every step of a panel with one slot keeps rows and handler in order.
LEMMA NextStaysOrderly ==
  ASSUME PanelInv1, NEW w, Slot = {w}, SequentialInv(w), [Next]_vars
  PROVE  SequentialInv(w)'
<1> USE DEF PanelInv1, SequentialInv
<1> w \in Slot
  OBVIOUS
<1>0. handler[w] \in Handler /\ handler \in [Slot -> Handler] /\ Orderly(w)
  BY DEF HandlerInv, HandlerTypeOK
<1>1. ASSUME users' = users, auditRefs' = auditRefs
      PROVE  RowsTidy' /\ AuditRefersToUsers'
  BY <1>0, <1>1 DEF Orderly, RowsTidy, AuditRefersToUsers, HasStatus, Exists
<1>2. ASSUME users' = users, auditRefs' = auditRefs, handler' = handler
      PROVE  SequentialInv(w)'
  <2>1. Follows(w)'
    BY <1>0, <1>2 DEF Orderly, Follows, OnPath, RowIs, AsRead, Written, RowCleared,
       RowsOf, HasStatus, Exists
  <2>2. QED
    BY <1>1, <1>2, <2>1 DEF Orderly, Free
<1>4. CASE HandlerStarts(w)
  BY <1>0, <1>4, StartsFollow
<1>5. CASE ServiceStep(w) \/ ApplyStep(w)
  <2>1. handler'[w].alone = handler[w].alone /\ handler[w].pc \in Step
    BY <1>5, ProgressMovesOne
  <2>2. QED
    BY <1>0, <1>5, <2>1, ServiceFollows, ApplyFollows DEF Free, Step
<1>6. CASE CancelledStep(w) \/ StepFails(w)
  <2>1. handler'[w].alone = handler[w].alone /\ handler[w].pc \in Step
    BY <1>6, ProgressMovesOne
  <2>2. users' = users /\ auditRefs' = auditRefs /\ OnError(w)
    BY <1>6 DEF CancelledStep, StepFails, Unchanged, storeVars
  <2>3. Follows(w)'
    BY <1>0, <2>1, <2>2, ErrorFollows DEF Orderly
  <2>4. QED
    BY <1>1, <2>1, <2>2, <2>3 DEF Orderly, Free, Step
<1>7. CASE Cancel(w)
  <2>1. handler'[w].alone = handler[w].alone /\ handler[w].pc \in Step
    BY <1>7, ProgressMovesOne
  <2>2. /\ users' = users /\ auditRefs' = auditRefs
        /\ handler'[w].pc = handler[w].pc /\ handler'[w].op = handler[w].op
        /\ handler'[w].id = handler[w].id /\ handler'[w].tg = handler[w].tg
        /\ handler'[w].prev = handler[w].prev
        /\ handler'[w].secret = handler[w].secret
    BY <1>0, <1>7 DEF Cancel, storeVars, Handler
  <2>3. Follows(w)'
    BY <1>0, <2>2 DEF Orderly, Follows, OnPath, RowIs, AsRead, Written, RowCleared,
       RowsOf, HasStatus, Exists
  <2>4. QED
    BY <1>1, <2>1, <2>2, <2>3 DEF Orderly, Free, Step
<1>8. CASE Crash \/ Reply(w)
  <2>1. users' = users /\ auditRefs' = auditRefs /\ handler'[w] = Idle
    BY <1>0, <1>8 DEF Crash, Reply, Unchanged, storeVars
  <2>2. Follows(w)' /\ Free(w)'
    BY <2>1 DEF Free, Idle, Follows, OnPath, Step, IssuePart, Applying
  <2>3. QED
    BY <1>1, <2>1, <2>2 DEF Orderly
<1>9. CASE \/ ScriptRuns(w) \/ ScriptBreaks(w) \/ HostRecovers
           \/ (\E b \in BOOLEAN : SetAutoIssue(b)) \/ UNCHANGED vars
  <2>1. users' = users /\ auditRefs' = auditRefs /\ handler' = handler
    BY <1>9 DEF ScriptRuns, ScriptBreaks, HostRecovers, SetAutoIssue, SetSetting, vars,
                storeVars
  <2>2. QED
    BY <1>2, <2>1
<1>10. QED
  BY <1>4, <1>5, <1>6, <1>7, <1>8, <1>9 DEF Next, HandlerProgress

\* The rows as the panel finds them, and no handler yet.
LEMMA BeginsOrderly ==
  ASSUME NEW w, Slot = {w}, Init
  PROVE  SequentialInv(w)
<1>1. StoreInit /\ handler[w] = Idle
  BY DEF Init
<1>2. RowsTidy /\ AuditRefersToUsers
  BY <1>1 DEF StoreInit, RowsTidy, AuditRefersToUsers, HasStatus
<1>3. Follows(w) /\ Free(w)
  BY <1>1 DEF Free, Idle, Follows, OnPath, Step, IssuePart, Applying
<1>4. QED
  BY <1>2, <1>3 DEF SequentialInv, Orderly

\* With one slot every operation finds its row where it left it.
THEOREM SequentialInvariant ==
  ASSUME NEW w, Slot = {w}
  PROVE  Spec => []SequentialInv(w)
<1>1. Init => SequentialInv(w)
  BY BeginsOrderly
<1>2. PanelInv /\ SequentialInv(w) /\ [Next]_vars => SequentialInv(w)'
  BY NextStaysOrderly DEF PanelInv, PanelInv1, TypeOK
<1>3. QED
  BY <1>1, <1>2, PanelInvariant, PTL DEF Spec

\* Handlers that never overlap leave no audit row that refers to a user who was
\* deleted (store.DeleteUser), wherever a handler breaks off.
THEOREM SequentialAuditRefs ==
  ASSUME NEW w, Slot = {w}
  PROVE  Spec => []AuditRefersToUsers
<1>1. SequentialInv(w) => AuditRefersToUsers
  BY DEF SequentialInv, Orderly
<1>2. QED
  BY <1>1, SequentialInvariant, PTL

------------------------------------------------------------------------------
(* As long as nothing fails.                                               *)

\* A row that is not active and does not become so is nobody's profile.
LEMMA InactiveRow ==
  ASSUME NEW id \in RowId, \A i \in RowId \ {id} : users'[i] = users[i],
         ~HasStatus(id, {"active"}), ~HasStatus(id, {"active"})'
  PROVE  /\ DesiredProfiles' = DesiredProfiles
         /\ (\A i \in RowId : ~ActiveWithoutProfile(i)) =>
              \A i \in RowId : ~ActiveWithoutProfile(i)'
<1>1. \A i \in RowId : /\ HasStatus(i, {"active"})' <=> HasStatus(i, {"active"})
                       /\ HasStatus(i, {"active"}) => users'[i] = users[i]
  BY DEF HasStatus, Exists
<1>2. QED
  BY <1>1 DEF DesiredProfiles, ActiveWithoutProfile

\* The list that apply makes of the rows fits the foreign profiles.
LEMMA DesiredFits ==
  ASSUME StoreTypeOK, RowsApart, \A id \in RowId : ~ActiveWithoutProfile(id)
  PROVE  /\ DesiredProfiles \subseteq PanelProfile
         /\ Unique(ForeignProfile \cup DesiredProfiles)
<1> DEFINE P(id) == [name |-> users[id].tg, secret |-> users[id].secret]
<1>1. ASSUME NEW id \in RowId, HasStatus(id, {"active"})
      PROVE  /\ Exists(id) /\ users[id].tg \in User
             /\ users[id].secret \in Secret
             /\ P(id).name = users[id].tg /\ P(id).secret = users[id].secret
  BY <1>1, RowTypes DEF HasStatus, ActiveWithoutProfile
<1>2. DesiredProfiles \subseteq PanelProfile
  BY <1>1 DEF DesiredProfiles, PanelProfile
<1>3. ASSUME NEW p \in DesiredProfiles, NEW q \in DesiredProfiles, p # q
      PROVE  p.name # q.name /\ p.secret # q.secret
  <2>1. PICK i \in RowId : HasStatus(i, {"active"}) /\ p = P(i)
    BY DEF DesiredProfiles
  <2>2. PICK j \in RowId : HasStatus(j, {"active"}) /\ q = P(j)
    BY DEF DesiredProfiles
  <2>3. i # j
    BY <1>3, <2>1, <2>2
  <2>4. users[i].secret # None
    BY <1>1, <2>1, ProfileAssumption
  <2>5. users[i].tg # users[j].tg /\ users[i].secret # users[j].secret
    BY <1>1, <2>1, <2>2, <2>3, <2>4 DEF RowsApart
  <2>6. QED
    BY <1>1, <2>1, <2>2, <2>5
<1>4. ASSUME NEW p \in ForeignProfile, NEW q \in DesiredProfiles
      PROVE  p.name # q.name /\ p.secret # q.secret
  <2>1. PICK j \in RowId : HasStatus(j, {"active"}) /\ q = P(j)
    BY DEF DesiredProfiles
  <2>2. p.secret \in SecretsOf(ForeignProfile)
    BY DEF SecretsOf
  <2>3. users[j].secret \notin SecretsOf(ForeignProfile)
    BY <1>1, <2>1 DEF RowsApart
  <2>4. p.name \in ForeignName /\ q.name \in User
    BY <1>1, <2>1, ProfileAssumption
  <2>5. QED
    BY <1>1, <2>1, <2>2, <2>3, <2>4, ProfileAssumption
<1>5. QED
  BY <1>2, <1>3, <1>4, ProfileAssumption DEF Unique

\* A file that holds it is in line.
LEMMA AppliedIsInLine ==
  ASSUME DesiredProfiles \subseteq PanelProfile,
         live = MergedProfiles(ForeignProfile, DesiredProfiles), loaded = live
  PROVE  live # None /\ InLine /\ live = ForeignProfile \cup DesiredProfiles
<1>1. ForeignProfile # None /\ \A p \in ForeignProfile : ~IsPanel(p)
  BY ProfileAssumption DEF IsPanel, Profile
<1>2. live = ForeignProfile \cup DesiredProfiles
  BY <1>1 DEF MergedProfiles, Profiles
<1>3. \A p \in DesiredProfiles : IsPanel(p)
  BY DEF PanelProfile, IsPanel
<1>4. live # None
  <2>1. live \in SUBSET Profile
    BY <1>2, ProfileAssumption DEF Profile, PanelProfile
  <2>2. QED
    BY <2>1, ProfileAssumption
<1>5. QED
  BY <1>1, <1>2, <1>3, <1>4 DEF InLine, Profiles

\* The script refuses nothing that it is given alone: what is merged has no
\* duplicates, what is installed has the candidate, and MTProxy has a secret
\* unless no profile is left at all.
LEMMA AloneRunGoesOn ==
  ASSUME PanelInv, SoloInv, RowsApart, NEW w \in Slot, script[w].alone,
         script[w].cand = DesiredProfiles, \A id \in RowId : ~ActiveWithoutProfile(id),
         ~At(w, "restore"), mtLoaded # None, ScriptProgress(w)
  PROVE  /\ script'[w].pc \notin {"rejected", "restore"}
         /\ script'[w].pc = "failed" =>
              /\ At(w, "sync") /\ SecretsOf(Profiles(live)) = {}
              /\ InLine /\ live = ForeignProfile \cup DesiredProfiles /\ live # None
<1> USE DEF PanelInv, TypeOK, HostTypeOK
<1>1. script[w].pc \in Running /\ script[w] \in ScriptRun
  BY RunKeepsCandidate
<1>2. /\ DesiredProfiles \subseteq PanelProfile
      /\ Unique(ForeignProfile \cup DesiredProfiles)
  BY DesiredFits
<1>3. SoloRun(w)
  BY DEF SoloInv
<1>4. MergedProfiles(live, DesiredProfiles) = ForeignProfile \cup DesiredProfiles
  BY DEF HostInv, FileInv, MergedProfiles
<1>5. At(w, "sync") => live # None /\ InLine /\ live = ForeignProfile \cup DesiredProfiles
  BY <1>2, <1>3, AppliedIsInLine DEF At, SoloRun, Applied
<1>6. At(w, "verify") => DesiredProfiles \subseteq Profiles(live)
  <2> SUFFICES ASSUME At(w, "verify") PROVE DesiredProfiles \subseteq Profiles(live)
    OBVIOUS
  <2>1. live = MergedProfiles(ForeignProfile, DesiredProfiles)
    BY <1>3 DEF At, SoloRun, Applied
  <2>2. live # None
    <3>1. live \in SUBSET Profile
      BY <1>2, <2>1, ProfileAssumption
         DEF MergedProfiles, Profiles, Profile, PanelProfile
    <3>2. QED
      BY <3>1, ProfileAssumption
  <2>3. QED
    BY <2>1, <2>2 DEF MergedProfiles, Profiles
<1>7. /\ script'[w].pc \notin {"rejected", "restore"}
      /\ script'[w].pc = "failed" => At(w, "sync") /\ SecretsOf(Profiles(live)) = {}
  <2>1. ~At(w, "restore")
    OBVIOUS
  <2>2. CASE MergeStep(w)
    <3>1. Unique(MergedProfiles(live, script[w].cand))
      BY <1>2, <1>4
    <3>2. script'[w].pc = "ports"
      BY <1>1, <2>2, <3>1 DEF MergeStep, ScriptRun
    <3>3. QED
      BY <3>2
  <2>3. CASE PortsStep(w) \/ BackupStep(w) \/ InstallStep(w)
    <3>1. script'[w].pc \in {"backup", "install", "verify"}
      <4>1. CASE BackupStep(w)
        <5>1. PICK file \in {live, None} :
                script'[w] = [script[w] EXCEPT !.pc = "install", !.backup = file]
          BY <4>1, BackupTaken
        <5>2. script'[w].pc = "install"
          BY <1>1, <5>1 DEF ScriptRun
        <5>3. QED
          BY <5>2
      <4>2. CASE InstallStep(w)
        BY <1>1, <4>2 DEF InstallStep, ScriptRun
      <4>3. CASE PortsStep(w)
        BY <1>1, <4>3 DEF PortsStep, Goto, ScriptRun
      <4>4. QED
        BY <2>3, <4>1, <4>2, <4>3
    <3>2. QED
      BY <3>1
  <2>4. CASE VerifyStep(w)
    <3>1. Names(script[w].cand) \subseteq Names(Profiles(live))
      BY <1>6, <2>4 DEF VerifyStep, Names
    <3>2. QED
      BY <1>1, <2>4, <3>1 DEF VerifyStep, Goto, ScriptRun
  <2>5. CASE RestartStep(w) \/ CompareStep(w) \/ WriteStep(w) \/ MtproxyStep(w)
    BY <1>1, <2>5 DEF RestartStep, CompareStep, WriteStep, MtproxyStep, Goto,
       ScriptRun
  <2>6. CASE SyncStep(w)
    <3> DEFINE s == SecretsOf(Profiles(live))
    <3>1. CASE s = {}
      <4>1. script'[w].pc = "failed"
        BY <2>6, <3>1 DEF SyncStep, Fail, NoScript
      <4>2. QED
        BY <2>6, <3>1, <4>1 DEF SyncStep
    <3>2. CASE s # {}
      <4>1. script' = [script EXCEPT ![w].pc = "compare", ![w].secrets = s]
        BY <2>6, <3>2 DEF SyncStep
      <4>2. script'[w].pc = "compare"
        BY <1>1, <4>1 DEF ScriptRun
      <4>3. QED
        BY <4>2
    <3>3. QED
      BY <3>1, <3>2
  <2>7. QED
    BY <2>1, <2>2, <2>3, <2>4, <2>5, <2>6 DEF ScriptProgress, RestoreStep
<1>8. QED
  BY <1>5, <1>7

\* So a run fails only after the last revocation.
LEMMA RunsStayFaultless ==
  ASSUME PanelInv, SoloPanel, RowsApart, NEW w, Slot = {w}, SequentialInv(w),
         faults = 0, Faultless(w), ScriptRuns(w) \/ ScriptBreaks(w), faults' = faults
  PROVE  Faultless(w)'
<1> USE DEF PanelInv, TypeOK, HostTypeOK
<1> w \in Slot
  OBVIOUS
<1>1. ScriptProgress(w)
  BY DEF ScriptRuns, ScriptBreaks, ScriptFailure, RestartRejected,
         MtproxyRestartFails, ScriptDies, Fault
<1>2. /\ script[w].pc \in Running /\ script[w] \in ScriptRun
      /\ handler' = handler /\ UNCHANGED storeVars
  BY <1>1, RunKeepsCandidate DEF ScriptRuns, ScriptBreaks
<1>3. handler[w].pc = "script" /\ handler[w].alone /\ ~At(w, "failed")
  BY <1>2 DEF SoloPanel, SlotInv, At, Running, SequentialInv, Free
<1>4. script[w].alone /\ script[w].cand = DesiredProfiles
  BY <1>3 DEF SoloPanel, SoloHandler, Free
<1>5. /\ script'[w].pc \notin {"rejected", "restore"}
      /\ script'[w].pc = "failed" =>
           /\ At(w, "sync") /\ SecretsOf(Profiles(live)) = {}
           /\ InLine /\ live = ForeignProfile \cup DesiredProfiles /\ live # None
  BY <1>1, <1>4, AloneRunGoesOn DEF Faultless, SoloPanel, HostInv, MtproxyInv
<1>6. ASSUME script'[w].pc = "failed"
      PROVE  InLine' /\ handler[w].op = "revoke"
  <2>1. InLine /\ live = ForeignProfile \cup DesiredProfiles /\ live # None
        /\ At(w, "sync") /\ SecretsOf(Profiles(live)) = {}
    BY <1>5, <1>6
  <2>2. UNCHANGED <<live, loaded>>
    BY <1>1, <2>1 DEF ScriptProgress, MergeStep, PortsStep, BackupStep, InstallStep,
       VerifyStep, RestartStep, RestoreStep, SyncStep, CompareStep, WriteStep,
       MtproxyStep, At, hostFiles
  <2>3. InLine'
    BY <1>2, <2>1, <2>2 DEF InLine, DesiredProfiles, HasStatus, Exists, storeVars
  <2>4. DesiredProfiles = {}
    <3>1. \A p \in Profiles(live) : p.secret \in SecretsOf(Profiles(live))
      BY DEF SecretsOf
    <3>2. QED
      BY <2>1, <3>1 DEF Profiles
  <2>5. ASSUME handler[w].op # "revoke" PROVE FALSE
    <3>1. Written(w)
      BY <1>3, <2>5 DEF SequentialInv, Orderly, Follows, IssuePart
    <3>2. PICK id \in RowId : id = handler[w].id
      BY HandlerFields
    <3>3. [name |-> users[id].tg, secret |-> users[id].secret] \in DesiredProfiles
      BY <3>1, <3>2 DEF Written, RowIs, DesiredProfiles
    <3>4. QED
      BY <2>4, <3>3
  <2>6. QED
    BY <2>3, <2>5
<1>7. QED
  BY <1>2, <1>3, <1>5, <1>6 DEF Faultless, ActiveWithoutProfile, HasStatus, Exists,
     Behind, Applying, At, RollbackPart, storeVars

\* The statements of the service: those that take the host out of line are
\* followed by an apply, and the checks before it do not fail.
LEMMA ServiceStaysFaultless ==
  ASSUME PanelInv, SoloPanel, RowsApart, NEW w, Slot = {w}, SequentialInv(w),
         Faultless(w), ServiceStep(w)
  PROVE  Faultless(w)'
<1> USE DEF PanelInv, TypeOK, SequentialInv, Orderly, Behind, Applying, RollbackPart
<1> w \in Slot
  OBVIOUS
<1> DEFINE h == handler[w]
           NoGap == \A i \in RowId : ~ActiveWithoutProfile(i)
           Kept == /\ handler'[w].cancelled = h.cancelled
                   /\ handler'[w].pc \notin RollbackPart
                   /\ ~Behind(w)' => ~Behind(w)
<1>0. /\ h \in Handler /\ handler \in [Slot -> Handler] /\ PanelInv1
      /\ Follows(w) /\ RowsTidy
  BY DEF PanelInv1, HandlerInv, HandlerTypeOK
<1>1. PICK id \in RowId : id = h.id
  BY <1>0, HandlerFields
<1>2. UNCHANGED hostVars /\ At(w, "none")
  <2>1. h.pc # "script"
    BY DEF ServiceStep, CreateStep, CreateRead, AutoIssueStep, SetPendingStep,
       PendingRead, IssueWrite, IssueRead, IssueCheck, RollbackClear,
       RollbackStatus, RollbackRead, RevokeWrite, RevokeRead, RevokeCheck,
       DenyWrite, DenyRead, DeleteAudit, DeleteRow, AuditStep, Serving
  <2>2. QED
    BY <1>0, <2>1, ServiceKeepsHandlers DEF SoloPanel, SlotInv
<1>3. ASSUME Kept, NoGap', ~Behind(w)' => DesiredProfiles' = DesiredProfiles
      PROVE  Faultless(w)'
  BY <1>2, <1>3 DEF Faultless, InLine, At, hostVars
<1>4. ASSUME users' = users PROVE NoGap' /\ DesiredProfiles' = DesiredProfiles
  BY <1>4 DEF Faultless, DesiredProfiles, ActiveWithoutProfile, HasStatus, Exists
<1>5. ASSUME NEW pc, NEW r, Proceed(w, pc) \/ Done(w, r) \/ Audit(w, r)
      PROVE  handler'[w].pc \in {pc, "done", "audit"} /\ handler'[w].cancelled = h.cancelled
  BY <1>0, <1>5 DEF Proceed, Done, Audit, Handler
<1>6. ASSUME StepRefused(w),
             h.pc \notin RollbackPart \cup ApplyPart \cup {"issue_read", "revoke_read"}
      PROVE  Faultless(w)'
  <2>1. users' = users
    BY <1>6 DEF StepRefused, Unchanged, storeVars
  <2>2. \/ \E r : Done(w, r)
        \/ \E pc \in {"done", "delete_row"} : Proceed(w, pc)
    BY <1>6 DEF StepRefused, OnError
  <2>3. Kept
    <3>1. handler'[w].pc \in {"done", "delete_row"} /\ handler'[w].cancelled = h.cancelled
      BY <1>0, <2>2 DEF Done, Proceed, Handler
    <3>2. QED
      BY <1>6, <3>1 DEF ApplyPart
  <2>4. QED
    BY <1>3, <1>4, <2>1, <2>3
<1>7. CASE \/ CreateRead(w) \/ AutoIssueStep(w) \/ PendingRead(w) \/ DenyRead(w)
           \/ DeleteAudit(w) \/ AuditStep(w)
  <2>1. CASE StepRefused(w)
    BY <1>6, <1>7, <2>1 DEF CreateRead, AutoIssueStep, PendingRead, DenyRead,
       DeleteAudit, AuditStep, Serving, ApplyPart
  <2>2. CASE ~StepRefused(w)
    <3>1. users' = users
      BY <1>7, <2>2 DEF CreateRead, AutoIssueStep, PendingRead, DenyRead,
         DeleteAudit, AuditStep, Unchanged, storeVars, AppendAuditLog
    <3>2. Kept
      <4>1. CASE CreateRead(w)
        BY <1>0, <2>2, <4>1 DEF CreateRead, Serving, Handler
      <4>2. CASE ~CreateRead(w)
        <5>1. handler'[w].pc \in {"issue_write", "set_pending", "delete_row", "done", "audit"}
              /\ handler'[w].cancelled = h.cancelled
          BY <1>5, <1>7, <2>2, <4>2 DEF AutoIssueStep, PendingRead, DenyRead,
             DeleteAudit, AuditStep
        <5>2. h.pc \in {"auto_issue", "pending_read", "deny_read", "delete_audit",
                        "audit"}
          BY <1>7, <4>2 DEF AutoIssueStep, PendingRead, DenyRead, DeleteAudit,
             AuditStep, Serving
        <5>3. QED
          BY <5>1, <5>2
      <4>3. QED
        BY <4>1, <4>2
    <3>3. QED
      BY <1>3, <1>4, <3>1, <3>2
  <2>3. QED
    BY <2>1, <2>2
<1>8. CASE IssueRead(w) \/ RevokeRead(w)
  <2>1. Exists(h.id) /\ h.pc \in {"issue_read", "revoke_read"}
    BY <1>0, <1>8 DEF IssueRead, RevokeRead, Serving, Follows, RowIs, HasStatus, Step
  <2>2. /\ users' = users
        /\ Proceed(w, IF h.pc = "issue_read" THEN "issue_check" ELSE "revoke_check")
    BY <1>8, <2>1 DEF IssueRead, RevokeRead, Serving, Unchanged, storeVars
  <2>3. /\ handler'[w].pc \in {"issue_check", "revoke_check"}
        /\ handler'[w].cancelled = h.cancelled
    BY <1>0, <2>2 DEF Proceed, Handler
  <2>4. QED
    BY <1>3, <1>4, <2>2, <2>3
<1>9. CASE IssueCheck(w) \/ RevokeCheck(w)
  <2>1. /\ users' = users
        /\ handler'[w].pc = "apply_list" /\ handler'[w].cancelled = h.cancelled
    <3>1. CASE IssueCheck(w)
      <4>1. h.pc = "issue_check"
        BY <3>1 DEF IssueCheck, Serving
      <4>2. Written(w) /\ h.secret = users[id].secret
        BY <1>0, <1>1, <4>1 DEF Follows, OnPath, IssuePart
      <4>3. /\ id \in RowsOf(h.tg) /\ users[id].status = "active"
            /\ users[id].secret = h.secret
        BY <1>1, <4>2 DEF Written, RowIs, HasStatus, RowsOf
      <4>4. QED
        BY <1>0, <3>1, <4>3 DEF IssueCheck, Unchanged, storeVars, Handler
    <3>2. CASE RevokeCheck(w)
      <4>1. h.pc = "revoke_check"
        BY <3>2 DEF RevokeCheck, Serving
      <4>2. RowIs(w, {"revoked"})
        BY <1>0, <4>1 DEF Follows, OnPath, IssuePart
      <4>3. id \in RowsOf(h.tg) /\ users[id].status = "revoked"
        BY <1>1, <4>2 DEF RowIs, HasStatus, RowsOf
      <4>4. QED
        BY <1>0, <3>2, <4>3 DEF RevokeCheck, Proceed, Unchanged, storeVars, Handler
    <3>3. QED
      BY <1>9, <3>1, <3>2
  <2>2. QED
    BY <1>3, <1>4, <2>1
<1>10. CASE CreateStep(w)
  <2>1. h.pc = "create"
    BY <1>10 DEF CreateStep, Serving
  <2>2. CASE StepRefused(w)
    BY <1>6, <2>1, <2>2 DEF ApplyPart
  <2>3. CASE ~StepRefused(w)
    <3>1. /\ CanCreate(h.tg) /\ CreateUser(h.tg)
          /\ handler' = [handler EXCEPT ![w].pc = "create_read", ![w].id = nextId]
      BY <1>10, <2>3 DEF CreateStep
    <3>2. PICK new \in RowId : new = nextId
      BY <3>1 DEF CanCreate
    <3>3. PICK tg \in User : tg = h.tg
      BY <1>0, <2>1, HandlerFields DEF Step
    <3>4. /\ users' = [users EXCEPT ![new] =
                         [tg |-> tg, status |-> "pending", secret |-> None]]
      BY <3>1, <3>2, <3>3 DEF CreateUser
    <3>5. users'[new].status = "pending" /\ \A i \in RowId \ {new} : users'[i] = users[i]
      BY <3>4 DEF StoreTypeOK
    <3>6. handler'[w].pc = "create_read" /\ handler'[w].cancelled = h.cancelled
      BY <1>0, <3>1 DEF Handler
    <3>7. ~HasStatus(new, {"active"})
      <4>1. new >= nextId
        BY <3>2, StoreAssumption DEF RowId
      <4>2. QED
        BY <4>1 DEF RowsApart, HasStatus
    <3>8. NoGap' /\ DesiredProfiles' = DesiredProfiles
      BY <3>5, <3>7, InactiveRow DEF HasStatus, Faultless
    <3>9. QED
      BY <1>3, <2>1, <3>6, <3>8
  <2>4. QED
    BY <2>2, <2>3
<1>11. CASE SetPendingStep(w) \/ DenyWrite(w)
  <2>1. h.pc \in {"set_pending", "deny_write"}
    BY <1>11 DEF SetPendingStep, DenyWrite, Serving
  <2>2. CASE StepRefused(w)
    BY <1>6, <2>1, <2>2 DEF ApplyPart
  <2>3. CASE ~StepRefused(w)
    <3>1. PICK st \in {"pending", "denied"} :
            /\ UpdateUserStatus(id, st) /\ Exists(id)
            /\ \E pc \in {"pending_read", "deny_read"} : Proceed(w, pc)
      BY <1>1, <1>11, <2>3 DEF SetPendingStep, DenyWrite
    <3>2. users[id].status # "active" /\ users[id].secret = None
      BY <1>0, <1>1, <2>1, <3>1
         DEF Follows, AsRead, RowIs, Issuable, RowsTidy, HasStatus
    <3>3. /\ users'[id].status = st
          /\ \A i \in RowId \ {id} : users'[i] = users[i]
      BY <3>1, <3>2, StatusWritten DEF Status
    <3>4. NoGap' /\ DesiredProfiles' = DesiredProfiles
      BY <3>2, <3>3, InactiveRow DEF HasStatus, Faultless
    <3>5. /\ handler'[w].pc \in {"pending_read", "deny_read"}
          /\ handler'[w].cancelled = h.cancelled
      BY <1>0, <3>1 DEF Proceed, Handler
    <3>6. QED
      BY <1>3, <2>1, <3>4, <3>5
  <2>4. QED
    BY <2>2, <2>3
<1>12. CASE RevokeWrite(w)
  <2>1. h.pc = "revoke_write"
    BY <1>12 DEF RevokeWrite, Serving
  <2>2. CASE StepRefused(w)
    BY <1>6, <2>1, <2>2 DEF ApplyPart
  <2>3. CASE ~StepRefused(w)
    <3>1. UpdateUserStatus(id, "revoked") /\ Exists(id) /\ Proceed(w, "revoke_read")
      BY <1>1, <1>12, <2>3 DEF RevokeWrite
    <3>2. /\ users'[id].status = "revoked"
          /\ \A i \in RowId \ {id} : users'[i] = users[i]
      BY <3>1, StatusWritten DEF Status
    <3>3. NoGap'
      BY <3>2 DEF Faultless, ActiveWithoutProfile, HasStatus, Exists
    <3>4. handler'[w].pc = "revoke_read" /\ handler'[w].cancelled = h.cancelled
      BY <1>0, <3>1 DEF Proceed, Handler
    <3>5. QED
      BY <1>2, <3>3, <3>4 DEF Faultless, At, hostVars
  <2>4. QED
    BY <2>2, <2>3
<1>13. CASE IssueWrite(w)
  <2>1. h.pc = "issue_write"
    BY <1>13 DEF IssueWrite, Serving
  <2>2. CASE StepRefused(w)
    BY <1>6, <2>1, <2>2 DEF ApplyPart
  <2>3. CASE ~StepRefused(w)
    <3>1. PICK s \in FreshSecret :
            /\ SetUserProfile(id, s) /\ Exists(id)
            /\ handler' = [handler EXCEPT ![w].pc = "issue_read", ![w].secret = s]
      BY <1>1, <1>13, <2>3 DEF IssueWrite
    <3>2. s \in Secret /\ s # None
      BY ProfileAssumption DEF FreshSecret
    <3>3. /\ users'[id].secret = s
          /\ \A i \in RowId \ {id} : users'[i] = users[i]
      BY <3>1, <3>2, ProfileWritten
    <3>4. NoGap'
      BY <3>2, <3>3 DEF Faultless, ActiveWithoutProfile, HasStatus, Exists
    <3>5. handler'[w].pc = "issue_read" /\ handler'[w].cancelled = h.cancelled
      BY <1>0, <3>1 DEF Handler
    <3>6. QED
      BY <1>2, <3>4, <3>5 DEF Faultless, At, hostVars
  <2>4. QED
    BY <2>2, <2>3
<1>14. CASE DeleteRow(w)
  <2>1. h.pc = "delete_row"
    BY <1>14 DEF DeleteRow, Serving
  <2>2. CASE StepRefused(w)
    BY <1>6, <2>1, <2>2 DEF ApplyPart
  <2>3. CASE ~StepRefused(w)
    <3>1. DeleteUser(id) /\ Done(w, "ok")
      BY <1>1, <1>14, <2>3 DEF DeleteRow
    <3>2. ~HasStatus(id, {"active"})
      BY <1>0, <1>1, <2>1 DEF Follows, OnPath, IssuePart, RowIs, HasStatus
    <3>3. ~Exists(id)' /\ \A i \in RowId \ {id} : users'[i] = users[i]
      BY <3>1, RowDeleted
    <3>4. NoGap' /\ DesiredProfiles' = DesiredProfiles
      BY <3>2, <3>3, InactiveRow DEF HasStatus, Faultless
    <3>5. handler'[w].pc = "done" /\ handler'[w].cancelled = h.cancelled
      BY <1>0, <3>1 DEF Done, Handler
    <3>6. QED
      BY <1>3, <2>1, <3>4, <3>5
  <2>4. QED
    BY <2>2, <2>3
<1>15. CASE RollbackClear(w) \/ RollbackStatus(w) \/ RollbackRead(w)
  BY <1>15 DEF RollbackClear, RollbackStatus, RollbackRead, Serving, Faultless
<1>16. QED
  BY <1>7, <1>8, <1>9, <1>10, <1>11, <1>12, <1>13, <1>14, <1>15 DEF ServiceStep

\* apply: nothing is refused, the run that comes back has ended well or left
\* MTProxy without a secret, and tproxy-server runs.
LEMMA ApplyStaysFaultless ==
  ASSUME PanelInv, SoloPanel, NEW w, Slot = {w}, SequentialInv(w), Faultless(w),
         ApplyStep(w), faults' = faults
  PROVE  Faultless(w)'
<1> USE DEF PanelInv, TypeOK, HostTypeOK, SequentialInv, Orderly, Behind, Applying,
            RollbackPart
<1> w \in Slot
  OBVIOUS
<1> DEFINE h == handler[w]
           NoGap == \A i \in RowId : ~ActiveWithoutProfile(i)
<1>0. /\ h \in Handler /\ handler \in [Slot -> Handler]
      /\ Follows(w) /\ script \in [Slot -> ScriptRun]
  BY DEF HandlerInv, HandlerTypeOK
<1>1. users' = users /\ NoGap' /\ DesiredProfiles' = DesiredProfiles
  <2>1. users' = users
    BY DEF ApplyStep, ApplyList, ApplyRun, ScriptReturns, Healthy, Unhealthy,
           StepRefused, Unchanged, storeVars
  <2>2. QED
    BY <2>1 DEF Faultless, DesiredProfiles, ActiveWithoutProfile, HasStatus, Exists
<1>2. CASE ApplyList(w)
  <2>1. /\ handler' = [handler EXCEPT ![w].pc = "apply_run",
                                      ![w].cand = DesiredProfiles]
        /\ UNCHANGED hostVars
    BY <1>2 DEF ApplyList, Faultless, Unchanged
  <2>2. handler'[w].pc = "apply_run" /\ handler'[w].cancelled = h.cancelled
    BY <1>0, <2>1 DEF Handler
  <2>3. h.pc = "apply_list"
    BY <1>2 DEF ApplyList, Serving
  <2>4. At(w, "none")
    BY <2>3 DEF SoloPanel, SlotInv
  <2>5. QED
    BY <1>1, <2>1, <2>2, <2>4 DEF Faultless, At, hostVars
<1>3. CASE ApplyRun(w)
  <2>1. handler'[w].pc = "script" /\ handler'[w].cancelled = h.cancelled
    BY <1>0, <1>3 DEF ApplyRun, Handler
  <2>2. script'[w].pc = "merge"
    BY <1>3 DEF ApplyRun, StartScript, NoScript
  <2>3. QED
    BY <1>1, <2>1, <2>2 DEF Faultless, At
<1>4. CASE ScriptReturns(w)
  <2>0. h.pc = "script" /\ script'[w].pc = "none" /\ UNCHANGED hostFiles
    BY <1>0, <1>4 DEF ScriptReturns, ReapScript, NoScript
  <2>1. CASE At(w, "ok")
    <3>1. Proceed(w, "health")
      BY <1>4, <2>1 DEF ScriptReturns, Faultless
    <3>2. handler'[w].pc = "health" /\ handler'[w].cancelled = h.cancelled
      BY <1>0, <3>1 DEF Proceed, Handler
    <3>3. QED
      BY <1>1, <2>0, <3>2 DEF Faultless, At
  <2>2. CASE ~At(w, "ok")
    <3>1. At(w, "failed") /\ ApplyFails(w)
      BY <1>4, <2>2 DEF ScriptReturns, ReapScript, Exited, At, Faultless
    <3>2. InLine /\ Audit(w, "revoke_failed")
      BY <3>1 DEF Faultless, ApplyFails
    <3>3. handler'[w].pc = "audit" /\ handler'[w].cancelled = h.cancelled
      BY <1>0, <3>2 DEF Audit, Handler
    <3>4. InLine'
      BY <1>1, <2>0, <3>2 DEF InLine, hostFiles
    <3>5. QED
      BY <1>1, <2>0, <3>3, <3>4 DEF Faultless, At
  <2>3. QED
    BY <2>1, <2>2
<1>5. CASE Healthy(w) \/ Unhealthy(w)
  <2>1. h.pc = "health" /\ h.alone
    BY <1>5 DEF Healthy, Unhealthy, Serving, Free
  <2>2. Converged /\ At(w, "none")
    BY <2>1 DEF SoloPanel, SoloHandler, SlotInv, Succeeds, Free
  <2>3. InLine /\ loaded # None
    BY <2>2, AppliedIsInLine DEF Converged
  <2>4. Healthy(w)
    BY <1>5, <2>3, HostAssumption DEF Unhealthy, Fault
  <2>5. UNCHANGED hostVars /\ Audit(w, "applied")
    BY <2>4 DEF Healthy, Unchanged
  <2>6. handler'[w].pc = "audit" /\ handler'[w].cancelled = h.cancelled
    BY <1>0, <2>5 DEF Audit, Handler
  <2>7. InLine'
    BY <1>1, <2>3, <2>5 DEF InLine, hostVars
  <2>8. QED
    BY <1>1, <2>2, <2>5, <2>6, <2>7 DEF Faultless, At, hostVars
<1>6. QED
  BY <1>2, <1>3, <1>4, <1>5 DEF ApplyStep

\* A handler starts and answers with the host in line.
LEMMA StartsStayFaultless ==
  ASSUME PanelInv, SoloPanel, NEW w, Slot = {w}, SequentialInv(w), Faultless(w),
         HandlerStarts(w) \/ Reply(w)
  PROVE  Faultless(w)'
<1> USE DEF PanelInv, TypeOK
<1> w \in Slot
  OBVIOUS
<1>1. UNCHANGED <<storeVars, hostVars>>
  <2>1. PanelInv1
    BY DEF PanelInv1
  <2>2. QED
    BY <2>1, StartsKeepHandlers DEF Reply, Unchanged
<1>2. handler[w].pc \in {"idle", "done"}
  BY DEF HandlerStarts, Approve, Revoke, Deny, Delete, Resend, RequestAgain,
         RequestNew, BeginAtRow, Begin, Free, Reply
<1>3. ~handler'[w].cancelled /\ handler'[w].pc \notin RollbackPart
  <2>1. CASE Reply(w)
    <3>1. handler'[w] = Idle
      BY <2>1 DEF Reply, HandlerInv, HandlerTypeOK
    <3>2. QED
      BY <3>1 DEF Idle, RollbackPart
  <2>2. ASSUME NEW id \in RowId, Exists(id), NEW op \in Op,
               NEW pc \in {"issue_write", "revoke_write", "deny_write",
                           "delete_audit", "audit", "auto_issue"},
               BeginAtRow(w, op, id, pc)
        PROVE  ~handler'[w].cancelled /\ handler'[w].pc = pc
    <3> DEFINE f == [Idle EXCEPT !.pc = pc, !.op = op, !.id = id,
                                 !.tg = users[id].tg, !.prev = users[id].status]
    <3>1. handler'[w] = [f EXCEPT !.alone = \A u \in Slot \ {w} : Free(u)]
      BY <2>2 DEF BeginAtRow, Begin
    <3>2. f.pc = pc /\ ~f.cancelled
      BY DEF Idle
    <3>3. handler'[w].pc = f.pc /\ handler'[w].cancelled = f.cancelled
      BY <3>1 DEF Idle
    <3>4. QED
      BY <3>2, <3>3
  <2>3. ASSUME NEW tg \in User, RequestNew(w, tg)
        PROVE  ~handler'[w].cancelled /\ handler'[w].pc = "create"
    <3> DEFINE f == [Idle EXCEPT !.pc = "create", !.op = "request", !.tg = tg]
    <3>1. handler'[w] = [f EXCEPT !.alone = \A u \in Slot \ {w} : Free(u)]
      BY <2>3 DEF RequestNew, Begin
    <3>2. f.pc = "create" /\ ~f.cancelled
      BY DEF Idle
    <3>3. handler'[w].pc = f.pc /\ handler'[w].cancelled = f.cancelled
      BY <3>1 DEF Idle
    <3>4. QED
      BY <3>2, <3>3
  <2>4. CASE HandlerStarts(w)
    BY <2>2, <2>3, <2>4 DEF HandlerStarts, Approve, Revoke, Deny, Delete, Resend,
       RequestAgain, HasStatus, Op, RollbackPart
  <2>5. QED
    BY <2>1, <2>4
<1>4. At(w, "none")
  BY <1>2 DEF SoloPanel, SlotInv
<1>5. InLine
  BY <1>2 DEF Faultless, Behind, Applying
<1>6. QED
  BY <1>1, <1>3, <1>4, <1>5 DEF Faultless, InLine, At, DesiredProfiles,
     ActiveWithoutProfile, HasStatus, Exists, storeVars, hostVars

\* Every step that is not a failure.
LEMMA NextStaysFaultless ==
  ASSUME PanelInv, SoloPanel, RowsApart, NEW w, Slot = {w}, SequentialInv(w),
         NoFaultInv(w), [Next]_vars
  PROVE  NoFaultInv(w)'
<1> USE DEF PanelInv, TypeOK
<1> w \in Slot
  OBVIOUS
<1>1. faults \in Nat
  BY HostAssumption DEF HostTypeOK
<1>2. SUFFICES ASSUME faults' = 0
               PROVE  Faultless(w)'
  BY DEF NoFaultInv
<1>3. ~Fault
  BY <1>1, <1>2 DEF Fault
<1>4. faults = 0
  <2>1. PanelInv1
    BY DEF PanelInv1
  <2>2. HostMove
    BY <2>1, NextMoves
  <2>3. faults' = faults
    BY <1>3, <2>2 DEF HostMove, StartScript, ScriptProgress, ScriptFailure,
       MergeStep, PortsStep, BackupStep, InstallStep, VerifyStep, RestartStep,
       RestoreStep, SyncStep, CompareStep, WriteStep, MtproxyStep, RestartRejected,
       MtproxyRestartFails, ScriptDies, ReapScript, MtproxyComesBack, hostVars
  <2>4. QED
    BY <1>2, <2>3
<1>5. Faultless(w)
  BY <1>4 DEF NoFaultInv
<1>6. CASE ServiceStep(w) \/ ApplyStep(w) \/ HandlerStarts(w) \/ Reply(w)
  BY <1>2, <1>4, <1>5, <1>6, ServiceStaysFaultless, ApplyStaysFaultless,
     StartsStayFaultless
<1>7. CASE CancelledStep(w)
  BY <1>5, <1>7 DEF CancelledStep, Faultless
<1>8. CASE StepFails(w) \/ Cancel(w) \/ Crash
  BY <1>3, <1>8 DEF StepFails, Cancel, Crash
<1>9. CASE ScriptRuns(w) \/ ScriptBreaks(w)
  BY <1>2, <1>4, <1>5, <1>9, RunsStayFaultless
<1>10. CASE (\E b \in BOOLEAN : SetAutoIssue(b)) \/ UNCHANGED vars
  <2>1. users' = users /\ handler' = handler /\ UNCHANGED hostVars
    BY <1>10 DEF SetAutoIssue, SetSetting, vars, storeVars
  <2>2. QED
    BY <1>5, <2>1 DEF Faultless, InLine, Behind, At, DesiredProfiles,
       ActiveWithoutProfile, HasStatus, Exists, hostVars
<1>11. CASE HostRecovers
  BY <1>4, <1>11 DEF HostRecovers, MtproxyComesBack, HostInv, MtproxyInv
<1>12. QED
  BY <1>6, <1>7, <1>8, <1>9, <1>10, <1>11 DEF Next, HandlerProgress

\* The host that the panel finds is in line.
LEMMA BeginsFaultless ==
  ASSUME NEW w, Slot = {w}, Init
  PROVE  Faultless(w)
<1>1. /\ StoreInit /\ HostInit(DesiredProfiles)
      /\ handler[w] = Idle /\ script[w] = NoScript
  BY DEF Init, HostInit
<1>2. PanelInv
  BY InitEstablishes
<1>3. \A id \in RowId : ~ActiveWithoutProfile(id)
  BY <1>1 DEF StoreInit, ActiveWithoutProfile, HasStatus
<1>4. DesiredProfiles \subseteq PanelProfile
  BY <1>2, <1>3, DesiredAreIssued DEF PanelInv, TypeOK
<1>5. /\ \A p \in ForeignProfile : ~IsPanel(p)
      /\ \A p \in DesiredProfiles : IsPanel(p)
  BY <1>4, ProfileAssumption DEF IsPanel, Profile, PanelProfile
<1>6. Profiles(live) = ForeignProfile \cup DesiredProfiles /\ loaded = live
  <2> DEFINE file == ForeignProfile \cup DesiredProfiles
  <2>1. live = file \/ (live = None /\ file = {})
    BY <1>1 DEF HostInit
  <2>2. file # None
    <3>1. file \in SUBSET Profile
      BY <1>4, ProfileAssumption DEF Profile, PanelProfile
    <3>2. QED
      BY <3>1, ProfileAssumption
  <2>3. QED
    BY <1>1, <2>1, <2>2 DEF HostInit, Profiles
<1>7. InLine
  BY <1>5, <1>6 DEF InLine
<1>8. QED
  BY <1>1, <1>3, <1>7 DEF Faultless, At, Idle, NoScript, RollbackPart

\* With handlers that never overlap and no failure the host never falls behind
\* the database but during an apply.
THEOREM FaultlessInvariant ==
  ASSUME NEW w, Slot = {w}
  PROVE  Spec => []NoFaultInv(w)
<1>1. Init => NoFaultInv(w)
  BY BeginsFaultless DEF NoFaultInv
<1>2. PanelInv /\ SoloPanel /\ RowsApart /\ SequentialInv(w) /\ NoFaultInv(w)
        /\ [Next]_vars
      => NoFaultInv(w)'
  BY NextStaysFaultless
<1>3. QED
  BY <1>1, <1>2, PanelInvariant, SoloPanelInvariant, PanelRowsApart,
     SequentialInvariant, PTL DEF Spec

\* At rest the host serves exactly the active users.
THEOREM SequentialHostMatches ==
  ASSUME NEW w, Slot = {w}
  PROVE  Spec => []HostMatchesAtRest
<1>1. NoFaultInv(w) => HostMatchesAtRest
  BY DEF NoFaultInv, Faultless, HostMatchesAtRest, AtRest, Free, Behind, Applying,
         InLine
<1>2. QED
  BY <1>1, FaultlessInvariant, PTL

------------------------------------------------------------------------------
(* UserLifecycle.                                                          *)

\* The only handler has an Issue under way; of the row id.
Issues(w) == handler[w].pc \in IssuePart /\ handler[w].op \in {"approve", "request"}

IssuesRow(w, id) == Issues(w) /\ handler[w].id = id

Drawn == SecretsOf(issued) \ OnTheirWay

LEMMA IssuingIs ==
  ASSUME NEW w, Slot = {w}, NEW id
  PROVE  Issuing(id) = IF IssuesRow(w, id) THEN {w} ELSE {}
BY DEF Issuing, IssuesRow, Issues

\* How UserLifecycle sees a user who has a row, ...
LEMMA RowView ==
  ASSUME NEW w, Slot = {w}, NEW u \in User, NEW id \in RowId
  PROVE  (RowsApart /\ Exists(id) /\ users[id].tg = u) =>
           /\ StatusOf(u) = (IF IssuesRow(w, id) THEN handler[w].prev
                                                 ELSE users[id].status)
           /\ SecretOf(u) = (IF IssuesRow(w, id) THEN None ELSE users[id].secret)
<1> SUFFICES ASSUME RowsApart, Exists(id), users[id].tg = u
             PROVE  /\ StatusOf(u) = (IF IssuesRow(w, id) THEN handler[w].prev
                                                          ELSE users[id].status)
                    /\ SecretOf(u) = (IF IssuesRow(w, id) THEN None
                                                          ELSE users[id].secret)
  OBVIOUS
<1>1. RowsOf(u) = {id}
  BY DEF RowsOf, RowsApart
<1>2. (CHOOSE i \in RowsOf(u) : TRUE) = id
  BY <1>1
<1>3. Issuing(id) = IF IssuesRow(w, id) THEN {w} ELSE {}
  BY IssuingIs
<1>4. CASE IssuesRow(w, id)
  <2>1. Issuing(id) = {w} /\ (CHOOSE v \in Issuing(id) : TRUE) = w
    BY <1>3, <1>4
  <2>2. {i \in RowsOf(u) : Issuing(i) = {}} = {}
    BY <1>1, <2>1
  <2>3. QED
    BY <1>1, <1>2, <1>4, <2>1, <2>2 DEF StatusOf, SecretOf
<1>5. CASE ~IssuesRow(w, id)
  <2>1. Issuing(id) = {}
    BY <1>3, <1>5
  <2>2. {i \in RowsOf(u) : Issuing(i) = {}} = {id}
    BY <1>1, <2>1
  <2>3. (CHOOSE i \in {j \in RowsOf(u) : Issuing(j) = {}} : TRUE) = id
    BY <2>2
  <2>4. QED
    BY <1>1, <1>2, <1>5, <2>1, <2>2, <2>3 DEF StatusOf, SecretOf
<1>6. QED
  BY <1>4, <1>5

\* ... a user without a row, ...
LEMMA NoRowView ==
  ASSUME NEW u \in User
  PROVE  (\A id \in RowId : Exists(id) => users[id].tg # u) =>
           StatusOf(u) = "none" /\ SecretOf(u) = None
<1> SUFFICES ASSUME \A id \in RowId : Exists(id) => users[id].tg # u
             PROVE  StatusOf(u) = "none" /\ SecretOf(u) = None
  OBVIOUS
<1>1. RowsOf(u) = {}
  BY DEF RowsOf
<1>2. {id \in RowsOf(u) : Issuing(id) = {}} = {}
  BY <1>1
<1>3. QED
  BY <1>1, <1>2 DEF StatusOf, SecretOf

\* ... and the secrets that were drawn.
LEMMA DrawnView ==
  ASSUME NEW w, Slot = {w}, NEW id \in RowId
  PROVE  /\ IssuesRow(w, id) /\ Exists(id) =>
              Drawn = SecretsOf(issued) \ {users[id].secret}
         /\ ~Issues(w) => Drawn = SecretsOf(issued)
<1>1. \A i \in RowId : Issuing(i) # {} <=> IssuesRow(w, i)
  BY IssuingIs
<1>2. ASSUME IssuesRow(w, id), Exists(id)
      PROVE  OnTheirWay = {users[id].secret}
  <2>1. \A i \in RowId : (Exists(i) /\ Issuing(i) # {}) <=> i = id
    BY <1>1, <1>2 DEF IssuesRow
  <2>2. QED
    BY <2>1 DEF OnTheirWay
<1>3. ASSUME ~Issues(w) PROVE OnTheirWay = {}
  BY <1>1, <1>3 DEF OnTheirWay, IssuesRow
<1>4. QED
  BY <1>2, <1>3 DEF Drawn

\* The same of the next state.
LEMMA RowViewNext ==
  ASSUME NEW w, Slot = {w}, NEW u \in User, NEW id \in RowId
  PROVE  ((RowsApart /\ Exists(id) /\ users[id].tg = u) =>
           /\ StatusOf(u) = (IF IssuesRow(w, id) THEN handler[w].prev
                                                 ELSE users[id].status)
           /\ SecretOf(u) = (IF IssuesRow(w, id) THEN None ELSE users[id].secret))'
<1>1. (RowsApart /\ Exists(id) /\ users[id].tg = u) =>
        /\ StatusOf(u) = (IF IssuesRow(w, id) THEN handler[w].prev
                                              ELSE users[id].status)
        /\ SecretOf(u) = (IF IssuesRow(w, id) THEN None ELSE users[id].secret)
  BY RowView
<1>2. QED
  BY <1>1, PTL

LEMMA NoRowViewNext ==
  ASSUME NEW u \in User
  PROVE  ((\A id \in RowId : Exists(id) => users[id].tg # u) =>
           StatusOf(u) = "none" /\ SecretOf(u) = None)'
<1>1. (\A id \in RowId : Exists(id) => users[id].tg # u) =>
        StatusOf(u) = "none" /\ SecretOf(u) = None
  BY NoRowView
<1>2. QED
  BY <1>1, PTL

LEMMA DrawnViewNext ==
  ASSUME NEW w, Slot = {w}, NEW id \in RowId
  PROVE  (/\ IssuesRow(w, id) /\ Exists(id) =>
               Drawn = SecretsOf(issued) \ {users[id].secret}
          /\ ~Issues(w) => Drawn = SecretsOf(issued))'
<1>1. /\ IssuesRow(w, id) /\ Exists(id) =>
            Drawn = SecretsOf(issued) \ {users[id].secret}
      /\ ~Issues(w) => Drawn = SecretsOf(issued)
  BY DrawnView
<1>2. QED
  BY <1>1, PTL

\* A step that touches one row, of an Issue or not, is one of its user only.
LEMMA OtherUsers ==
  ASSUME NEW w, Slot = {w}, NEW id \in RowId, NEW u \in User, RowsApart, RowsApart',
         \A i \in RowId \ {id} : users'[i] = users[i],
         Exists(id) => users[id].tg # u, Exists(id)' => users'[id].tg # u,
         \A i \in RowId \ {id} : ~IssuesRow(w, i) /\ ~IssuesRow(w, i)'
  PROVE  StatusOf(u)' = StatusOf(u) /\ SecretOf(u)' = SecretOf(u)
<1>1. CASE \E i \in RowId : Exists(i) /\ users[i].tg = u
  <2>1. PICK i \in RowId \ {id} : Exists(i) /\ users[i].tg = u
    BY <1>1
  <2>2. users'[i] = users[i] /\ Exists(i)' /\ users'[i].tg = u
    BY <2>1 DEF Exists
  <2>3. ~IssuesRow(w, i) /\ ~IssuesRow(w, i)'
    BY <2>1
  <2>4. StatusOf(u) = users[i].status /\ SecretOf(u) = users[i].secret
    BY <2>1, <2>3, RowView
  <2>5. StatusOf(u)' = users'[i].status /\ SecretOf(u)' = users'[i].secret
    BY <2>2, <2>3, RowViewNext
  <2>6. QED
    BY <2>2, <2>4, <2>5
<1>2. CASE ~\E i \in RowId : Exists(i) /\ users[i].tg = u
  <2>1. \A i \in RowId : (Exists(i) => users[i].tg # u)'
    BY <1>2 DEF Exists
  <2>2. StatusOf(u) = "none" /\ SecretOf(u) = None
    BY <1>2, NoRowView
  <2>3. StatusOf(u)' = "none" /\ SecretOf(u)' = None
    BY <2>1, NoRowViewNext
  <2>4. QED
    BY <2>2, <2>3
<1>3. QED
  BY <1>1, <1>2

\* Nothing that UserLifecycle sees has changed.
LEMMA Unseen ==
  ASSUME \A u \in User : StatusOf(u)' = StatusOf(u) /\ SecretOf(u)' = SecretOf(u),
         Drawn' = Drawn
  PROVE  UNCHANGED L!lifecycleVars
BY DEF L!lifecycleVars, Drawn

\* One user has moved along an edge.
LEMMA Edge ==
  ASSUME NEW tg \in User, NEW from, NEW to, NEW s,
         StatusOf(tg) \in from, StatusOf(tg)' = to, SecretOf(tg)' = s,
         \A u \in User \ {tg} : StatusOf(u)' = StatusOf(u) /\ SecretOf(u)' = SecretOf(u)
  PROVE  /\ L!Moves(tg, from, to, s)
         /\ to \notin from =>
              [u \in User |-> StatusOf(u)]'[tg] # [u \in User |-> StatusOf(u)][tg]
<1>1. [u \in User |-> StatusOf(u)]' = [[u \in User |-> StatusOf(u)] EXCEPT ![tg] = to]
  OBVIOUS
<1>2. [u \in User |-> SecretOf(u)]' = [[u \in User |-> SecretOf(u)] EXCEPT ![tg] = s]
  OBVIOUS
<1>3. QED
  BY <1>1, <1>2 DEF L!Moves

\* What a step with one slot may do: an edge of UserLifecycle, or nothing that
\* it sees.
Implements == L!LifecycleNext \/ UNCHANGED L!lifecycleVars

\* Each edge of LifecycleNext.
LEMMA EdgesOfNext ==
  ASSUME NEW tg \in User,
         [u \in User |-> StatusOf(u)]'[tg] # [u \in User |-> StatusOf(u)][tg],
         \/ L!Ask(tg) \/ L!Refuse(tg) \/ L!Withdraw(tg) \/ L!Forget(tg)
         \/ L!Strand(tg) \/ (\E s \in Secret : L!Grant(tg, s))
  PROVE  Implements
BY DEF Implements, L!LifecycleNext

\* A handler moves on with its Issue, or without one: nothing is seen.
LEMMA IssueGoesOn ==
  ASSUME NEW w, Slot = {w}, RowsApart, RowsApart', Follows(w),
         users' = users, issued' = issued,
         Issues(w)' <=> Issues(w),
         Issues(w) => handler'[w].id = handler[w].id /\ handler'[w].prev = handler[w].prev,
         handler[w].id \in RowId
  PROVE  Implements
<1>1. \A i \in RowId : (IssuesRow(w, i)' <=> IssuesRow(w, i)) /\ (Exists(i)' <=> Exists(i))
  BY DEF IssuesRow, Exists
<1>2. ASSUME NEW u \in User
      PROVE  StatusOf(u)' = StatusOf(u) /\ SecretOf(u)' = SecretOf(u)
  <2>1. CASE \E i \in RowId : Exists(i) /\ users[i].tg = u
    <3>1. PICK i \in RowId : Exists(i) /\ users[i].tg = u
      BY <2>1
    <3>2. Exists(i)' /\ users'[i].tg = u
      BY <1>1, <3>1
    <3>3. /\ StatusOf(u) = (IF IssuesRow(w, i) THEN handler[w].prev
                                               ELSE users[i].status)
          /\ SecretOf(u) = (IF IssuesRow(w, i) THEN None ELSE users[i].secret)
      BY <3>1, RowView
    <3>4. /\ StatusOf(u)' = (IF IssuesRow(w, i)' THEN handler'[w].prev
                                                 ELSE users'[i].status)
          /\ SecretOf(u)' = (IF IssuesRow(w, i)' THEN None ELSE users'[i].secret)
      BY <3>2, RowViewNext
    <3>5. QED
      BY <1>1, <3>3, <3>4 DEF IssuesRow
  <2>2. CASE ~\E i \in RowId : Exists(i) /\ users[i].tg = u
    <3>1. \A i \in RowId : (Exists(i) => users[i].tg # u)'
      BY <1>1, <2>2
    <3>2. StatusOf(u) = "none" /\ SecretOf(u) = None
      BY <2>2, NoRowView
    <3>3. StatusOf(u)' = "none" /\ SecretOf(u)' = None
      BY <3>1, NoRowViewNext
    <3>4. QED
      BY <3>2, <3>3
  <2>3. QED
    BY <2>1, <2>2
<1>3. Drawn' = Drawn
  <2>1. OnTheirWay = {users[i].secret : i \in {j \in RowId : Exists(j) /\ IssuesRow(w, j)}}
    <3>1. \A i \in RowId : Issuing(i) # {} <=> IssuesRow(w, i)
      BY IssuingIs
    <3>2. QED
      BY <3>1 DEF OnTheirWay
  <2>2. PICK id \in RowId : id = handler[w].id
    OBVIOUS
  <2>3. CASE Issues(w)
    <3>1. IssuesRow(w, id) /\ Exists(id)
      BY <2>2, <2>3 DEF IssuesRow, Issues, Follows, RowIs, HasStatus, Step, IssuePart
    <3>2. Drawn = SecretsOf(issued) \ {users[id].secret}
      BY <3>1, DrawnView
    <3>3. Drawn' = SecretsOf(issued') \ {users'[id].secret}
      BY <1>1, <3>1, DrawnViewNext DEF SecretsOf
    <3>4. QED
      BY <3>2, <3>3
  <2>4. CASE ~Issues(w)
    <3>1. Drawn = SecretsOf(issued) /\ Drawn' = SecretsOf(issued')
      BY <2>2, <2>4, DrawnView, DrawnViewNext DEF SecretsOf
    <3>2. QED
      BY <3>1
  <2>5. QED
    BY <2>3, <2>4
<1>4. QED
  BY <1>2, <1>3, Unseen DEF Implements

\* An Issue is over: it has succeeded or left the row active with its profile,
\* has been undone, or breaks off between the two statements of its rollback.
LEMMA IssueEnds ==
  ASSUME NEW w, Slot = {w}, PanelInv, RowsApart, RowsApart', SequentialInv(w),
         users' = users, issued' = issued, Issues(w), ~Issues(w)'
  PROVE  Implements
<1> USE DEF PanelInv, TypeOK, SequentialInv, Orderly
<1> w \in Slot
  OBVIOUS
<1> DEFINE h == handler[w]
<1>1. PICK id \in RowId : id = h.id
  BY HandlerFields
<1>2. Exists(id) /\ users[id].tg = h.tg /\ IssuesRow(w, id)
  BY <1>1 DEF IssuesRow, Issues, Follows, RowIs, HasStatus, Step, IssuePart
<1>3. PICK tg \in User : tg = users[id].tg
  BY <1>2, RowTypes
<1>4. /\ Exists(id)' /\ users'[id].tg = tg
      /\ \A i \in RowId \ {id} : ~IssuesRow(w, i)
      /\ \A i \in RowId : ~IssuesRow(w, i)'
  BY <1>1, <1>2, <1>3 DEF IssuesRow, Exists
<1>5. StatusOf(tg) = h.prev /\ SecretOf(tg) = None
  BY <1>2, <1>3, RowView
<1>6. StatusOf(tg)' = users[id].status /\ SecretOf(tg)' = users[id].secret
  BY <1>4, RowViewNext
<1>7. \A u \in User \ {tg} : StatusOf(u)' = StatusOf(u) /\ SecretOf(u)' = SecretOf(u)
  BY <1>2, <1>3, <1>4, OtherUsers
<1>8. /\ Drawn = SecretsOf(issued) \ {users[id].secret}
      /\ Drawn' = SecretsOf(issued)
  <2>1. Drawn' = SecretsOf(issued')
    BY DrawnViewNext DEF SecretsOf
  <2>2. QED
    BY <1>2, <2>1, DrawnView
<1>9. None \notin SecretsOf(issued)
  <2>1. \A p \in issued : p.secret \in Secret
    BY DEF StoreTypeOK, PanelProfile
  <2>2. QED
    BY <2>1, ProfileAssumption DEF SecretsOf
<1>10. CASE Written(w)
  <2>1. PICK s \in Secret : s = users[id].secret
    BY <1>1, <1>2, <1>10, RowTypes DEF Written
  <2>2. s \in SecretsOf(issued)
    <3> DEFINE p == [name |-> users[id].tg, secret |-> users[id].secret]
    <3>1. p \in issued /\ p.secret = s
      BY <1>1, <1>2, <1>10, <2>1 DEF Written, RowsIssued
    <3>2. QED
      BY <3>1 DEF SecretsOf
  <2>3. h.prev \in {"pending"} \cup L!Closed /\ users[id].status = "active"
    BY <1>1, <1>10 DEF Written, RowIs, HasStatus, Issuable, L!Closed
  <2>4. /\ L!Moves(tg, {"pending"} \cup L!Closed, "active", s)
        /\ [u \in User |-> StatusOf(u)]'[tg] # [u \in User |-> StatusOf(u)][tg]
    BY <1>5, <1>6, <1>7, <2>1, <2>3, Edge DEF L!Closed
  <2>5. L!Grant(tg, s)
    BY <1>8, <2>1, <2>2, <2>4 DEF L!Grant, Drawn
  <2>6. QED
    BY <2>4, <2>5, EdgesOfNext
<1>11. CASE h.pc = "rollback_status"
  <2>1. h.prev \in {"pending"} \cup L!Closed /\ users[id].status = "active"
        /\ users[id].secret = None
    BY <1>1, <1>11 DEF Follows, RowIs, HasStatus, Issuable, RowCleared, L!Closed
  <2>2. /\ L!Moves(tg, {"pending"} \cup L!Closed, "active", None)
        /\ [u \in User |-> StatusOf(u)]'[tg] # [u \in User |-> StatusOf(u)][tg]
    BY <1>5, <1>6, <1>7, <2>1, Edge DEF L!Closed
  <2>3. L!Strand(tg)
    BY <1>8, <1>9, <2>1, <2>2 DEF L!Strand, Drawn
  <2>4. QED
    BY <2>2, <2>3, EdgesOfNext
<1>12. CASE h.pc = "rollback_read"
  <2>1. users[id].status = h.prev /\ h.prev # "active"
    BY <1>1, <1>12 DEF Follows, AsRead, RowIs, HasStatus, Issuable
  <2>2. users[id].secret = None
    BY <1>2, <2>1 DEF RowsTidy, HasStatus
  <2>3. \A u \in User : StatusOf(u)' = StatusOf(u) /\ SecretOf(u)' = SecretOf(u)
    BY <1>5, <1>6, <1>7, <2>1, <2>2
  <2>4. Drawn' = Drawn
    BY <1>8, <1>9, <2>2
  <2>5. QED
    BY <2>3, <2>4, Unseen DEF Implements
<1>13. QED
  BY <1>10, <1>11, <1>12 DEF Issues, Follows

\* How the row of the only handler is seen before and after a statement on it.
LEMMA StatementView ==
  ASSUME NEW w, Slot = {w}, RowsApart, RowsApart', NEW id \in RowId, NEW tg \in User,
         handler[w].id = id, handler'[w].id = id,
         Exists(id), Exists(id)', users[id].tg = tg, users'[id].tg = tg,
         \A i \in RowId \ {id} : users'[i] = users[i]
  PROVE  /\ StatusOf(tg) = (IF Issues(w) THEN handler[w].prev ELSE users[id].status)
         /\ SecretOf(tg) = (IF Issues(w) THEN None ELSE users[id].secret)
         /\ Drawn = (IF Issues(w) THEN SecretsOf(issued) \ {users[id].secret}
                                  ELSE SecretsOf(issued))
         /\ StatusOf(tg)' = (IF Issues(w)' THEN handler'[w].prev ELSE users'[id].status)
         /\ SecretOf(tg)' = (IF Issues(w)' THEN None ELSE users'[id].secret)
         /\ Drawn' = (IF Issues(w)' THEN SecretsOf(issued') \ {users'[id].secret}
                                    ELSE SecretsOf(issued'))
         /\ \A u \in User \ {tg} : StatusOf(u)' = StatusOf(u) /\ SecretOf(u)' = SecretOf(u)
<1>1. /\ IssuesRow(w, id) <=> Issues(w)
      /\ IssuesRow(w, id)' <=> Issues(w)'
      /\ \A i \in RowId \ {id} : ~IssuesRow(w, i) /\ ~IssuesRow(w, i)'
  BY DEF IssuesRow
<1>2. /\ StatusOf(tg) = (IF Issues(w) THEN handler[w].prev ELSE users[id].status)
      /\ SecretOf(tg) = (IF Issues(w) THEN None ELSE users[id].secret)
  BY <1>1, RowView
<1>3. /\ StatusOf(tg)' = (IF Issues(w)' THEN handler'[w].prev ELSE users'[id].status)
      /\ SecretOf(tg)' = (IF Issues(w)' THEN None ELSE users'[id].secret)
  BY <1>1, RowViewNext
<1>4. Drawn = (IF Issues(w) THEN SecretsOf(issued) \ {users[id].secret}
                            ELSE SecretsOf(issued))
  BY <1>1, DrawnView
<1>5. Drawn' = (IF Issues(w)' THEN SecretsOf(issued') \ {users'[id].secret}
                              ELSE SecretsOf(issued'))
  BY <1>1, DrawnViewNext DEF SecretsOf
<1>6. \A u \in User \ {tg} : StatusOf(u)' = StatusOf(u) /\ SecretOf(u)' = SecretOf(u)
  BY <1>1, OtherUsers
<1>7. QED
  BY <1>2, <1>3, <1>4, <1>5, <1>6

\* No handler but an Issue's changes what UserLifecycle sees of a row without
\* writing it.
LEMMA NoIssueStarts ==
  ASSUME NEW w, Slot = {w}, PanelInv, RowsApart, RowsApart', SequentialInv(w),
         users' = users, issued' = issued,
         Issues(w)' => /\ Issues(w) /\ handler'[w].id = handler[w].id
                       /\ handler'[w].prev = handler[w].prev
  PROVE  Implements
<1> w \in Slot
  OBVIOUS
<1>1. handler[w].id \in RowId
  BY HandlerFields DEF PanelInv
<1>2. CASE Issues(w)'
  BY <1>1, <1>2, IssueGoesOn DEF SequentialInv, Orderly
<1>3. CASE ~Issues(w)' /\ ~Issues(w)
  BY <1>1, <1>3, IssueGoesOn DEF SequentialInv, Orderly
<1>4. CASE ~Issues(w)' /\ Issues(w)
  BY <1>4, IssueEnds
<1>5. QED
  BY <1>2, <1>3, <1>4

\* A statement that changes the status of a row that is not being issued moves
\* its user, who is left without a secret.
LEMMA StatusMoves ==
  ASSUME NEW w, Slot = {w}, PanelInv, RowsApart, RowsApart', SequentialInv(w),
         NEW st \in Status, RowIs(w, Status), UpdateUserStatus(handler[w].id, st),
         st = "revoked" \/ users[handler[w].id].secret = None,
         NEW pc \in Step \ IssuePart, Proceed(w, pc), ~Issues(w)
  PROVE  /\ [u \in User |-> StatusOf(u)][handler[w].tg] = users[handler[w].id].status
         /\ UNCHANGED Drawn
         /\ handler[w].tg \in User
         /\ \A from : users[handler[w].id].status \in from =>
              L!Moves(handler[w].tg, from, st, None)
         /\ [u \in User |-> StatusOf(u)]'[handler[w].tg] = st
<1> USE DEF PanelInv, TypeOK, SequentialInv, Orderly
<1> w \in Slot
  OBVIOUS
<1> DEFINE h == handler[w]
<1>1. PICK id \in RowId : id = h.id
  BY HandlerFields
<1>2. Exists(id) /\ users[id].tg = h.tg
  BY <1>1 DEF RowIs, HasStatus
<1>3. PICK tg \in User : tg = h.tg
  BY <1>2, RowTypes
<1>4. /\ Exists(id)' /\ users'[id].tg = tg /\ users'[id].status = st
      /\ users'[id].secret = None
      /\ \A i \in RowId \ {id} : users'[i] = users[i]
  BY <1>1, <1>2, <1>3, StatusWritten
<1>5. handler'[w].id = id /\ handler'[w].pc = pc /\ issued' = issued
  BY <1>1 DEF Proceed, HandlerTypeOK, Handler, UpdateUserStatus
<1>6. ~Issues(w)'
  BY <1>5 DEF Issues
<1>7. /\ StatusOf(tg) = users[id].status /\ Drawn = SecretsOf(issued)
      /\ StatusOf(tg)' = st /\ SecretOf(tg)' = None /\ Drawn' = SecretsOf(issued')
      /\ \A u \in User \ {tg} : StatusOf(u)' = StatusOf(u) /\ SecretOf(u)' = SecretOf(u)
  BY <1>1, <1>2, <1>3, <1>4, <1>5, <1>6, StatementView
<1>8. ASSUME NEW from, users[id].status \in from
      PROVE  L!Moves(tg, from, st, None)
  BY <1>7, <1>8, Edge
<1>9. [u \in User |-> StatusOf(u)]'[tg] = st
  BY <1>7
<1>10. QED
  BY <1>1, <1>3, <1>5, <1>7, <1>8, <1>9

\* SetPending, Revoke, Deny: the status that the statement writes is the edge.
LEMMA StatusWritesImplement ==
  ASSUME NEW w, Slot = {w}, PanelInv, RowsApart, RowsApart', SequentialInv(w),
         SetPendingStep(w) \/ RevokeWrite(w) \/ DenyWrite(w), ~StepRefused(w)
  PROVE  Implements
<1> USE DEF PanelInv, TypeOK, SequentialInv, Orderly
<1> w \in Slot
  OBVIOUS
<1> DEFINE h == handler[w]
           S == [u \in User |-> StatusOf(u)]
<1>1. PICK id \in RowId : id = h.id
  BY HandlerFields
<1>2. Drawn' = Drawn => UNCHANGED (SecretsOf(issued) \ OnTheirWay)
  BY DEF Drawn
<1>3. CASE SetPendingStep(w)
  <2>1. h.pc = "set_pending"
    BY <1>3 DEF SetPendingStep, Serving
  <2>2. UpdateUserStatus(h.id, "pending") /\ Proceed(w, "pending_read")
    BY <1>3 DEF SetPendingStep
  <2>3. RowIs(w, L!Closed) /\ ~Issues(w)
    BY <2>1 DEF Follows, AsRead, RowIs, HasStatus, Issuable, L!Closed, Issues, IssuePart
  <2>4. users[h.id].status \in L!Closed /\ users[h.id].secret = None /\ RowIs(w, Status)
    BY <1>1, <2>3 DEF RowIs, HasStatus, RowsTidy, L!Closed, Status
  <2>5. "pending" \in Status /\ "pending_read" \in Step \ IssuePart
    BY DEF Status, Step, IssuePart
  <2>6. /\ S[h.tg] = users[h.id].status /\ Drawn' = Drawn /\ h.tg \in User
        /\ \A from : users[h.id].status \in from => L!Moves(h.tg, from, "pending", None)
        /\ S'[h.tg] = "pending"
    BY <2>2, <2>3, <2>4, <2>5, StatusMoves
  <2>7. L!Ask(h.tg) /\ S'[h.tg] # S[h.tg]
    BY <1>2, <2>4, <2>6 DEF L!Ask, L!Closed
  <2>8. QED
    BY <2>6, <2>7, EdgesOfNext
<1>4. CASE RevokeWrite(w)
  <2>1. h.pc = "revoke_write"
    BY <1>4 DEF RevokeWrite, Serving
  <2>2. UpdateUserStatus(h.id, "revoked") /\ Proceed(w, "revoke_read")
    BY <1>4 DEF RevokeWrite
  <2>3. RowIs(w, {"active"}) /\ ~Issues(w)
    BY <2>1 DEF Follows, RowIs, Issues, IssuePart
  <2>4. users[h.id].status = "active" /\ RowIs(w, Status)
    BY <2>3 DEF RowIs, HasStatus, Status
  <2>5. "revoked" \in Status /\ "revoke_read" \in Step \ IssuePart
    BY DEF Status, Step, IssuePart
  <2>6. /\ S[h.tg] = users[h.id].status /\ Drawn' = Drawn /\ h.tg \in User
        /\ \A from : users[h.id].status \in from => L!Moves(h.tg, from, "revoked", None)
        /\ S'[h.tg] = "revoked"
    BY <2>2, <2>3, <2>4, <2>5, StatusMoves
  <2>7. L!Withdraw(h.tg) /\ S'[h.tg] # S[h.tg]
    BY <1>2, <2>4, <2>6 DEF L!Withdraw
  <2>8. QED
    BY <2>6, <2>7, EdgesOfNext
<1>5. CASE DenyWrite(w)
  <2>1. h.pc = "deny_write"
    BY <1>5 DEF DenyWrite, Serving
  <2>2. UpdateUserStatus(h.id, "denied") /\ Proceed(w, "deny_read")
    BY <1>5 DEF DenyWrite
  <2>3. RowIs(w, {"pending"}) /\ ~Issues(w)
    BY <2>1 DEF Follows, RowIs, Issues, IssuePart
  <2>4. users[h.id].status = "pending" /\ users[h.id].secret = None /\ RowIs(w, Status)
    BY <1>1, <2>3 DEF RowIs, HasStatus, RowsTidy, Status
  <2>5. "denied" \in Status /\ "deny_read" \in Step \ IssuePart
    BY DEF Status, Step, IssuePart
  <2>6. /\ S[h.tg] = users[h.id].status /\ Drawn' = Drawn /\ h.tg \in User
        /\ \A from : users[h.id].status \in from => L!Moves(h.tg, from, "denied", None)
        /\ S'[h.tg] = "denied"
    BY <2>2, <2>3, <2>4, <2>5, StatusMoves
  <2>7. L!Refuse(h.tg) /\ S'[h.tg] # S[h.tg]
    BY <1>2, <2>4, <2>6 DEF L!Refuse
  <2>8. QED
    BY <2>6, <2>7, EdgesOfNext
<1>6. QED
  BY <1>3, <1>4, <1>5

\* A new row is its user's request.
LEMMA CreateImplements ==
  ASSUME NEW w, Slot = {w}, PanelInv, RowsApart, RowsApart', SequentialInv(w),
         CreateStep(w), ~StepRefused(w)
  PROVE  Implements
<1> USE DEF PanelInv, TypeOK, SequentialInv, Orderly
<1> w \in Slot
  OBVIOUS
<1> DEFINE h == handler[w]
           S == [u \in User |-> StatusOf(u)]
<1>1. /\ h.pc = "create" /\ CanCreate(h.tg) /\ CreateUser(h.tg)
      /\ handler' = [handler EXCEPT ![w].pc = "create_read", ![w].id = nextId]
  BY DEF CreateStep, Serving
<1>2. PICK id \in RowId : id = nextId
  BY <1>1 DEF CanCreate
<1>3. PICK tg \in User : tg = h.tg
  BY <1>1, HandlerFields DEF HandlerInv, Step
<1>4. /\ Exists(id)' /\ users'[id].tg = tg
      /\ users'[id].status = "pending" /\ users'[id].secret = None
      /\ \A i \in RowId \ {id} : users'[i] = users[i]
  <2>1. users'[id] = [tg |-> tg, status |-> "pending", secret |-> None]
    BY <1>1, <1>2, <1>3, RowInserted
  <2>2. QED
    BY <1>1, <1>2, <1>3, <2>1, RowInserted
<1>5. ~Exists(id) /\ \A i \in RowId : Exists(i) => users[i].tg # tg
  <2>1. ~Exists(id)
    BY <1>2 DEF RowsApart, RowId
  <2>2. RowsOf(tg) = {}
    BY <1>1, <1>3 DEF CanCreate
  <2>3. QED
    BY <2>1, <2>2 DEF RowsOf
<1>6. handler'[w].pc = "create_read" /\ issued' = issued
  BY <1>1 DEF HandlerTypeOK, Handler, CreateUser
<1>7. ~Issues(w) /\ ~Issues(w)'
  BY <1>1, <1>6 DEF Issues, IssuePart
<1>8. \A i \in RowId : ~IssuesRow(w, i) /\ ~IssuesRow(w, i)'
  BY <1>7 DEF IssuesRow
<1>9. StatusOf(tg) = "none" /\ SecretOf(tg) = None
  BY <1>5, NoRowView
<1>10. StatusOf(tg)' = "pending" /\ SecretOf(tg)' = None
  BY <1>4, <1>8, RowViewNext
<1>11. \A u \in User \ {tg} : StatusOf(u)' = StatusOf(u) /\ SecretOf(u)' = SecretOf(u)
  BY <1>4, <1>5, <1>8, OtherUsers
<1>12. Drawn' = Drawn
  BY <1>2, <1>6, <1>7, DrawnView, DrawnViewNext DEF SecretsOf
<1>13. /\ L!Moves(tg, {"none"} \cup L!Closed, "pending", None) /\ S'[tg] # S[tg]
  BY <1>9, <1>10, <1>11, Edge DEF L!Closed
<1>14. L!Ask(tg)
  BY <1>12, <1>13 DEF L!Ask, Drawn
<1>15. QED
  BY <1>13, <1>14, EdgesOfNext

\* A deleted row is its user forgotten.
LEMMA DeleteImplements ==
  ASSUME NEW w, Slot = {w}, PanelInv, RowsApart, RowsApart', SequentialInv(w),
         DeleteRow(w), ~StepRefused(w)
  PROVE  Implements
<1> USE DEF PanelInv, TypeOK, SequentialInv, Orderly
<1> w \in Slot
  OBVIOUS
<1> DEFINE h == handler[w]
           S == [u \in User |-> StatusOf(u)]
<1>1. h.pc = "delete_row" /\ DeleteUser(h.id) /\ Done(w, "ok")
  BY DEF DeleteRow, Serving
<1>2. PICK id \in RowId : id = h.id
  BY HandlerFields
<1>3. RowIs(w, L!Closed)
  BY <1>1 DEF Follows, OnPath, Applying, IssuePart, L!Closed
<1>4. Exists(id) /\ users[id].status \in L!Closed /\ users[id].tg = h.tg
  BY <1>2, <1>3 DEF RowIs, HasStatus
<1>5. PICK tg \in User : tg = users[id].tg
  BY <1>4, RowTypes
<1>6. ~Exists(id)' /\ \A i \in RowId \ {id} : users'[i] = users[i]
  BY <1>1, <1>2, RowDeleted
<1>7. \A i \in RowId : (Exists(i) => users[i].tg # tg)'
  BY <1>4, <1>5, <1>6 DEF RowsApart, Exists
<1>8. handler'[w].pc = "done" /\ issued' = issued
  BY <1>1 DEF HandlerTypeOK, Handler, DeleteUser, Done
<1>9. ~Issues(w) /\ ~Issues(w)'
  BY <1>1, <1>8 DEF Issues, IssuePart
<1>10. \A i \in RowId : ~IssuesRow(w, i) /\ ~IssuesRow(w, i)'
  BY <1>9 DEF IssuesRow
<1>11. StatusOf(tg) \in L!Closed
  BY <1>4, <1>5, <1>10, RowView
<1>12. StatusOf(tg)' = "none" /\ SecretOf(tg)' = None
  BY <1>7, NoRowViewNext
<1>13. \A u \in User \ {tg} : StatusOf(u)' = StatusOf(u) /\ SecretOf(u)' = SecretOf(u)
  BY <1>5, <1>6, <1>10, OtherUsers
<1>14. Drawn' = Drawn
  BY <1>2, <1>8, <1>9, DrawnView, DrawnViewNext DEF SecretsOf
<1>15. /\ L!Moves(tg, L!Closed, "none", None) /\ S'[tg] # S[tg]
  BY <1>11, <1>12, <1>13, Edge DEF L!Closed
<1>16. L!Forget(tg)
  BY <1>14, <1>15 DEF L!Forget, Drawn
<1>17. QED
  BY <1>15, <1>16, EdgesOfNext

\* An Issue writes its row, and undoes it: its user is seen as before.
LEMMA IssueWritesImplement ==
  ASSUME NEW w, Slot = {w}, PanelInv, RowsApart, RowsApart', SequentialInv(w),
         IssueWrite(w) \/ RollbackClear(w) \/ RollbackStatus(w), ~StepRefused(w)
  PROVE  Implements
<1> USE DEF PanelInv, TypeOK, SequentialInv, Orderly
<1> w \in Slot
  OBVIOUS
<1> DEFINE h == handler[w]
<1>1. PICK id \in RowId : id = h.id
  BY HandlerFields
<1>2. /\ h.pc \in {"issue_write", "rollback_clear", "rollback_status"}
      /\ h.op \in {"approve", "request"}
  BY DEF IssueWrite, RollbackClear, RollbackStatus, Serving, Follows, OnPath, Applying
<1>3. h.prev \in Issuable /\ Exists(id) /\ users[id].tg = h.tg
  BY <1>1, <1>2 DEF Follows, AsRead, Written, RowIs, HasStatus, IssuePart
<1>4. PICK tg \in User : tg = users[id].tg
  BY <1>3, RowTypes
<1>5. None \notin SecretsOf(issued)
  <2>1. \A p \in issued : p.secret \in Secret
    BY DEF StoreTypeOK, PanelProfile
  <2>2. QED
    BY <2>1, ProfileAssumption DEF SecretsOf
<1>6. ASSUME handler'[w].id = id, handler'[w].prev = h.prev, handler'[w].op = h.op,
             handler'[w].pc \in IssuePart,
             Exists(id)', users'[id].tg = tg,
             \A i \in RowId \ {id} : users'[i] = users[i]
      PROVE  /\ StatusOf(tg)' = h.prev /\ SecretOf(tg)' = None
             /\ Drawn' = SecretsOf(issued') \ {users'[id].secret}
             /\ StatusOf(tg) = (IF Issues(w) THEN h.prev ELSE users[id].status)
             /\ SecretOf(tg) = (IF Issues(w) THEN None ELSE users[id].secret)
             /\ Drawn = (IF Issues(w) THEN SecretsOf(issued) \ {users[id].secret}
                                      ELSE SecretsOf(issued))
             /\ \A u \in User \ {tg} :
                  StatusOf(u)' = StatusOf(u) /\ SecretOf(u)' = SecretOf(u)
  <2>1. Issues(w)'
    BY <1>2, <1>6 DEF Issues
  <2>2. QED
    BY <1>1, <1>3, <1>4, <1>6, <2>1, StatementView
<1>7. CASE IssueWrite(w)
  <2>1. PICK s \in FreshSecret :
          /\ SetUserProfile(h.id, s)
          /\ handler' = [handler EXCEPT ![w].pc = "issue_read", ![w].secret = s]
    BY <1>7 DEF IssueWrite
  <2>2. h.pc = "issue_write"
    BY <1>7 DEF IssueWrite, Serving
  <2>3. /\ handler'[w].id = id /\ handler'[w].prev = h.prev /\ handler'[w].op = h.op
        /\ handler'[w].pc = "issue_read"
    BY <1>1, <2>1 DEF HandlerTypeOK, Handler
  <2>4. s \in Secret /\ s \notin SecretsOf(issued)
    BY <2>1 DEF FreshSecret
  <2>5. /\ Exists(id)' /\ users'[id].tg = tg /\ users'[id].secret = s
        /\ \A i \in RowId \ {id} : users'[i] = users[i]
    BY <1>1, <1>3, <1>4, <2>1, <2>4, ProfileWritten
  <2>6. ~Issues(w) /\ users[id].status = h.prev /\ users[id].secret = None
    BY <1>1, <1>3, <2>2 DEF Issues, IssuePart, Follows, AsRead, RowIs, HasStatus,
       Issuable, RowsTidy
  <2>7. /\ StatusOf(tg)' = StatusOf(tg) /\ SecretOf(tg)' = SecretOf(tg)
        /\ Drawn = SecretsOf(issued) /\ Drawn' = SecretsOf(issued') \ {s}
        /\ \A u \in User \ {tg} : StatusOf(u)' = StatusOf(u) /\ SecretOf(u)' = SecretOf(u)
    BY <1>6, <2>3, <2>5, <2>6 DEF IssuePart
  <2>8. SecretsOf(issued') = SecretsOf(issued) \cup {s}
    <3> DEFINE p == [name |-> users[id].tg, secret |-> s]
    <3>1. issued' = issued \cup {p} /\ p.secret = s
      BY <1>1, <2>1 DEF SetUserProfile
    <3>2. QED
      BY <3>1 DEF SecretsOf
  <2>9. Drawn' = Drawn
    BY <2>4, <2>7, <2>8
  <2>10. QED
    BY <2>7, <2>9, Unseen DEF Implements
<1>8. CASE RollbackClear(w)
  <2>1. h.pc = "rollback_clear" /\ ClearUserProfile(h.id) /\ Proceed(w, "rollback_status")
    BY <1>8 DEF RollbackClear, Serving
  <2>2. /\ handler'[w].id = id /\ handler'[w].prev = h.prev /\ handler'[w].op = h.op
        /\ handler'[w].pc = "rollback_status" /\ issued' = issued
    BY <1>1, <2>1 DEF HandlerTypeOK, Handler, Proceed, ClearUserProfile
  <2>3. /\ Exists(id)' /\ users'[id].tg = tg /\ users'[id].secret = None
        /\ \A i \in RowId \ {id} : users'[i] = users[i]
    BY <1>1, <1>3, <1>4, <2>1, ProfileCleared
  <2>4. Issues(w) /\ Written(w)
    BY <1>2, <2>1 DEF Issues, IssuePart, Follows
  <2>5. /\ StatusOf(tg)' = StatusOf(tg) /\ SecretOf(tg)' = SecretOf(tg)
        /\ Drawn = SecretsOf(issued) \ {users[id].secret}
        /\ Drawn' = SecretsOf(issued) \ {None}
        /\ \A u \in User \ {tg} : StatusOf(u)' = StatusOf(u) /\ SecretOf(u)' = SecretOf(u)
    BY <1>6, <2>2, <2>3, <2>4 DEF IssuePart
  <2>6. PICK s \in Secret : s = users[id].secret
    BY <1>1, <1>3, <2>4, RowTypes DEF Written
  <2>7. s \in SecretsOf(issued)
    <3> DEFINE p == [name |-> users[id].tg, secret |-> users[id].secret]
    <3>1. p \in issued /\ p.secret = s
      BY <1>1, <1>3, <2>4, <2>6 DEF Written, RowsIssued
    <3>2. QED
      BY <3>1 DEF SecretsOf
  <2>8. Drawn' # Drawn /\ Drawn' = Drawn \cup {s}
    BY <1>5, <2>5, <2>6, <2>7
  <2>9. /\ [u \in User |-> StatusOf(u)]' = [u \in User |-> StatusOf(u)]
        /\ [u \in User |-> SecretOf(u)]' = [u \in User |-> SecretOf(u)]
    BY <2>5
  <2>10. L!Waste
    BY <2>6, <2>8, <2>9 DEF L!Waste, Drawn
  <2>11. QED
    BY <2>10 DEF Implements, L!LifecycleNext
<1>9. CASE RollbackStatus(w)
  <2>1. /\ h.pc = "rollback_status" /\ UpdateUserStatus(h.id, h.prev)
        /\ Proceed(w, "rollback_read")
    BY <1>9 DEF RollbackStatus, Serving
  <2>2. /\ handler'[w].id = id /\ handler'[w].prev = h.prev /\ handler'[w].op = h.op
        /\ handler'[w].pc = "rollback_read" /\ issued' = issued
    BY <1>1, <2>1 DEF HandlerTypeOK, Handler, Proceed, UpdateUserStatus
  <2>3. Issues(w) /\ users[id].secret = None
    BY <1>1, <1>2, <1>3, <2>1 DEF Issues, IssuePart, Follows, RowCleared
  <2>4. h.prev \in Status
    BY <1>3 DEF Issuable, Status
  <2>5. /\ Exists(id)' /\ users'[id].tg = tg /\ users'[id].secret = None
        /\ \A i \in RowId \ {id} : users'[i] = users[i]
    BY <1>1, <1>3, <1>4, <2>1, <2>3, <2>4, StatusWritten
  <2>6. /\ StatusOf(tg)' = StatusOf(tg) /\ SecretOf(tg)' = SecretOf(tg)
        /\ Drawn' = Drawn
        /\ \A u \in User \ {tg} : StatusOf(u)' = StatusOf(u) /\ SecretOf(u)' = SecretOf(u)
    BY <1>6, <2>2, <2>3, <2>5 DEF IssuePart
  <2>7. QED
    BY <2>6, Unseen DEF Implements
<1>10. QED
  BY <1>7, <1>8, <1>9

\* An error never starts an Issue.
LEMMA ErrorStartsNoIssue ==
  ASSUME NEW w \in Slot, HandlerInv, Follows(w), OnError(w)
  PROVE  Issues(w)' => /\ Issues(w) /\ handler'[w].id = handler[w].id
                       /\ handler'[w].prev = handler[w].prev
<1> DEFINE h == handler[w]
           Kept == handler'[w].id = h.id /\ handler'[w].prev = h.prev
<1>0. h \in Handler /\ handler \in [Slot -> Handler]
  BY DEF HandlerInv, HandlerTypeOK
<1>1. ASSUME NEW pc, Proceed(w, pc)
      PROVE  handler'[w].pc = pc /\ handler'[w].op = h.op /\ Kept
  BY <1>0, <1>1 DEF Proceed, Handler
<1>2. ASSUME NEW r, Done(w, r) \/ Audit(w, r)
      PROVE  ~Issues(w)'
  BY <1>0, <1>2 DEF Done, Audit, Handler, Issues, IssuePart
<1>3. CASE ApplyFails(w) /\ h.pc \in ApplyPart
  <2>1. CASE h.op = "revoke"
    BY <1>2, <1>3, <2>1 DEF ApplyFails
  <2>2. CASE h.op # "revoke"
    <3>1. handler'[w].pc = "rollback_clear" /\ Kept
      BY <1>1, <1>3, <2>2 DEF ApplyFails
    <3>2. Issues(w)
      BY <1>3, <2>2 DEF Issues, IssuePart, Follows, OnPath, ApplyPart
    <3>3. QED
      BY <3>1, <3>2
  <2>3. QED
    BY <2>1, <2>2
<1>4. CASE Proceed(w, "done") \/ Proceed(w, "delete_row")
  BY <1>1, <1>4 DEF Issues, IssuePart
<1>5. CASE Audit(w, "rollback_failed") \/ Done(w, "panic") \/ Done(w, "error")
  BY <1>2, <1>5
<1>6. QED
  BY <1>3, <1>4, <1>5 DEF OnError

\* Every step of a panel with one slot is an edge of UserLifecycle or nothing
\* that it sees.
LEMMA StepImplements ==
  ASSUME NEW w, Slot = {w}, PanelInv, RowsApart, RowsApart', SequentialInv(w),
         [Next]_vars
  PROVE  Implements
<1> USE DEF PanelInv, TypeOK
<1> w \in Slot
  OBVIOUS
<1> DEFINE h == handler[w]
           NoStart == Issues(w)' => /\ Issues(w) /\ handler'[w].id = h.id
                                    /\ handler'[w].prev = h.prev
           Still == users' = users /\ issued' = issued
<1>0. /\ h \in Handler /\ handler \in [Slot -> Handler] /\ Follows(w)
  BY DEF HandlerTypeOK, SequentialInv, Orderly
<1>1. ASSUME Still, NoStart PROVE Implements
  BY <1>1, NoIssueStarts
<1>2. ASSUME NEW pc, Proceed(w, pc)
      PROVE  /\ handler'[w].pc = pc /\ handler'[w].op = h.op
             /\ handler'[w].id = h.id /\ handler'[w].prev = h.prev
  BY <1>0, <1>2 DEF Proceed, Handler
<1>3. ASSUME NEW r, Done(w, r) \/ Audit(w, r)
      PROVE  ~Issues(w)'
  BY <1>0, <1>3 DEF Done, Audit, Handler, Issues, IssuePart
<1>4. ASSUME OnError(w) PROVE NoStart
  BY <1>0, <1>4, ErrorStartsNoIssue
<1>5. ASSUME Unchanged \/ UNCHANGED storeVars PROVE Still
  BY <1>5 DEF Unchanged, storeVars
<1>6. ASSUME StepRefused(w) PROVE Implements
  BY <1>1, <1>4, <1>5, <1>6 DEF StepRefused
<1>7. CASE HandlerStarts(w)
  <2>1. ASSUME NEW fields, fields.pc \notin IssuePart,
               [fields EXCEPT !.alone = \A u \in Slot \ {w} : Free(u)].pc = fields.pc,
               Begin(w, fields)
        PROVE  ~Issues(w)' /\ UNCHANGED storeVars
    BY <2>1 DEF Begin, Issues
  <2>2. ASSUME NEW id \in RowId, NEW op, NEW pc \in Step \ IssuePart,
               BeginAtRow(w, op, id, pc)
        PROVE  ~Issues(w)' /\ UNCHANGED storeVars
    <3> DEFINE row == [Idle EXCEPT !.pc = pc, !.op = op, !.id = id,
                                   !.tg = users[id].tg, !.prev = users[id].status]
    <3>1. /\ row.pc = pc
          /\ [row EXCEPT !.alone = \A u \in Slot \ {w} : Free(u)].pc = pc
      BY DEF Idle
    <3>2. Begin(w, row)
      BY <2>2 DEF BeginAtRow
    <3> HIDE DEF row
    <3>3. QED
      BY <2>1, <3>1, <3>2
  <2>3. ASSUME NEW tg \in User, RequestNew(w, tg)
        PROVE  ~Issues(w)' /\ UNCHANGED storeVars
    <3> DEFINE row == [Idle EXCEPT !.pc = "create", !.op = "request", !.tg = tg]
    <3>1. /\ row.pc = "create"
          /\ [row EXCEPT !.alone = \A u \in Slot \ {w} : Free(u)].pc = "create"
      BY DEF Idle
    <3>2. Begin(w, row)
      BY <2>3 DEF RequestNew
    <3> HIDE DEF row
    <3>3. QED
      BY <2>1, <3>1, <3>2 DEF IssuePart
  <2>4. /\ {"issue_write", "revoke_write", "deny_write", "delete_audit", "audit",
            "auto_issue"} \subseteq Step \ IssuePart
    BY DEF Step, IssuePart
  <2>5. ~Issues(w)' /\ UNCHANGED storeVars
    BY <1>7, <2>2, <2>3, <2>4 DEF HandlerStarts, Approve, Revoke, Deny, Delete, Resend,
       RequestAgain
  <2>6. QED
    BY <1>1, <1>5, <2>5
<1>8. CASE ServiceStep(w)
  <2>1. CASE \/ SetPendingStep(w) \/ RevokeWrite(w) \/ DenyWrite(w)
    BY <1>6, <2>1, StatusWritesImplement
  <2>2. CASE CreateStep(w)
    BY <1>6, <2>2, CreateImplements
  <2>3. CASE DeleteRow(w)
    BY <1>6, <2>3, DeleteImplements
  <2>4. CASE \/ IssueWrite(w) \/ RollbackClear(w) \/ RollbackStatus(w)
    BY <1>6, <2>4, IssueWritesImplement
  <2>5. CASE CreateRead(w) /\ ~StepRefused(w)
    <3>1. handler'[w].pc = "auto_issue" /\ Unchanged
      BY <1>0, <2>5 DEF CreateRead, Handler
    <3>2. QED
      BY <1>1, <1>5, <3>1 DEF Issues, IssuePart
  <2>6. CASE AutoIssueStep(w)
    <3>1. Unchanged /\ (Done(w, "ok") \/ Proceed(w, "issue_write") \/ Proceed(w, "set_pending"))
      BY <2>6 DEF AutoIssueStep
    <3>2. ~Issues(w)'
      BY <1>2, <1>3, <3>1 DEF Issues, IssuePart
    <3>3. QED
      BY <1>1, <1>5, <3>1, <3>2
  <2>7. CASE PendingRead(w) /\ ~StepRefused(w)
    BY <1>1, <1>3, <1>5, <2>7 DEF PendingRead
  <2>8. CASE IssueRead(w) /\ ~StepRefused(w)
    <3>1. h.pc = "issue_read" /\ Proceed(w, "issue_check") /\ Unchanged
      BY <2>8 DEF IssueRead, Serving
    <3>2. Issues(w)' => Issues(w)
      BY <1>2, <3>1 DEF Issues, IssuePart
    <3>3. QED
      BY <1>1, <1>2, <1>5, <3>1, <3>2
  <2>9. CASE IssueCheck(w) /\ ~StepRefused(w)
    <3>1. /\ h.pc = "issue_check" /\ Unchanged
          /\ handler' = [handler EXCEPT ![w].pc = "apply_list", ![w].secret = None]
      BY <2>9 DEF IssueCheck, Serving
    <3>2. /\ handler'[w].op = h.op /\ handler'[w].id = h.id /\ handler'[w].prev = h.prev
      BY <1>0, <3>1 DEF Handler
    <3>3. Issues(w)' => Issues(w)
      BY <3>1, <3>2 DEF Issues, IssuePart
    <3>4. QED
      BY <1>1, <1>5, <3>1, <3>2, <3>3
  <2>10. CASE RollbackRead(w) /\ ~StepRefused(w)
    BY <1>1, <1>3, <1>5, <2>10 DEF RollbackRead
  <2>11. CASE (RevokeRead(w) \/ DenyRead(w)) /\ ~StepRefused(w)
    <3>1. Unchanged /\ (Proceed(w, "revoke_check") \/ Audit(w, "ok"))
      BY <2>11 DEF RevokeRead, DenyRead
    <3>2. ~Issues(w)'
      BY <1>2, <1>3, <3>1 DEF Issues, IssuePart
    <3>3. QED
      BY <1>1, <1>5, <3>1, <3>2
  <2>12. CASE RevokeCheck(w) /\ ~StepRefused(w)
    <3>1. h.pc = "revoke_check" /\ Proceed(w, "apply_list") /\ Unchanged
      BY <2>12 DEF RevokeCheck, Serving
    <3>2. h.op = "revoke"
      BY <1>0, <3>1 DEF Follows, OnPath, IssuePart
    <3>3. ~Issues(w)'
      BY <1>2, <3>1, <3>2 DEF Issues
    <3>4. QED
      BY <1>1, <1>5, <3>1, <3>3
  <2>13. CASE DeleteAudit(w) \/ AuditStep(w)
    <3>1. Still /\ (Proceed(w, "delete_row") \/ Proceed(w, "done"))
      BY <2>13 DEF DeleteAudit, AuditStep, AppendAuditLog
    <3>2. ~Issues(w)'
      BY <1>2, <3>1 DEF Issues, IssuePart
    <3>3. QED
      BY <1>1, <3>1, <3>2
  <2>14. QED
    BY <1>6, <1>8, <2>1, <2>2, <2>3, <2>4, <2>5, <2>6, <2>7, <2>8, <2>9, <2>10, <2>11,
       <2>12, <2>13 DEF ServiceStep
<1>9. CASE ApplyStep(w)
  <2>1. CASE ApplyList(w) /\ ~StepRefused(w)
    <3>1. /\ h.pc = "apply_list" /\ Unchanged
          /\ handler' = [handler EXCEPT ![w].pc = "apply_run", ![w].cand = DesiredProfiles]
      BY <2>1 DEF ApplyList, Serving
    <3>2. /\ handler'[w].op = h.op /\ handler'[w].id = h.id /\ handler'[w].prev = h.prev
      BY <1>0, <3>1 DEF Handler
    <3>3. QED
      BY <1>1, <1>5, <3>1, <3>2 DEF Issues, IssuePart
  <2>2. CASE ApplyRun(w)
    <3>1. /\ h.pc = "apply_run" /\ UNCHANGED storeVars
          /\ handler' = [handler EXCEPT ![w].pc = "script", ![w].cand = {}]
      BY <2>2 DEF ApplyRun, Serving
    <3>2. /\ handler'[w].op = h.op /\ handler'[w].id = h.id /\ handler'[w].prev = h.prev
      BY <1>0, <3>1 DEF Handler
    <3>3. QED
      BY <1>1, <1>5, <3>1, <3>2 DEF Issues, IssuePart
  <2>3. CASE ScriptReturns(w) \/ Unhealthy(w)
    <3>1. /\ h.pc \in {"script", "health"} /\ UNCHANGED storeVars
          /\ Proceed(w, "health") \/ ApplyFails(w)
      BY <2>3 DEF ScriptReturns, Unhealthy, Serving
    <3>2. CASE Proceed(w, "health")
      <4>1. Issues(w)' => Issues(w)
        BY <1>2, <3>1, <3>2 DEF Issues, IssuePart
      <4>2. QED
        BY <1>1, <1>2, <1>5, <3>1, <3>2, <4>1
    <3>3. CASE ApplyFails(w)
      <4>1. OnError(w)
        BY <3>1, <3>3 DEF OnError, ApplyPart
      <4>2. QED
        BY <1>1, <1>4, <1>5, <3>1, <4>1
    <3>4. QED
      BY <3>1, <3>2, <3>3
  <2>4. CASE Healthy(w)
    BY <1>1, <1>3, <1>5, <2>4 DEF Healthy
  <2>5. QED
    BY <1>6, <1>9, <2>1, <2>2, <2>3, <2>4 DEF ApplyStep
<1>10. CASE CancelledStep(w) \/ StepFails(w)
  <2>1. OnError(w) /\ (Unchanged \/ UNCHANGED storeVars)
    BY <1>10 DEF CancelledStep, StepFails
  <2>2. QED
    BY <1>1, <1>4, <1>5, <2>1
<1>11. CASE Cancel(w)
  <2>1. /\ handler'[w].pc = h.pc /\ handler'[w].op = h.op
        /\ handler'[w].id = h.id /\ handler'[w].prev = h.prev /\ UNCHANGED storeVars
    BY <1>0, <1>11 DEF Cancel, Handler
  <2>2. QED
    BY <1>1, <1>5, <2>1 DEF Issues
<1>12. CASE Crash \/ Reply(w)
  <2>1. /\ handler'[w] = Idle /\ (Unchanged \/ UNCHANGED storeVars)
    BY <1>0, <1>12 DEF Crash, Reply
  <2>2. QED
    BY <1>1, <1>5, <2>1 DEF Issues, Idle, IssuePart
<1>13. CASE \/ ScriptRuns(w) \/ ScriptBreaks(w) \/ HostRecovers
            \/ (\E b \in BOOLEAN : SetAutoIssue(b)) \/ UNCHANGED vars
  <2>1. Still /\ handler' = handler
    BY <1>13 DEF ScriptRuns, ScriptBreaks, HostRecovers, SetAutoIssue, SetSetting, vars,
                 storeVars
  <2>2. QED
    BY <1>1, <2>1 DEF Issues
<1>14. QED
  BY <1>7, <1>8, <1>9, <1>10, <1>11, <1>12, <1>13 DEF Next, HandlerProgress

\* The rows that the panel finds are a state the promise may begin in.
LEMMA BeginsImplementing ==
  ASSUME NEW w, Slot = {w}, Init, RowsApart
  PROVE  L!LifecycleInit
<1>1. StoreInit /\ handler[w] = Idle
  BY DEF Init
<1>2. ~Issues(w) /\ \A i \in RowId : ~IssuesRow(w, i)
  BY <1>1 DEF Issues, IssuesRow, Idle, IssuePart
<1>3. ASSUME NEW i \in RowId, Exists(i)
      PROVE  /\ users[i] \in Row
             /\ users[i].tg \in User /\ users[i].status \in Status
             /\ users[i].secret \in Secret \cup {None}
             /\ users[i].secret = None <=> users[i].status # "active"
  BY <1>1, <1>3 DEF StoreInit, Exists, Row
<1>4. ASSUME NEW u \in User
      PROVE  \/ StatusOf(u) = "none" /\ SecretOf(u) = None
             \/ \E i \in RowId : /\ Exists(i) /\ users[i].tg = u
                                 /\ StatusOf(u) = users[i].status
                                 /\ SecretOf(u) = users[i].secret
  BY <1>2, RowView, NoRowView
<1>5. ASSUME NEW i \in RowId, Exists(i)
      PROVE  SecretOf(users[i].tg) = users[i].secret
  BY <1>2, <1>3, <1>5, RowView
<1> DEFINE S == [u \in User |-> StatusOf(u)]
           X == [u \in User |-> SecretOf(u)]
<1>6. S \in [User -> {"none", "pending", "active", "revoked", "denied"}]
  BY <1>3, <1>4 DEF Status
<1>7. X \in [User -> Secret \cup {None}]
  BY <1>3, <1>4
<1>8. \A u \in User : X[u] # None <=> S[u] = "active"
  BY <1>3, <1>4
<1>9. \A u, v \in User : (u # v /\ X[u] # None) => X[u] # X[v]
  BY <1>4 DEF RowsApart
<1>10. SecretsOf(issued) \ OnTheirWay = {X[u] : u \in User} \ {None}
  <2>1. Drawn = SecretsOf(issued)
    BY <1>2, DrawnView, StoreAssumption DEF RowId
  <2>2. issued = DesiredProfiles
    BY <1>1 DEF StoreInit
  <2>3. ASSUME NEW s \in SecretsOf(issued)
        PROVE  s \in {X[u] : u \in User} \ {None}
    <3>1. PICK i \in RowId : HasStatus(i, {"active"}) /\ s = users[i].secret
      BY <2>2, <2>3 DEF SecretsOf, DesiredProfiles
    <3>2. Exists(i) /\ users[i].tg \in User /\ s # None
      BY <1>3, <3>1 DEF HasStatus
    <3>3. X[users[i].tg] = s
      BY <1>5, <3>1, <3>2
    <3>4. QED
      BY <3>2, <3>3
  <2>4. ASSUME NEW u \in User, X[u] # None
        PROVE  X[u] \in SecretsOf(issued)
    <3>1. PICK i \in RowId : Exists(i) /\ users[i].tg = u /\ X[u] = users[i].secret
      BY <1>4, <2>4
    <3>2. HasStatus(i, {"active"})
      BY <1>3, <2>4, <3>1 DEF HasStatus
    <3> DEFINE p == [name |-> users[i].tg, secret |-> users[i].secret]
    <3>3. p \in issued /\ p.secret = X[u]
      BY <2>2, <3>1, <3>2 DEF DesiredProfiles
    <3>4. QED
      BY <3>3 DEF SecretsOf
  <2>5. QED
    BY <2>1, <2>3, <2>4 DEF Drawn
<1>11. QED
  BY <1>6, <1>7, <1>8, <1>9, <1>10 DEF L!LifecycleInit

\* Whatever statement, command or process fails, handlers that never overlap do
\* to each user what the service promises (UserLifecycle).
THEOREM SequentialKeepsLifecycle ==
  ASSUME NEW w, Slot = {w}
  PROVE  Spec => KeepsLifecycle
<1>1. Init /\ RowsApart => L!LifecycleInit
  BY BeginsImplementing
<1>2. PanelInv /\ RowsApart /\ RowsApart' /\ SequentialInv(w) /\ [Next]_vars
      => [L!LifecycleNext]_(L!lifecycleVars)
  BY StepImplements DEF Implements
<1>3. QED
  BY <1>1, <1>2, PanelInvariant, PanelRowsApart, SequentialInvariant, PTL
     DEF Spec, KeepsLifecycle, L!Lifecycle

------------------------------------------------------------------------------
(* Two handlers.                                                           *)

\* NoWedgedRow, without its condition.
NoneWedged ==
  \A id \in RowId :
    ActiveWithoutProfile(id) =>
      \E w \in Slot : handler[w].pc = "rollback_status" /\ handler[w].id = id

\* A handler that issues a profile, and rolls it back when it has to.
OnIssue(h) == h.pc \in {"issue_write"} \cup IssuePart /\ h.op # "revoke"

IssueOnly ==
  {"create", "create_read", "auto_issue", "set_pending", "issue_write", "issue_read",
   "issue_check"} \cup RollbackPart

RevokeOnly == {"revoke_write", "revoke_read", "revoke_check"}

\* It puts a row back to active only with the profile that it read.
Carries(h) ==
  /\ ~h.cancelled
  /\ h.pc \in IssueOnly => h.op # "revoke"
  /\ h.pc \in RevokeOnly => h.op = "revoke"
  /\ OnIssue(h) => h.prev # "active"
  /\ (h.pc = "auto_issue" /\ h.prev = "active") => h.secret # None

\* It works on the row that it read, which may be gone, but is nobody else's.
OwnRow(h) ==
  h.pc \in Step \ {"create"} =>
    h.id < nextId /\ (Exists(h.id) => users[h.id].tg = h.tg)

\* While a new row is about to be read, another handler issues its profile
\* undisturbed: nothing makes that one roll back.
Spares(w, v) ==
  LET h == handler[v]
  IN (handler[w].pc = "create_read" /\ h.id = handler[w].id /\ OnIssue(h)) =>
       /\ h.pc \notin RollbackPart
       /\ h.pc # "issue_write" =>
            HasStatus(h.id, {"active"}) /\ users[h.id].secret # None
       /\ h.pc \in {"issue_read", "issue_check"} => h.secret = users[h.id].secret
       /\ h.pc = "apply_run" => h.cand = DesiredProfiles
       /\ h.pc = "script" =>
            /\ script[v].alone /\ script[v].cand = DesiredProfiles
            /\ ~At(v, "failed")
       /\ h.pc = "health" => loaded # None

NoRestore(w) == ~At(w, "rejected") /\ ~At(w, "restore")

Tidy ==
  /\ NoneWedged
  /\ \A w \in Slot : Carries(handler[w]) /\ OwnRow(handler[w]) /\ NoRestore(w)
  /\ \A w \in Slot : \A v \in Slot \ {w} : Spares(w, v)

\* The inductive invariant, with PanelInv, SoloPanel and RowsApart.
RaceInv == faults = 0 => Tidy

------------------------------------------------------------------------------
(* One step of a handler.                                                  *)

\* Rows stay whose they are.
LEMMA RowsKeepUsers ==
  ASSUME StoreTypeOK, StoreStatement, NEW id \in RowId, id < nextId
  PROVE  id < nextId' /\ (Exists(id)' => Exists(id) /\ users'[id].tg = users[id].tg)
<1> USE DEF StoreTypeOK, Exists
<1>1. CASE \E tg \in User : CanCreate(tg) /\ CreateUser(tg)
  BY <1>1 DEF CreateUser, CanCreate, RowId
<1>2. CASE \E i \in RowId, st \in Status : Exists(i) /\ UpdateUserStatus(i, st)
  <2> PICK i \in RowId, st \in Status : Exists(i) /\ UpdateUserStatus(i, st)
    BY <1>2
  <2>1. users[i] \in Row
    BY RowTypes
  <2>2. nextId' = nextId /\ (i = id => users'[id].tg = users[id].tg)
        /\ (i # id => users'[id] = users[id])
    BY <2>1 DEF UpdateUserStatus, Row
  <2>3. QED
    BY <2>2
<1>3. CASE \E i \in RowId, s \in FreshSecret : Exists(i) /\ SetUserProfile(i, s)
  <2> PICK i \in RowId, s \in FreshSecret : Exists(i) /\ SetUserProfile(i, s)
    BY <1>3
  <2>1. users[i] \in Row
    BY RowTypes
  <2>2. nextId' = nextId /\ (i = id => users'[id].tg = users[id].tg)
        /\ (i # id => users'[id] = users[id])
    BY <2>1 DEF SetUserProfile, Row
  <2>3. QED
    BY <2>2
<1>4. CASE \E i \in RowId : Exists(i) /\ ClearUserProfile(i)
  <2> PICK i \in RowId : Exists(i) /\ ClearUserProfile(i)
    BY <1>4
  <2>1. users[i] \in Row
    BY RowTypes
  <2>2. nextId' = nextId /\ (i = id => users'[id].tg = users[id].tg)
        /\ (i # id => users'[id] = users[id])
    BY <2>1 DEF ClearUserProfile, Row
  <2>3. QED
    BY <2>2
<1>5. CASE \E i \in RowId : DeleteUser(i)
  BY <1>5 DEF DeleteUser
<1>6. CASE \/ \E i \in RowId : AppendAuditLog(i)
           \/ \E b \in BOOLEAN : SetSetting(b)
           \/ UNCHANGED storeVars
  BY <1>6 DEF AppendAuditLog, SetSetting, storeVars
<1>7. QED
  BY <1>1, <1>2, <1>3, <1>4, <1>5, <1>6 DEF StoreStatement

\* What a handler keeps when it moves on.
SameErrand(w) ==
  /\ handler'[w].op = handler[w].op /\ handler'[w].tg = handler[w].tg
  /\ handler'[w].cancelled = handler[w].cancelled

SameRow(w) ==
  /\ SameErrand(w)
  /\ handler'[w].id = handler[w].id /\ handler'[w].prev = handler[w].prev

\* An error ends an operation, or starts the rollback of an Issue.
LEMMA ErrorMoves ==
  ASSUME HandlerInv, NEW w \in Slot, handler[w].pc \in Step, Carries(handler[w]),
         OnError(w) \/ (ApplyFails(w) /\ handler[w].pc \in ApplyPart)
  PROVE  /\ SameRow(w) /\ Carries(handler'[w])
         /\ \/ handler'[w].pc \in {"audit", "done"}
            \/ handler'[w].pc = "delete_row" /\ handler[w].pc = "delete_audit"
            \/ /\ handler'[w].pc = "rollback_clear"
               /\ handler[w].pc \in ApplyPart /\ OnIssue(handler[w])
<1> DEFINE h == handler[w]
<1>0. h \in Handler /\ handler \in [Slot -> Handler]
  BY DEF HandlerInv, HandlerTypeOK
<1>1. ASSUME NEW pc, Proceed(w, pc) PROVE handler'[w].pc = pc /\ SameRow(w)
  BY <1>0, <1>1 DEF Proceed, Handler, SameRow, SameErrand
<1>2. ASSUME NEW r, Done(w, r) PROVE handler'[w].pc = "done" /\ SameRow(w)
  BY <1>0, <1>2 DEF Done, Handler, SameRow, SameErrand
<1>3. ASSUME NEW r, Audit(w, r) PROVE handler'[w].pc = "audit" /\ SameRow(w)
  BY <1>0, <1>3 DEF Audit, Handler, SameRow, SameErrand
<1>4. /\ SameRow(w)
      /\ \/ handler'[w].pc \in {"audit", "done"}
         \/ handler'[w].pc = "delete_row" /\ handler[w].pc = "delete_audit"
         \/ /\ handler'[w].pc = "rollback_clear"
            /\ handler[w].pc \in ApplyPart /\ handler[w].op # "revoke"
  <2>1. CASE ApplyFails(w) /\ handler[w].pc \in ApplyPart
    BY <1>1, <1>3, <2>1 DEF ApplyFails
  <2>2. CASE OnError(w)
    BY <1>1, <1>2, <1>3, <2>1, <2>2 DEF OnError
  <2>3. QED
    BY <2>1, <2>2
<1>5. h.pc \in ApplyPart /\ h.op # "revoke" => OnIssue(h)
  BY DEF ApplyPart, OnIssue, IssuePart, Carries, RevokeOnly
<1>6. Carries(handler'[w])
  BY <1>4, <1>5 DEF Carries, OnIssue, SameRow, SameErrand, IssueOnly, RevokeOnly,
     RollbackPart, IssuePart
<1>7. QED
  BY <1>4, <1>5, <1>6

\* The rows but one stay as they are, and that one is not left active without a
\* profile but by the first statement of a rollback.
OneRow(w, id) ==
  /\ \A i \in RowId \ {id} : users'[i] = users[i]
  /\ ActiveWithoutProfile(id)' =>
       handler'[w].pc = "rollback_status" /\ handler[w].pc = "rollback_clear"

\* A statement on the handler's own row.
LEMMA StatementMoves ==
  ASSUME StoreTypeOK, HandlerInv, NEW w \in Slot, Carries(handler[w]),
         NEW id \in RowId, id = handler[w].id, Exists(id),
         \/ /\ handler[w].pc = "set_pending" /\ Proceed(w, "pending_read")
            /\ UpdateUserStatus(id, "pending")
         \/ /\ handler[w].pc = "rollback_status" /\ Proceed(w, "rollback_read")
            /\ UpdateUserStatus(id, handler[w].prev)
         \/ /\ handler[w].pc = "revoke_write" /\ Proceed(w, "revoke_read")
            /\ UpdateUserStatus(id, "revoked")
         \/ /\ handler[w].pc = "deny_write" /\ Proceed(w, "deny_read")
            /\ UpdateUserStatus(id, "denied")
         \/ /\ handler[w].pc = "rollback_clear" /\ Proceed(w, "rollback_status")
            /\ ClearUserProfile(id)
         \/ /\ handler[w].pc = "delete_row" /\ Done(w, "ok")
            /\ DeleteUser(id)
  PROVE  /\ SameRow(w) /\ Carries(handler'[w]) /\ OneRow(w, id)
         /\ \/ handler'[w].pc \in {"pending_read", "revoke_read", "deny_read", "done"}
            \/ handler[w].pc \in RollbackPart
<1> DEFINE h == handler[w]
<1> USE DEF StoreTypeOK
<1>0. h \in Handler /\ handler \in [Slot -> Handler] /\ users[id] \in Row
  BY RowTypes, HandlerFields DEF HandlerInv, HandlerTypeOK
<1>1. ASSUME NEW pc, Proceed(w, pc)
      PROVE  handler'[w].pc = pc /\ SameRow(w) /\ handler'[w].secret = h.secret
  BY <1>0, <1>1 DEF Proceed, Handler, SameRow, SameErrand
<1>2. ASSUME NEW st, UpdateUserStatus(id, st)
      PROVE  /\ \A i \in RowId \ {id} : users'[i] = users[i]
             /\ users'[id].status = st
  BY <1>0, <1>2 DEF UpdateUserStatus, Row
<1>3. CASE \/ h.pc = "set_pending" /\ Proceed(w, "pending_read")
              /\ UpdateUserStatus(id, "pending")
           \/ h.pc = "revoke_write" /\ Proceed(w, "revoke_read")
              /\ UpdateUserStatus(id, "revoked")
           \/ h.pc = "deny_write" /\ Proceed(w, "deny_read")
              /\ UpdateUserStatus(id, "denied")
  <2>1. /\ handler'[w].pc \in {"pending_read", "revoke_read", "deny_read"}
        /\ handler'[w].pc = "revoke_read" => h.op = "revoke"
        /\ SameRow(w) /\ \A i \in RowId \ {id} : users'[i] = users[i]
        /\ users'[id].status # "active"
    BY <1>1, <1>2, <1>3 DEF Carries, RevokeOnly
  <2>2. Carries(handler'[w])
    BY <2>1 DEF Carries, OnIssue, SameRow, SameErrand, IssueOnly, RevokeOnly,
       RollbackPart, IssuePart
  <2>3. QED
    BY <2>1, <2>2 DEF OneRow, ActiveWithoutProfile, HasStatus
<1>4. CASE h.pc = "rollback_status" /\ Proceed(w, "rollback_read")
           /\ UpdateUserStatus(id, h.prev)
  <2>1. OnIssue(h) /\ h.prev # "active"
    BY <1>4 DEF Carries, OnIssue, IssueOnly, IssuePart, RollbackPart
  <2>2. /\ handler'[w].pc = "rollback_read" /\ SameRow(w)
        /\ \A i \in RowId \ {id} : users'[i] = users[i]
        /\ users'[id].status # "active"
    BY <1>1, <1>2, <1>4, <2>1
  <2>3. Carries(handler'[w])
    BY <2>1, <2>2 DEF Carries, OnIssue, SameRow, SameErrand, IssueOnly, RevokeOnly,
       RollbackPart, IssuePart
  <2>4. QED
    BY <1>4, <2>2, <2>3 DEF OneRow, ActiveWithoutProfile, HasStatus, RollbackPart
<1>5. CASE h.pc = "rollback_clear" /\ Proceed(w, "rollback_status")
           /\ ClearUserProfile(id)
  <2>1. OnIssue(h) /\ h.prev # "active" /\ h.op # "revoke"
    BY <1>5 DEF Carries, OnIssue, IssueOnly, IssuePart, RollbackPart
  <2>2. /\ handler'[w].pc = "rollback_status" /\ SameRow(w)
        /\ \A i \in RowId \ {id} : users'[i] = users[i]
    BY <1>1, <1>5 DEF ClearUserProfile
  <2>3. Carries(handler'[w])
    BY <2>1, <2>2 DEF Carries, OnIssue, SameRow, SameErrand, IssueOnly, RevokeOnly,
       RollbackPart, IssuePart
  <2>4. QED
    BY <1>5, <2>2, <2>3 DEF OneRow, RollbackPart
<1>6. CASE h.pc = "delete_row" /\ Done(w, "ok") /\ DeleteUser(id)
  <2>1. handler'[w].pc = "done" /\ SameRow(w)
    BY <1>0, <1>6 DEF Done, Handler, SameRow, SameErrand
  <2>2. users'[id] = None /\ \A i \in RowId \ {id} : users'[i] = users[i]
    BY <1>0, <1>6 DEF DeleteUser
  <2>3. Carries(handler'[w])
    BY <2>1 DEF Carries, OnIssue, SameRow, SameErrand, IssueOnly, RevokeOnly,
       RollbackPart, IssuePart
  <2>4. QED
    BY <2>1, <2>2, <2>3 DEF OneRow, ActiveWithoutProfile, HasStatus, Exists
<1>7. QED
  BY <1>3, <1>4, <1>5, <1>6

\* What a step of the service does to its handler and to the rows.
Created(w) ==
  /\ handler[w].pc = "create" /\ handler'[w].pc = "create_read"
  /\ \E new \in RowId :
       /\ new = nextId /\ nextId' = new + 1 /\ handler'[w].id = new
       /\ OneRow(w, new)
       /\ users'[new].tg = handler[w].tg

Issued(w, id) ==
  /\ handler[w].pc = "issue_write" /\ handler'[w].pc = "issue_read"
  /\ SameRow(w) /\ OneRow(w, id)
  /\ HasStatus(id, {"active"})'
  /\ users'[id].secret = handler'[w].secret /\ handler'[w].secret # None

Stated(w, id) ==
  /\ SameRow(w) /\ OneRow(w, id)
  /\ handler[w].pc # "create" /\ handler'[w].pc # "create_read"
  /\ \/ handler'[w].pc \in {"pending_read", "revoke_read", "deny_read", "done"}
     \/ handler[w].pc \in RollbackPart

GoesOn(w, id) ==
  /\ users' = users /\ SameErrand(w) /\ handler'[w].id = id
  /\ handler[w].pc = "rollback_status" => ~Exists(id)
  /\ handler[w].pc = "create" => handler'[w].pc = "done"
  /\ handler'[w].pc # "create_read"
  /\ \/ handler'[w].pc \notin IssuePart \/ handler'[w].op = "revoke"
     \/ /\ handler[w].pc = "issue_read" /\ handler'[w].pc = "issue_check"
        /\ handler'[w].secret = handler[w].secret
     \/ handler[w].pc = "issue_check" /\ handler'[w].pc = "apply_list"
     \/ handler[w].pc \in RollbackPart
     \/ /\ handler[w].pc = "issue_check"
        /\ ~\E i \in RowsOf(handler[w].tg) :
              users[i].status = "active" /\ users[i].secret = handler[w].secret

\* Each step of the service is one of them.
LEMMA ServiceMoves ==
  ASSUME StoreTypeOK, HandlerInv, NEW w \in Slot, Carries(handler[w]), ServiceStep(w),
         NEW id \in RowId, id = handler[w].id,
         handler[w].pc = "create_read" => ~ActiveWithoutProfile(id)
  PROVE  /\ SameErrand(w) /\ Carries(handler'[w])
         /\ Created(w) \/ Issued(w, id) \/ Stated(w, id) \/ GoesOn(w, id)
<1> DEFINE h == handler[w]
           Good == /\ SameErrand(w) /\ Carries(handler'[w])
                   /\ Created(w) \/ Issued(w, id) \/ Stated(w, id) \/ GoesOn(w, id)
<1>0. h \in Handler /\ handler \in [Slot -> Handler]
  BY DEF HandlerInv, HandlerTypeOK
<1>1. ASSUME NEW pc, Proceed(w, pc)
      PROVE  handler'[w].pc = pc /\ SameRow(w) /\ handler'[w].secret = h.secret
  BY <1>0, <1>1 DEF Proceed, Handler, SameRow, SameErrand
<1>2. ASSUME NEW r, Done(w, r) \/ Audit(w, r)
      PROVE  handler'[w].pc \in {"done", "audit"} /\ SameRow(w)
  BY <1>0, <1>2 DEF Done, Audit, Handler, SameRow, SameErrand
<1>3. ASSUME StepRefused(w), h.pc \in Step \ Applying,
             h.pc = "rollback_status" => ~Exists(id),
             h.pc = "issue_check" =>
               ~\E i \in RowsOf(h.tg) :
                   users[i].status = "active" /\ users[i].secret = h.secret
      PROVE  Good
  <2>1. /\ SameRow(w) /\ Carries(handler'[w])
        /\ \/ handler'[w].pc \in {"audit", "done"}
           \/ handler'[w].pc = "delete_row" /\ h.pc = "delete_audit"
           \/ /\ handler'[w].pc = "rollback_clear"
              /\ h.pc \in ApplyPart /\ OnIssue(h)
    BY <1>3, ErrorMoves DEF StepRefused
  <2>2. users' = users
    BY <1>3 DEF StepRefused, Unchanged, storeVars
  <2>3. h.pc \in ApplyPart /\ OnIssue(h) => h.pc = "issue_check"
    BY <1>3 DEF ApplyPart, OnIssue, IssuePart, Applying
  <2>4. handler'[w].pc \in {"audit", "done", "delete_row"} \/ h.pc = "issue_check"
    BY <2>1, <2>3
  <2>7. h.pc = "create" => handler'[w].pc = "done"
    BY <1>0, <1>3 DEF StepRefused, OnError, Done, ApplyPart, RollbackPart, PendingPart,
       AuditPart, Handler
  <2>5. GoesOn(w, id)
    BY <1>3, <2>1, <2>2, <2>4, <2>7 DEF GoesOn, SameRow, SameErrand, IssuePart
  <2>6. QED
    BY <2>1, <2>5 DEF SameRow
<1>4. ASSUME users' = users, SameRow(w), h.pc \notin {"create", "rollback_status"},
             \/ handler'[w].pc \in {"done", "audit", "set_pending", "issue_write",
                                    "delete_row"}
             \/ handler'[w].pc \in {"revoke_check", "apply_list"} /\ h.pc \in RevokeOnly,
             handler'[w].pc = "issue_write" => h.op # "revoke" /\ h.prev # "active",
             handler'[w].pc = "set_pending" => h.op # "revoke"
      PROVE  Good
  <2>1. h.pc \in RevokeOnly => h.op = "revoke"
    BY DEF Carries
  <2>2. SameErrand(w) /\ Carries(handler'[w])
    BY <1>4, <2>1 DEF Carries, OnIssue, SameRow, SameErrand, IssueOnly, RevokeOnly,
       RollbackPart, IssuePart
  <2>3. handler'[w].pc \notin IssuePart \/ handler'[w].op = "revoke"
    BY <1>4, <2>1 DEF SameRow, SameErrand, IssuePart
  <2>4. GoesOn(w, id)
    BY <1>4, <2>2, <2>3 DEF GoesOn, SameRow
  <2>5. QED
    BY <2>2, <2>4
<1>5. ASSUME Unchanged PROVE users' = users
  BY <1>5 DEF Unchanged, storeVars
<1>6. CASE CreateStep(w)
  <2>1. h.pc = "create"
    BY <1>6 DEF CreateStep, Serving
  <2>2. CASE StepRefused(w)
    BY <1>3, <2>1, <2>2 DEF Step, Applying
  <2>3. CASE ~StepRefused(w)
    <3>1. /\ CanCreate(h.tg) /\ CreateUser(h.tg)
          /\ handler' = [handler EXCEPT ![w].pc = "create_read", ![w].id = nextId]
      BY <1>6, <2>3 DEF CreateStep
    <3>2. PICK new \in RowId : new = nextId
      BY <3>1 DEF CanCreate
    <3>3. /\ handler'[w].pc = "create_read" /\ handler'[w].id = new
          /\ SameErrand(w)
      BY <1>0, <3>1, <3>2 DEF Handler, SameErrand
    <3>4. /\ users'[new] = [tg |-> h.tg, status |-> "pending", secret |-> None]
          /\ \A i \in RowId \ {new} : users'[i] = users[i]
          /\ nextId' = new + 1
      BY <3>1, <3>2 DEF CreateUser, StoreTypeOK
    <3>5. OneRow(w, new) /\ users'[new].tg = h.tg
      BY <3>4 DEF OneRow, ActiveWithoutProfile, HasStatus
    <3>6. Carries(handler'[w])
      BY <2>1, <3>3 DEF Carries, OnIssue, SameErrand, IssueOnly, RevokeOnly,
         RollbackPart, IssuePart
    <3>7. QED
      BY <2>1, <3>2, <3>3, <3>4, <3>5, <3>6 DEF Created
  <2>4. QED
    BY <2>2, <2>3
<1>7. CASE CreateRead(w)
  <2>1. h.pc = "create_read"
    BY <1>7 DEF CreateRead, Serving
  <2>2. CASE StepRefused(w)
    BY <1>3, <2>1, <2>2 DEF Step, Applying
  <2>3. CASE ~StepRefused(w)
    <3>1. /\ Exists(id) /\ Unchanged
          /\ handler' = [handler EXCEPT ![w].pc = "auto_issue",
                                        ![w].prev = users[id].status,
                                        ![w].secret = users[id].secret]
      BY <1>7, <2>3 DEF CreateRead
    <3>2. /\ handler'[w].pc = "auto_issue" /\ handler'[w].id = id /\ SameErrand(w)
          /\ handler'[w].prev = users[id].status
          /\ handler'[w].secret = users[id].secret
      BY <1>0, <3>1 DEF Handler, SameErrand
    <3>3. users[id].status = "active" => users[id].secret # None
      BY <2>1, <3>1 DEF ActiveWithoutProfile, HasStatus
    <3>4. Carries(handler'[w])
      BY <2>1, <3>2, <3>3 DEF Carries, OnIssue, SameErrand, IssueOnly, RevokeOnly,
         RollbackPart, IssuePart
    <3>5. GoesOn(w, id)
      BY <1>5, <2>1, <3>1, <3>2 DEF GoesOn, IssuePart
    <3>6. QED
      BY <3>2, <3>4, <3>5
  <2>4. QED
    BY <2>2, <2>3
<1>8. CASE AutoIssueStep(w)
  <2>1. h.pc = "auto_issue" /\ Unchanged
    BY <1>8 DEF AutoIssueStep, Serving
  <2>2. /\ h.op # "revoke" /\ (h.prev = "active" => h.secret # None)
    BY <2>1 DEF Carries, IssueOnly
  <2>3. \/ Done(w, "ok")
        \/ Proceed(w, "issue_write") /\ h.prev # "active"
        \/ Proceed(w, "set_pending")
    BY <1>8, <2>2 DEF AutoIssueStep
  <2>4. QED
    BY <1>1, <1>2, <1>4, <1>5, <2>1, <2>2, <2>3
<1>9. CASE IssueWrite(w)
  <2>1. h.pc = "issue_write"
    BY <1>9 DEF IssueWrite, Serving
  <2>2. CASE StepRefused(w)
    BY <1>3, <2>1, <2>2 DEF Step, Applying
  <2>3. CASE ~StepRefused(w)
    <3>1. PICK s \in FreshSecret :
            /\ Exists(id) /\ SetUserProfile(id, s)
            /\ handler' = [handler EXCEPT ![w].pc = "issue_read", ![w].secret = s]
      BY <1>9, <2>3 DEF IssueWrite
    <3>2. handler'[w].pc = "issue_read" /\ SameRow(w) /\ handler'[w].secret = s
      BY <1>0, <3>1 DEF Handler, SameRow, SameErrand
    <3>3. users[id] \in Row
      BY <3>1, RowTypes
    <3>4. /\ users'[id] = [users[id] EXCEPT !.status = "active", !.secret = s]
          /\ \A i \in RowId \ {id} : users'[i] = users[i]
      BY <3>1, <3>3 DEF SetUserProfile, StoreTypeOK, Row
    <3>5. /\ users'[id].status = "active" /\ users'[id].secret = s
          /\ users'[id] \in Row
      BY <3>3, <3>4 DEF Row, Status, FreshSecret
    <3>6. s # None
      BY ProfileAssumption DEF FreshSecret
    <3>7. HasStatus(id, {"active"})' /\ ~ActiveWithoutProfile(id)'
      BY <3>5, <3>6, StoreAssumption DEF HasStatus, Exists, ActiveWithoutProfile
    <3>8. Carries(handler'[w])
      BY <2>1, <3>2 DEF Carries, OnIssue, SameRow, SameErrand, IssueOnly, RevokeOnly,
         RollbackPart, IssuePart
    <3>9. Issued(w, id)
      BY <2>1, <3>2, <3>4, <3>5, <3>6, <3>7 DEF Issued, OneRow
    <3>10. QED
      BY <3>2, <3>8, <3>9 DEF SameRow
  <2>4. QED
    BY <2>2, <2>3
<1>10. CASE IssueRead(w)
  <2>1. h.pc = "issue_read"
    BY <1>10 DEF IssueRead, Serving
  <2>2. CASE StepRefused(w)
    BY <1>3, <2>1, <2>2 DEF Step, Applying
  <2>3. CASE ~StepRefused(w)
    <3>1. Proceed(w, "issue_check") /\ Unchanged
      BY <1>10, <2>3 DEF IssueRead
    <3>2. /\ handler'[w].pc = "issue_check" /\ SameRow(w)
          /\ handler'[w].secret = h.secret /\ users' = users
      BY <1>1, <1>5, <3>1
    <3>3. Carries(handler'[w])
      BY <2>1, <3>2 DEF Carries, OnIssue, SameRow, SameErrand, IssueOnly, RevokeOnly,
         RollbackPart, IssuePart
    <3>4. GoesOn(w, id)
      BY <2>1, <3>2 DEF GoesOn, SameRow
    <3>5. QED
      BY <3>2, <3>3, <3>4 DEF SameRow
  <2>4. QED
    BY <2>2, <2>3
<1>11. CASE IssueCheck(w)
  <2>1. h.pc = "issue_check"
    BY <1>11 DEF IssueCheck, Serving
  <2>2. CASE \E i \in RowsOf(h.tg) : users[i].status = "active" /\ users[i].secret = h.secret
    <3>1. /\ handler' = [handler EXCEPT ![w].pc = "apply_list", ![w].secret = None]
          /\ Unchanged
      BY <1>11, <2>2 DEF IssueCheck
    <3>2. handler'[w].pc = "apply_list" /\ SameRow(w) /\ users' = users
      BY <1>0, <1>5, <3>1 DEF Handler, SameRow, SameErrand
    <3>3. Carries(handler'[w])
      BY <2>1, <3>2 DEF Carries, OnIssue, SameRow, SameErrand, IssueOnly, RevokeOnly,
         RollbackPart, IssuePart
    <3>4. GoesOn(w, id)
      BY <2>1, <3>2 DEF GoesOn, SameRow
    <3>5. QED
      BY <3>2, <3>3, <3>4 DEF SameRow
  <2>3. CASE ~\E i \in RowsOf(h.tg) : users[i].status = "active" /\ users[i].secret = h.secret
    <3>1. StepRefused(w)
      BY <1>11, <2>3 DEF IssueCheck
    <3>2. QED
      BY <1>3, <2>1, <2>3, <3>1 DEF Step, Applying
  <2>4. QED
    BY <2>2, <2>3
<1>12. CASE \/ SetPendingStep(w) \/ RollbackStatus(w) \/ RevokeWrite(w) \/ DenyWrite(w)
            \/ RollbackClear(w) \/ DeleteRow(w)
  <2>1. h.pc \in {"set_pending", "rollback_status", "revoke_write", "deny_write",
                  "rollback_clear", "delete_row"}
    BY <1>12 DEF SetPendingStep, RollbackStatus, RevokeWrite, DenyWrite, RollbackClear,
       DeleteRow, Serving
  <2>2. CASE Exists(id)
    <3>1. \/ /\ h.pc = "set_pending" /\ Proceed(w, "pending_read")
             /\ UpdateUserStatus(id, "pending")
          \/ /\ h.pc = "rollback_status" /\ Proceed(w, "rollback_read")
             /\ UpdateUserStatus(id, h.prev)
          \/ /\ h.pc = "revoke_write" /\ Proceed(w, "revoke_read")
             /\ UpdateUserStatus(id, "revoked")
          \/ /\ h.pc = "deny_write" /\ Proceed(w, "deny_read")
             /\ UpdateUserStatus(id, "denied")
          \/ /\ h.pc = "rollback_clear" /\ Proceed(w, "rollback_status")
             /\ ClearUserProfile(id)
          \/ /\ h.pc = "delete_row" /\ Done(w, "ok")
             /\ DeleteUser(id)
      BY <1>12, <2>2 DEF SetPendingStep, RollbackStatus, RevokeWrite, DenyWrite,
         RollbackClear, DeleteRow, Serving
    <3>2. /\ SameRow(w) /\ Carries(handler'[w]) /\ OneRow(w, id)
          /\ \/ handler'[w].pc \in {"pending_read", "revoke_read", "deny_read", "done"}
             \/ h.pc \in RollbackPart
      BY <2>2, <3>1, StatementMoves
    <3>3. handler'[w].pc # "create_read"
      BY <1>1, <1>2, <3>1
    <3>4. QED
      BY <2>1, <3>2, <3>3 DEF Stated, SameRow
  <2>3. CASE ~Exists(id)
    <3>1. StepRefused(w)
      BY <1>12, <2>3 DEF SetPendingStep, RollbackStatus, RevokeWrite, DenyWrite,
         RollbackClear, DeleteRow
    <3>2. QED
      BY <1>3, <2>1, <2>3, <3>1 DEF Step, Applying
  <2>4. QED
    BY <2>2, <2>3
<1>13. CASE \/ PendingRead(w) \/ RollbackRead(w) \/ RevokeRead(w) \/ RevokeCheck(w)
            \/ DenyRead(w)
  <2>1. h.pc \in {"pending_read", "rollback_read", "revoke_read", "revoke_check",
                  "deny_read"}
    BY <1>13 DEF PendingRead, RollbackRead, RevokeRead, RevokeCheck, DenyRead, Serving
  <2>2. CASE StepRefused(w)
    BY <1>3, <2>1, <2>2 DEF Step, Applying
  <2>3. CASE ~StepRefused(w)
    <3>1. /\ Unchanged
          /\ \/ Done(w, "ok") \/ Audit(w, "issue_failed") \/ Audit(w, "ok")
             \/ Proceed(w, "revoke_check") /\ h.pc \in RevokeOnly
             \/ Proceed(w, "apply_list") /\ h.pc \in RevokeOnly
      BY <1>13, <2>3 DEF PendingRead, RollbackRead, RevokeRead, RevokeCheck, DenyRead,
         Serving, RevokeOnly
    <3>2. QED
      BY <1>1, <1>2, <1>4, <1>5, <2>1, <3>1
  <2>4. QED
    BY <2>2, <2>3
<1>14. CASE DeleteAudit(w) \/ AuditStep(w)
  <2>1. /\ h.pc \in {"delete_audit", "audit"} /\ users' = users
        /\ Proceed(w, "delete_row") \/ Proceed(w, "done")
    BY <1>14 DEF DeleteAudit, AuditStep, AppendAuditLog, Serving
  <2>2. QED
    BY <1>1, <1>4, <2>1
<1>15. QED
  BY <1>6, <1>7, <1>8, <1>9, <1>10, <1>11, <1>12, <1>13, <1>14 DEF ServiceStep

TwoSlots == \A u, v, w \in Slot : u = v \/ u = w \/ v = w

\* A handler does not find a row without a profile when it reads it back: that
\* row would be another handler's to roll back.
LEMMA CreatedRowIsWhole ==
  ASSUME Tidy, HandlerInv, NEW w \in Slot, handler[w].pc = "create_read",
         NEW id \in RowId, id = handler[w].id
  PROVE  ~ActiveWithoutProfile(id)
<1> SUFFICES ASSUME ActiveWithoutProfile(id) PROVE FALSE
  OBVIOUS
<1>1. PICK v \in Slot : handler[v].pc = "rollback_status" /\ handler[v].id = id
  BY DEF Tidy, NoneWedged
<1>2. v # w /\ OnIssue(handler[v])
  BY <1>1 DEF Tidy, Carries, OnIssue, IssueOnly, RollbackPart, IssuePart
<1>3. handler[v].pc \notin RollbackPart
  BY <1>1, <1>2 DEF Tidy, Spares
<1>4. QED
  BY <1>1, <1>3 DEF RollbackPart

\* A statement of one handler does not make another one roll back a row that is
\* being read, and every row it clears is put back by itself.
LEMMA ServiceStaysTidy ==
  ASSUME TwoSlots, PanelInv, Tidy, NEW m \in Slot, ServiceStep(m)
  PROVE  Tidy'
<1> USE DEF PanelInv, TypeOK
<1> DEFINE h == handler[m]
<1>0. PICK id \in RowId : id = h.id
  BY HandlerFields
<1>1. PanelInv1 /\ StoreTypeOK /\ HandlerInv /\ nextId \in Nat
  BY DEF PanelInv1, StoreTypeOK, StoreAssumption
<1>2. StoreStatement /\ UNCHANGED hostVars
  BY <1>1, ServiceKeepsHandlers
<1>3. \A v \in Slot \ {m} : handler'[v] = handler[v]
  BY <1>1, ProgressMovesOne
<1>4. Carries(h) /\ OwnRow(h)
  BY DEF Tidy
<1>5. /\ SameErrand(m) /\ Carries(handler'[m])
      /\ Created(m) \/ Issued(m, id) \/ Stated(m, id) \/ GoesOn(m, id)
  BY <1>0, <1>1, <1>4, CreatedRowIsWhole, ServiceMoves
<1>6. NoneWedged'
  <2> SUFFICES ASSUME NEW i \in RowId, ActiveWithoutProfile(i)'
               PROVE  \E w \in Slot : handler'[w].pc = "rollback_status" /\ handler'[w].id = i
    BY DEF NoneWedged
  <2>1. CASE handler[m].pc = "rollback_clear" /\ handler'[m].pc = "rollback_status"
             /\ handler'[m].id = i
    BY <2>1
  <2>2. CASE ~(handler[m].pc = "rollback_clear" /\ handler'[m].pc = "rollback_status"
               /\ handler'[m].id = i)
    <3>1. /\ users'[i] = users[i]
          /\ handler[m].pc = "rollback_status" => handler[m].id # i \/ ~Exists(i)
      BY <1>0, <1>5, <2>2 DEF Created, Issued, Stated, GoesOn, OneRow, SameRow
    <3>2. ActiveWithoutProfile(i)
      BY <3>1 DEF ActiveWithoutProfile, HasStatus, Exists
    <3>3. PICK w \in Slot : handler[w].pc = "rollback_status" /\ handler[w].id = i
      BY <3>2 DEF Tidy, NoneWedged
    <3>4. w # m
      BY <3>1, <3>2, <3>3 DEF ActiveWithoutProfile, HasStatus
    <3>5. QED
      BY <1>3, <3>3, <3>4
  <2>3. QED
    BY <2>1, <2>2
<1>7. \A w \in Slot : OwnRow(handler[w])'
  <2>1. ASSUME NEW w \in Slot, NEW i \in RowId, i = handler[w].id,
               handler[w].pc \in Step \ {"create"}
        PROVE  i < nextId' /\ (Exists(i)' => users'[i].tg = handler[w].tg)
    <3>1. OwnRow(handler[w])
      BY DEF Tidy
    <3>2. QED
      BY <1>1, <1>2, <2>1, <3>1, RowsKeepUsers DEF OwnRow
  <2>2. ASSUME NEW w \in Slot \ {m} PROVE OwnRow(handler[w])'
    <3>1. PICK i \in RowId : i = handler[w].id
      BY <1>1, HandlerFields
    <3>2. QED
      BY <1>3, <2>1, <3>1 DEF OwnRow, Exists
  <2>3. OwnRow(handler[m])'
    <3>1. CASE Created(m)
      <4>1. PICK new \in RowId : /\ nextId' = new + 1 /\ handler'[m].id = new
                                 /\ users'[new].tg = h.tg
        BY <3>1 DEF Created
      <4>2. QED
        BY <1>5, <4>1 DEF OwnRow, SameErrand, RowId, Exists
    <3>2. CASE Issued(m, id) \/ Stated(m, id) \/ GoesOn(m, id)
      <4>1. handler'[m].id = id /\ handler'[m].tg = h.tg
        BY <1>0, <3>2 DEF Issued, Stated, GoesOn, SameRow, SameErrand
      <4>2. h.pc \in Step
        BY <1>1, ProgressMovesOne
      <4>3. h.pc # "create" \/ handler'[m].pc \notin Step
        BY <3>2 DEF Issued, Stated, GoesOn, Step
      <4>4. QED
        BY <1>0, <2>1, <4>1, <4>2, <4>3 DEF OwnRow, Exists
    <3>3. QED
      BY <1>5, <3>1, <3>2
  <2>4. QED
    BY <2>2, <2>3
<1>8. ASSUME NEW o \in Slot \ {m} PROVE Spares(m, o)'
  <2>1. ASSUME handler'[m].pc = "create_read", handler'[o].id = handler'[m].id,
               OnIssue(handler'[o])
        PROVE  FALSE
    <3>1. PICK new \in RowId : new = nextId /\ handler'[m].id = new
      BY <1>5, <2>1 DEF Created, Issued, Stated, GoesOn
    <3>2. handler[o].id = nextId /\ handler[o].pc \in Step \ {"create"}
      BY <1>3, <2>1, <3>1 DEF OnIssue, IssuePart, Step
    <3>3. QED
      BY <1>1, <3>2 DEF Tidy, OwnRow
  <2>2. QED
    BY <2>1 DEF Spares
<1>9. ASSUME NEW o \in Slot \ {m} PROVE Spares(o, m)'
  <2> SUFFICES ASSUME handler[o].pc = "create_read", handler'[m].id = handler[o].id,
                      OnIssue(handler'[m])
               PROVE  Spares(o, m)'
    BY <1>3 DEF Spares
  <2>1. ~Created(m) /\ handler'[m].id = id
    BY <1>0, <1>5 DEF Created, Issued, Stated, GoesOn, SameRow, OnIssue, IssuePart
  <2>2. h.op # "revoke" /\ handler[o].id = h.id
    BY <1>0, <1>5, <2>1 DEF OnIssue, SameErrand
  <2>3. OnIssue(h) =>
          /\ h.pc \notin RollbackPart
          /\ h.pc \in {"issue_read", "issue_check"} =>
               HasStatus(id, {"active"}) /\ users[id].secret # None
               /\ h.secret = users[id].secret
    BY <1>0, <2>2 DEF Tidy, Spares
  <2>4. h.pc \notin RollbackPart
    BY <2>2, <2>3 DEF OnIssue, IssuePart, RollbackPart
  <2>5. ~(h.pc = "issue_check"
          /\ ~\E i \in RowsOf(h.tg) : users[i].status = "active" /\ users[i].secret = h.secret)
    <3> SUFFICES ASSUME h.pc = "issue_check"
                 PROVE  \E i \in RowsOf(h.tg) : users[i].status = "active"
                                                /\ users[i].secret = h.secret
      OBVIOUS
    <3>1. HasStatus(id, {"active"}) /\ h.secret = users[id].secret
      BY <2>2, <2>3 DEF OnIssue, IssuePart
    <3>2. id \in RowsOf(h.tg)
      BY <1>0, <1>4, <3>1 DEF OwnRow, Step, RowsOf, HasStatus
    <3>3. QED
      BY <3>1, <3>2 DEF HasStatus
  <2>6. CASE Issued(m, id)
    <3>1. /\ handler'[m].pc = "issue_read" /\ HasStatus(id, {"active"})'
          /\ users'[id].secret = handler'[m].secret /\ handler'[m].secret # None
      BY <2>6 DEF Issued
    <3>2. QED
      BY <2>1, <3>1 DEF Spares, RollbackPart, HasStatus, Exists
  <2>7. CASE ~Issued(m, id)
    <3>1. \/ handler'[m].pc = "issue_write"
          \/ /\ users' = users
             /\ h.pc = "issue_read" /\ handler'[m].pc = "issue_check"
             /\ handler'[m].secret = h.secret
          \/ /\ users' = users
             /\ h.pc = "issue_check" /\ handler'[m].pc = "apply_list"
      BY <1>5, <2>1, <2>4, <2>5, <2>7 DEF Stated, GoesOn, OnIssue, IssuePart
    <3>2. CASE handler'[m].pc = "issue_write"
      BY <3>2 DEF Spares, RollbackPart
    <3>3. CASE handler'[m].pc # "issue_write"
      <4>1. /\ HasStatus(id, {"active"}) /\ users[id].secret # None
            /\ h.secret = users[id].secret
        BY <2>2, <2>3, <3>1, <3>3 DEF OnIssue, IssuePart
      <4>2. QED
        BY <2>1, <3>1, <3>3, <4>1 DEF Spares, RollbackPart, HasStatus, Exists
    <3>4. QED
      BY <3>2, <3>3
  <2>8. QED
    BY <2>6, <2>7
<1>10. \A w \in Slot : NoRestore(w)'
  BY <1>2 DEF Tidy, NoRestore, At, hostVars
<1>11. \A w \in Slot : Carries(handler'[w])
  BY <1>3, <1>5 DEF Tidy
<1>12. \A w \in Slot : \A v \in Slot \ {w} : Spares(w, v)'
  BY <1>8, <1>9 DEF TwoSlots
<1>13. QED
  <2>1. \A w \in Slot : Carries(handler[w])' /\ OwnRow(handler[w])'
    BY <1>7, <1>11 DEF Carries, OwnRow, OnIssue
  <2>2. QED
    BY <1>6, <1>10, <1>12, <2>1 DEF Tidy

\* What a step of apply does to its handler, and to its run of the script.
Lists(w) ==
  /\ handler[w].pc = "apply_list" /\ handler'[w].pc = "apply_run"
  /\ handler'[w].cand = DesiredProfiles
  /\ script' = script

Runs(w) ==
  /\ handler[w].pc = "apply_run" /\ handler'[w].pc = "script"
  /\ StartScript(w, handler[w].cand)

Waits(w) ==
  /\ handler[w].pc = "script" /\ handler'[w].pc = "health"
  /\ At(w, "ok")

GivesUp(w) ==
  /\ handler'[w].pc \in {"audit", "rollback_clear"}
  /\ \/ handler[w].pc = "apply_list" /\ \E id \in RowId : ActiveWithoutProfile(id)
     \/ handler[w].pc = "script" /\ ~At(w, "ok")
     \/ handler[w].pc = "health" /\ loaded = None

LEMMA ApplyMoves ==
  ASSUME PanelInv, NEW w \in Slot, Carries(handler[w]), ApplyStep(w), faults' = faults
  PROVE  /\ SameRow(w) /\ Carries(handler'[w])
         /\ handler[w].pc \in Applying
         /\ Lists(w) \/ Runs(w) \/ Waits(w) \/ GivesUp(w) \/ handler'[w].pc = "audit"
         /\ UNCHANGED <<storeVars, loaded>>
         /\ \/ script' = script
            \/ \E c : StartScript(w, c)
            \/ ReapScript(w)
<1> USE DEF PanelInv, TypeOK
<1> DEFINE h == handler[w]
<1>0. h \in Handler /\ handler \in [Slot -> Handler]
  BY DEF HandlerInv, HandlerTypeOK
<1>1. ASSUME NEW pc, Proceed(w, pc)
      PROVE  handler'[w].pc = pc /\ SameRow(w)
  BY <1>0, <1>1 DEF Proceed, Handler, SameRow, SameErrand
<1>2. ASSUME NEW r, Audit(w, r)
      PROVE  handler'[w].pc = "audit" /\ SameRow(w)
  BY <1>0, <1>2 DEF Audit, Handler, SameRow, SameErrand
<1>3. ASSUME SameRow(w), h.pc \in Applying,
             handler'[w].pc \in Applying \cup {"audit", "rollback_clear"},
             handler'[w].pc = "rollback_clear" => h.op # "revoke"
      PROVE  Carries(handler'[w])
  BY <1>3 DEF Carries, OnIssue, SameRow, SameErrand, IssueOnly, RevokeOnly,
     RollbackPart, IssuePart, Applying
<1>4. ASSUME ApplyFails(w), h.pc \in Applying
      PROVE  /\ SameRow(w) /\ Carries(handler'[w])
             /\ handler'[w].pc \in {"audit", "rollback_clear"}
  BY <1>1, <1>2, <1>3, <1>4 DEF ApplyFails
<1>5. ASSUME Unchanged
      PROVE  UNCHANGED <<storeVars, loaded>> /\ script' = script
  BY <1>5 DEF Unchanged, hostVars
<1>6. CASE ApplyList(w)
  <2>1. h.pc = "apply_list"
    BY <1>6 DEF ApplyList, Serving
  <2>2. CASE \E id \in RowId : ActiveWithoutProfile(id)
    <3>1. ApplyFails(w) /\ Unchanged
      BY <1>6, <2>1, <2>2
         DEF ApplyList, StepRefused, OnError, RollbackPart, PendingPart, AuditPart, ApplyPart
    <3>2. QED
      BY <1>4, <1>5, <2>1, <2>2, <3>1 DEF GivesUp, Applying
  <2>3. CASE ~\E id \in RowId : ActiveWithoutProfile(id)
    <3>1. /\ handler' = [handler EXCEPT ![w].pc = "apply_run", ![w].cand = DesiredProfiles]
          /\ Unchanged
      BY <1>6, <2>3 DEF ApplyList
    <3>2. /\ handler'[w].pc = "apply_run" /\ handler'[w].cand = DesiredProfiles
          /\ SameRow(w)
      BY <1>0, <3>1 DEF Handler, SameRow, SameErrand
    <3>3. QED
      BY <1>3, <1>5, <2>1, <3>1, <3>2 DEF Lists, Applying
  <2>4. QED
    BY <2>2, <2>3
<1>7. CASE ApplyRun(w)
  <2>1. /\ h.pc = "apply_run" /\ StartScript(w, h.cand) /\ UNCHANGED storeVars
        /\ handler' = [handler EXCEPT ![w].pc = "script", ![w].cand = {}]
    BY <1>7 DEF ApplyRun, Serving
  <2>2. handler'[w].pc = "script" /\ SameRow(w)
    BY <1>0, <2>1 DEF Handler, SameRow, SameErrand
  <2>3. UNCHANGED <<storeVars, loaded>>
    BY <2>1 DEF StartScript, hostFiles
  <2>4. QED
    BY <1>3, <2>1, <2>2, <2>3 DEF Runs, Applying
<1>8. CASE ScriptReturns(w)
  <2>1. h.pc = "script" /\ ~h.cancelled /\ ReapScript(w) /\ UNCHANGED <<storeVars, loaded>>
    BY <1>8 DEF ScriptReturns, ReapScript, hostFiles, Carries
  <2>2. CASE At(w, "ok")
    <3>1. Proceed(w, "health")
      BY <1>8, <2>1, <2>2 DEF ScriptReturns
    <3>2. QED
      BY <1>1, <1>3, <2>1, <2>2, <3>1 DEF Waits, Applying
  <2>3. CASE ~At(w, "ok")
    <3>1. ApplyFails(w)
      BY <1>8, <2>3 DEF ScriptReturns
    <3>2. QED
      BY <1>4, <2>1, <2>3, <3>1 DEF GivesUp, Applying
  <2>4. QED
    BY <2>2, <2>3
<1>9. CASE Healthy(w)
  <2>1. h.pc = "health" /\ Audit(w, "applied") /\ Unchanged
    BY <1>9 DEF Healthy, Serving
  <2>2. QED
    BY <1>2, <1>3, <1>5, <2>1 DEF Applying
<1>10. CASE Unhealthy(w)
  <2>1. /\ h.pc = "health" /\ ApplyFails(w)
        /\ UNCHANGED <<storeVars, loaded>> /\ script' = script
    BY <1>10 DEF Unhealthy, Serving, hostFiles
  <2>2. loaded = None
    BY <1>10 DEF Unhealthy, Fault, HostTypeOK
  <2>3. QED
    BY <1>4, <2>1, <2>2 DEF GivesUp, Applying
<1>11. QED
  BY <1>6, <1>7, <1>8, <1>9, <1>10 DEF ApplyStep

\* An apply that runs while another handler reads its new row is alone on the
\* host, so nothing makes it fail.
LEMMA ApplyStaysTidy ==
  ASSUME TwoSlots, PanelInv, SoloPanel, Tidy, NEW m \in Slot, ApplyStep(m),
         faults' = faults
  PROVE  Tidy'
<1> USE DEF PanelInv, TypeOK
<1> DEFINE h == handler[m]
<1>0. PICK id \in RowId : id = h.id
  BY HandlerFields
<1>1. PanelInv1 /\ Carries(h) /\ OwnRow(h) /\ script \in [Slot -> ScriptRun]
  BY DEF PanelInv1, Tidy, HostTypeOK
<1>2. /\ SameRow(m) /\ Carries(handler'[m])
      /\ h.pc \in Applying
      /\ Lists(m) \/ Runs(m) \/ Waits(m) \/ GivesUp(m) \/ handler'[m].pc = "audit"
      /\ UNCHANGED <<storeVars, loaded>>
      /\ \/ script' = script
         \/ \E c : StartScript(m, c)
         \/ ReapScript(m)
  BY <1>1, ApplyMoves
<1>3. \A v \in Slot \ {m} : handler'[v] = handler[v]
  BY <1>1, ProgressMovesOne
<1>4. UNCHANGED <<users, nextId>> /\ DesiredProfiles' = DesiredProfiles
  BY <1>2 DEF storeVars, DesiredProfiles, HasStatus, Exists
<1>5. NoneWedged'
  <2> SUFFICES ASSUME NEW i \in RowId, ActiveWithoutProfile(i)'
               PROVE  \E w \in Slot : handler'[w].pc = "rollback_status" /\ handler'[w].id = i
    BY DEF NoneWedged
  <2>1. ActiveWithoutProfile(i)
    BY <1>4 DEF ActiveWithoutProfile, HasStatus, Exists
  <2>2. PICK w \in Slot : handler[w].pc = "rollback_status" /\ handler[w].id = i
    BY <2>1 DEF Tidy, NoneWedged
  <2>3. w # m
    BY <1>2, <2>2 DEF Applying
  <2>4. QED
    BY <1>3, <2>2, <2>3
<1>6. ASSUME NEW w \in Slot PROVE Carries(handler[w])' /\ OwnRow(handler[w])'
  <2>1. Carries(handler[w]) /\ OwnRow(handler[w])
    BY DEF Tidy
  <2>2. CASE w = m
    BY <1>1, <1>2, <1>4, <2>2 DEF Carries, OnIssue, OwnRow, SameRow, SameErrand, Exists,
       Applying, Step
  <2>3. CASE w # m
    BY <1>3, <1>4, <2>1, <2>3 DEF Carries, OnIssue, OwnRow, Exists
  <2>4. QED
    BY <2>2, <2>3
<1>7. ASSUME NEW w \in Slot PROVE NoRestore(w)'
  <2>1. NoRestore(w)
    BY DEF Tidy
  <2>2. CASE script' = script
    BY <2>1, <2>2 DEF NoRestore, At
  <2>3. CASE \E c : StartScript(m, c)
    <3>1. PICK c : StartScript(m, c)
      BY <2>3
    <3>2. script'[w].pc \in {"merge", script[w].pc}
      BY <1>1, <3>1 DEF StartScript, NoScript, ScriptRun
    <3>3. QED
      BY <2>1, <3>2 DEF NoRestore, At
  <2>4. CASE ReapScript(m)
    <3>1. script'[w].pc \in {"none", script[w].pc}
      BY <1>1, <2>4 DEF ReapScript, NoScript
    <3>2. QED
      BY <2>1, <3>1 DEF NoRestore, At
  <2>5. QED
    BY <1>2, <2>2, <2>3, <2>4
<1>8. ASSUME NEW o \in Slot \ {m} PROVE Spares(m, o)'
  BY <1>2, <1>3 DEF Spares, Lists, Runs, Waits, GivesUp
<1>9. ASSUME NEW o \in Slot \ {m} PROVE Spares(o, m)'
  <2> SUFFICES ASSUME handler[o].pc = "create_read", handler'[m].id = handler[o].id,
                      OnIssue(handler'[m])
               PROVE  Spares(o, m)'
    BY <1>3 DEF Spares
  <2>1. handler'[m].id = id /\ OnIssue(h) /\ handler[o].id = id
    BY <1>0, <1>2 DEF OnIssue, SameRow, SameErrand, Applying, IssuePart
  <2>2. /\ HasStatus(id, {"active"}) /\ users[id].secret # None
        /\ h.pc = "apply_run" => h.cand = DesiredProfiles
        /\ h.pc = "script" =>
             script[m].alone /\ script[m].cand = DesiredProfiles /\ ~At(m, "failed")
        /\ h.pc = "health" => loaded # None
    BY <1>0, <1>2, <2>1 DEF Tidy, Spares, Applying
  <2>3. ~GivesUp(m)
    <3>1. ~\E i \in RowId : h.pc = "apply_list" /\ ActiveWithoutProfile(i)
      <4> SUFFICES ASSUME NEW i \in RowId, h.pc = "apply_list", ActiveWithoutProfile(i)
                   PROVE  FALSE
        OBVIOUS
      <4>1. PICK w \in Slot : handler[w].pc = "rollback_status"
        BY DEF Tidy, NoneWedged
      <4>2. w # m /\ w # o
        BY <4>1
      <4>3. QED
        BY <4>2 DEF TwoSlots
    <3>2. h.pc = "script" => At(m, "ok") \/ script[m].pc \notin Exited
      BY <2>2 DEF Tidy, NoRestore, At, Exited
    <3>3. h.pc = "script" => script[m].pc \in Exited
      <4> SUFFICES ASSUME h.pc = "script" PROVE script[m].pc \in Exited
        OBVIOUS
      <4>1. ScriptReturns(m)
        BY DEF ApplyStep, ApplyList, ApplyRun, Healthy, Unhealthy, Serving
      <4>2. QED
        BY <4>1 DEF ScriptReturns, ReapScript
    <3>4. QED
      BY <2>2, <3>1, <3>2, <3>3 DEF GivesUp
  <2>4. HasStatus(id, {"active"})' /\ users'[id].secret # None
    BY <1>4, <2>2 DEF HasStatus, Exists
  <2>5. CASE Lists(m)
    <3>1. handler'[m].pc = "apply_run" /\ handler'[m].cand = DesiredProfiles
      BY <2>5 DEF Lists
    <3>2. QED
      BY <1>4, <2>1, <2>4, <3>1 DEF Spares, RollbackPart, HasStatus, Exists
  <2>6. CASE Runs(m)
    <3>1. /\ handler'[m].pc = "script" /\ StartScript(m, DesiredProfiles)
      BY <2>2, <2>6 DEF Runs
    <3>2. \A u \in Slot \ {m} : script[u].pc \notin Running
      <4>1. \A u \in Slot \ {m} : u = o
        BY DEF TwoSlots
      <4>2. At(o, "none")
        BY DEF SoloPanel, SlotInv
      <4>3. QED
        BY <4>1, <4>2 DEF At, Running
    <3>3. script'[m].alone /\ script'[m].cand = DesiredProfiles /\ script'[m].pc = "merge"
      BY <3>1, <3>2 DEF StartScript, NoScript
    <3>4. QED
      BY <1>4, <2>1, <2>4, <3>1, <3>3 DEF Spares, RollbackPart, HasStatus, Exists, At
  <2>7. CASE Waits(m)
    <3>1. handler'[m].pc = "health" /\ script[m].pc = "ok" /\ script[m].alone
          /\ script[m].cand \in SUBSET PanelProfile
      BY <1>1, <2>2, <2>7 DEF Waits, At, ScriptRun
    <3>2. loaded = MergedProfiles(ForeignProfile, script[m].cand)
      BY <3>1 DEF SoloPanel, SoloInv, SoloRun, Applied
    <3>3. loaded \in SUBSET Profile
      BY <3>1, <3>2, ProfileAssumption DEF MergedProfiles, Profiles, Profile, PanelProfile
    <3>4. loaded' # None
      BY <1>2, <3>3, ProfileAssumption
    <3>5. QED
      BY <2>1, <2>4, <3>1, <3>4 DEF Spares, RollbackPart, HasStatus, Exists
  <2>8. QED
    BY <1>2, <2>3, <2>5, <2>6, <2>7 DEF OnIssue, IssuePart
<1>10. \A w \in Slot : \A v \in Slot \ {w} : Spares(w, v)'
  BY <1>8, <1>9 DEF TwoSlots
<1>11. QED
  BY <1>5, <1>6, <1>7, <1>10 DEF Tidy

------------------------------------------------------------------------------
(* Every step of the panel.                                                *)

\* The script of a handler that issues the row being read goes on: it runs alone
\* on a list that fits.
LEMMA RunsStayTidy ==
  ASSUME TwoSlots, PanelInv, SoloPanel, RowsApart, Tidy, faults = 0, NEW m \in Slot,
         ScriptProgress(m), UNCHANGED <<storeVars, handler, started>>
  PROVE  Tidy'
<1> USE DEF PanelInv, TypeOK
<1>1. script[m].pc \in Running /\ handler[m].pc = "script"
  BY RunKeepsCandidate DEF SoloPanel, SlotInv, At, Running
<1>2. users' = users /\ nextId' = nextId /\ DesiredProfiles' = DesiredProfiles
  BY DEF storeVars, DesiredProfiles, HasStatus, Exists
<1>3. NoneWedged' /\ \A w \in Slot : Carries(handler[w])' /\ OwnRow(handler[w])'
  BY <1>2 DEF Tidy, NoneWedged, ActiveWithoutProfile, HasStatus, Exists, Carries,
     OnIssue, OwnRow
<1>4. script'[m].pc \notin {"rejected", "restore"}
  <2>1. ~At(m, "restore") /\ script \in [Slot -> ScriptRun] /\ script[m] \in ScriptRun
    BY DEF Tidy, NoRestore, HostTypeOK
  <2>2. ASSUME NEW pc, Goto(m, pc) PROVE script'[m].pc = pc
    BY <2>1, <2>2 DEF Goto, ScriptRun
  <2>3. ASSUME Fail(m) PROVE script'[m].pc = "failed"
    BY <2>1, <2>3 DEF Fail, NoScript
  <2>4. CASE MergeStep(m)
    BY <2>1, <2>3, <2>4 DEF MergeStep, ScriptRun
  <2>5. CASE BackupStep(m)
    BY <2>1, <2>5, BackupTaken DEF ScriptRun
  <2>6. CASE InstallStep(m) \/ WriteStep(m)
    BY <2>1, <2>6 DEF InstallStep, WriteStep, ScriptRun
  <2>7. CASE SyncStep(m)
    BY <2>1, <2>3, <2>7 DEF SyncStep, ScriptRun
  <2>8. CASE CompareStep(m)
    BY <2>1, <2>2, <2>8 DEF CompareStep, ScriptRun
  <2>9. CASE PortsStep(m) \/ VerifyStep(m) \/ RestartStep(m) \/ MtproxyStep(m)
    <3>1. CASE RestartStep(m)
      BY <2>1, <3>1 DEF RestartStep, ScriptRun
    <3>2. CASE PortsStep(m) \/ VerifyStep(m) \/ MtproxyStep(m)
      BY <2>2, <2>3, <3>2 DEF PortsStep, VerifyStep, MtproxyStep
    <3>3. QED
      BY <2>9, <3>1, <3>2
  <2>10. QED
    BY <2>1, <2>4, <2>5, <2>6, <2>7, <2>8, <2>9 DEF ScriptProgress, RestoreStep
<1>5. \A v \in Slot \ {m} : script'[v].pc = script[v].pc
  BY OtherRuns DEF ScriptAction
<1>6. \A w \in Slot : NoRestore(w)'
  BY <1>4, <1>5 DEF Tidy, NoRestore, At
<1>7. ASSUME NEW o \in Slot \ {m} PROVE Spares(m, o)'
  BY <1>1 DEF Spares
<1>8. ASSUME NEW o \in Slot \ {m} PROVE Spares(o, m)'
  <2> SUFFICES ASSUME handler[o].pc = "create_read", handler[m].id = handler[o].id,
                      OnIssue(handler[m])
               PROVE  Spares(o, m)'
    BY DEF Spares, OnIssue
  <2>1. PICK id \in RowId : id = handler[m].id
    BY HandlerFields
  <2>2. /\ HasStatus(id, {"active"}) /\ users[id].secret # None
        /\ script[m].alone /\ script[m].cand = DesiredProfiles
    BY <1>1, <2>1 DEF Tidy, Spares
  <2>3. \A i \in RowId : ~ActiveWithoutProfile(i)
    <3> SUFFICES ASSUME NEW i \in RowId, ActiveWithoutProfile(i) PROVE FALSE
      OBVIOUS
    <3>1. PICK w \in Slot : handler[w].pc = "rollback_status"
      BY DEF Tidy, NoneWedged
    <3>2. w # m /\ w # o
      BY <1>1, <3>1
    <3>3. QED
      BY <3>2 DEF TwoSlots
  <2>4. ASSUME script'[m].pc = "failed" PROVE FALSE
    <3>1. SecretsOf(Profiles(live)) = {} /\ live = ForeignProfile \cup DesiredProfiles
          /\ live # None
      BY <2>2, <2>3, <2>4, AloneRunGoesOn
         DEF SoloPanel, Tidy, NoRestore, HostInv, MtproxyInv
    <3> DEFINE p == [name |-> users[id].tg, secret |-> users[id].secret]
    <3>2. p \in DesiredProfiles
      BY <2>2 DEF DesiredProfiles
    <3>3. p \in Profiles(live)
      BY <3>1, <3>2 DEF Profiles
    <3>4. QED
      BY <3>1, <3>3 DEF SecretsOf
  <2>5. script'[m].alone = script[m].alone /\ script'[m].cand = script[m].cand
    BY <2>4, RunKeepsCandidate
  <2>6. QED
    BY <1>1, <1>2, <2>1, <2>2, <2>4, <2>5 DEF Spares, RollbackPart, HasStatus, Exists, At
<1>9. \A w \in Slot : \A v \in Slot \ {w} : Spares(w, v)'
  BY <1>7, <1>8 DEF TwoSlots
<1>10. QED
  BY <1>3, <1>6, <1>9 DEF Tidy

\* What a handler starts with.
LEMMA StartsCarry ==
  ASSUME PanelInv, RowsApart, NEW w \in Slot, HandlerStarts(w)
  PROVE  /\ Carries(handler'[w]) /\ OwnRow(handler[w])'
         /\ handler'[w].pc \notin {"create_read"} \cup IssuePart
         /\ Free(w)
         /\ \A v \in Slot \ {w} : handler'[v] = [handler[v] EXCEPT !.alone = FALSE]
         /\ UNCHANGED <<storeVars, hostVars>>
<1> USE DEF PanelInv, TypeOK
<1> DEFINE Good == /\ Carries(handler'[w]) /\ OwnRow(handler[w])'
                   /\ handler'[w].pc \notin {"create_read"} \cup IssuePart
                   /\ Free(w)
                   /\ \A v \in Slot \ {w} :
                        handler'[v] = [handler[v] EXCEPT !.alone = FALSE]
                   /\ UNCHANGED <<storeVars, hostVars>>
<1>1. ASSUME NEW id \in RowId, NEW op \in Op, NEW pc \in Step,
             Exists(id), BeginAtRow(w, op, id, pc),
             \/ op = "approve" /\ pc = "issue_write" /\ users[id].status # "active"
             \/ op = "request" /\ pc = "auto_issue" /\ users[id].status # "active"
             \/ op = "revoke" /\ pc = "revoke_write"
             \/ op = "deny" /\ pc = "deny_write"
             \/ op = "delete" /\ pc = "delete_audit"
             \/ op = "resend" /\ pc = "audit"
      PROVE  Good
  <2> DEFINE h == [Idle EXCEPT !.pc = pc, !.op = op, !.id = id, !.tg = users[id].tg,
                               !.prev = users[id].status]
             g == [h EXCEPT !.alone = \A u \in Slot \ {w} : Free(u)]
  <2>1. /\ g.pc = pc /\ g.op = op /\ g.id = id /\ g.tg = users[id].tg
        /\ g.prev = users[id].status /\ g.cancelled = FALSE
    BY DEF Idle
  <2>2. Begin(w, h)
    BY <1>1 DEF BeginAtRow
  <2>3. /\ handler'[w] = g /\ Free(w)
        /\ \A v \in Slot \ {w} : handler'[v] = [handler[v] EXCEPT !.alone = FALSE]
        /\ UNCHANGED <<storeVars, hostVars>>
    BY <2>2 DEF Begin
  <2> HIDE DEF g, h
  <2>4. /\ handler'[w].pc = pc /\ handler'[w].op = op /\ handler'[w].id = id
        /\ handler'[w].tg = users[id].tg
        /\ handler'[w].prev = users[id].status /\ handler'[w].cancelled = FALSE
    BY <2>1, <2>3
  <2>5. id < nextId
    BY <1>1 DEF RowsApart, RowId, StoreTypeOK
  <2>6. OwnRow(handler[w])'
    BY <2>3, <2>4, <2>5 DEF OwnRow, storeVars
  <2>7. Carries(handler'[w])
    BY <1>1, <2>4 DEF Carries, OnIssue, IssueOnly, RevokeOnly, RollbackPart, IssuePart
  <2>8. QED
    BY <1>1, <2>3, <2>4, <2>6, <2>7 DEF IssuePart
<1>2. ASSUME NEW tg \in User, RequestNew(w, tg) PROVE Good
  <2> DEFINE h == [Idle EXCEPT !.pc = "create", !.op = "request", !.tg = tg]
             g == [h EXCEPT !.alone = \A u \in Slot \ {w} : Free(u)]
  <2>1. g.pc = "create" /\ g.op = "request" /\ g.cancelled = FALSE
    BY DEF Idle
  <2>2. Begin(w, h)
    BY <1>2 DEF RequestNew
  <2>3. /\ handler'[w] = g /\ Free(w)
        /\ \A v \in Slot \ {w} : handler'[v] = [handler[v] EXCEPT !.alone = FALSE]
        /\ UNCHANGED <<storeVars, hostVars>>
    BY <2>2 DEF Begin
  <2> HIDE DEF g, h
  <2>4. handler'[w].pc = "create" /\ handler'[w].op = "request"
        /\ handler'[w].cancelled = FALSE
    BY <2>1, <2>3
  <2>5. QED
    BY <2>3, <2>4 DEF Carries, OnIssue, IssueOnly, RevokeOnly, RollbackPart, IssuePart,
       OwnRow
<1>3. ASSUME NEW id \in RowId,
             Approve(w, id) \/ Revoke(w, id) \/ Deny(w, id) \/ Delete(w, id)
               \/ Resend(w, id) \/ RequestAgain(w, id)
      PROVE  Good
  BY <1>1, <1>3 DEF Approve, Revoke, Deny, Delete, Resend, RequestAgain, HasStatus, Op,
     Step
<1>4. QED
  BY <1>2, <1>3 DEF HandlerStarts

\* A step of a panel in which nothing has failed and nothing fails.
LEMMA StepStaysTidy ==
  ASSUME TwoSlots, PanelInv, SoloPanel, RowsApart, Tidy, faults = 0, [Next]_vars,
         faults' = faults
  PROVE  Tidy'
<1> USE DEF PanelInv, TypeOK
<1>0. PanelInv1 /\ ~Fault
  BY DEF PanelInv1, Fault, HostTypeOK
<1>1. ASSUME UNCHANGED <<storeVars, hostVars>>,
             \A w \in Slot :
               \/ /\ SameRow(w) /\ handler'[w].pc = handler[w].pc
                  /\ handler'[w].secret = handler[w].secret
                  /\ handler'[w].cand = handler[w].cand
               \/ /\ handler[w].pc \in {"idle", "done"}
                  /\ Carries(handler'[w]) /\ OwnRow(handler[w])'
                  /\ handler'[w].pc \notin {"create_read"} \cup IssuePart
      PROVE  Tidy'
  <2> DEFINE Kept(w) == /\ SameRow(w) /\ handler'[w].pc = handler[w].pc
                        /\ handler'[w].secret = handler[w].secret
                        /\ handler'[w].cand = handler[w].cand
  <2>1. /\ users' = users /\ nextId' = nextId /\ DesiredProfiles' = DesiredProfiles
        /\ script' = script /\ loaded' = loaded
    BY <1>1 DEF storeVars, hostVars, DesiredProfiles, HasStatus, Exists
  <2>2. NoneWedged'
    <3> SUFFICES ASSUME NEW i \in RowId, ActiveWithoutProfile(i)'
                 PROVE  \E w \in Slot : handler'[w].pc = "rollback_status"
                                        /\ handler'[w].id = i
      BY DEF NoneWedged
    <3>1. ActiveWithoutProfile(i)
      BY <2>1 DEF ActiveWithoutProfile, HasStatus, Exists
    <3>2. PICK w \in Slot : handler[w].pc = "rollback_status" /\ handler[w].id = i
      BY <3>1 DEF Tidy, NoneWedged
    <3>3. QED
      BY <1>1, <3>2 DEF SameRow
  <2>3. ASSUME NEW w \in Slot PROVE Carries(handler[w])' /\ OwnRow(handler[w])'
    <3>1. Carries(handler[w]) /\ OwnRow(handler[w])
      BY DEF Tidy
    <3>2. CASE Kept(w)
      BY <2>1, <3>1, <3>2 DEF Carries, OnIssue, OwnRow, SameRow, SameErrand, Exists
    <3>3. CASE ~Kept(w)
      BY <1>1, <3>3 DEF Carries, OnIssue
    <3>4. QED
      BY <3>2, <3>3
  <2>4. ASSUME NEW w \in Slot, NEW v \in Slot \ {w} PROVE Spares(w, v)'
    <3>1. Spares(w, v)
      BY DEF Tidy
    <3>2. CASE Kept(w) /\ Kept(v)
      BY <2>1, <3>1, <3>2 DEF Spares, OnIssue, SameRow, SameErrand, HasStatus, Exists, At
    <3>3. CASE ~Kept(w)
      BY <1>1, <3>3 DEF Spares
    <3>4. CASE ~Kept(v)
      <4>1. handler'[v].pc \notin {"create_read"} \cup IssuePart
        BY <1>1, <3>4
      <4>2. QED
        BY <4>1 DEF Spares, OnIssue, IssuePart, RollbackPart
    <3>5. QED
      BY <3>2, <3>3, <3>4
  <2>5. \A w \in Slot : NoRestore(w)'
    BY <2>1 DEF Tidy, NoRestore, At
  <2>6. QED
    BY <2>2, <2>3, <2>4, <2>5 DEF Tidy
<1>2. ASSUME NEW w \in Slot, HandlerStarts(w) PROVE Tidy'
  <2>1. /\ Carries(handler'[w]) /\ OwnRow(handler[w])'
        /\ handler'[w].pc \notin {"create_read"} \cup IssuePart
        /\ handler[w].pc = "idle"
        /\ \A v \in Slot \ {w} : handler'[v] = [handler[v] EXCEPT !.alone = FALSE]
        /\ UNCHANGED <<storeVars, hostVars>>
    BY <1>2, StartsCarry DEF Free
  <2>2. ASSUME NEW v \in Slot \ {w}
        PROVE  /\ SameRow(v) /\ handler'[v].pc = handler[v].pc
               /\ handler'[v].secret = handler[v].secret
               /\ handler'[v].cand = handler[v].cand
    <3>1. handler[v] \in Handler
      BY DEF HandlerTypeOK
    <3>2. QED
      BY <2>1, <3>1 DEF Handler, SameRow, SameErrand
  <2>3. QED
    BY <1>1, <2>1, <2>2
<1>3. ASSUME NEW w \in Slot, Reply(w) PROVE Tidy'
  <2>1. /\ handler[w].pc = "done" /\ handler'[w] = Idle
        /\ \A v \in Slot \ {w} : handler'[v] = handler[v]
        /\ UNCHANGED <<storeVars, hostVars>>
    BY <1>3 DEF Reply, Unchanged, HandlerTypeOK
  <2>2. /\ Carries(handler'[w]) /\ OwnRow(handler[w])'
        /\ handler'[w].pc \notin {"create_read"} \cup IssuePart
    BY <2>1 DEF Carries, OnIssue, IssueOnly, RevokeOnly, RollbackPart, IssuePart, OwnRow,
       Step, Idle
  <2>3. QED
    BY <1>1, <2>1, <2>2 DEF SameRow, SameErrand
<1>4. ASSUME UNCHANGED <<users, nextId, hostVars, handler>> PROVE Tidy'
  <2>1. \A w \in Slot : Carries(handler[w])' /\ OwnRow(handler[w])'
    BY <1>4 DEF Tidy, Carries, OnIssue, OwnRow, Exists
  <2>2. \A w \in Slot : \A v \in Slot \ {w} : Spares(w, v)'
    BY <1>4 DEF Tidy, Spares, OnIssue, HasStatus, Exists, At, hostVars, DesiredProfiles
  <2>3. NoneWedged' /\ \A w \in Slot : NoRestore(w)'
    BY <1>4 DEF Tidy, NoneWedged, ActiveWithoutProfile, HasStatus, Exists, NoRestore, At,
       hostVars
  <2>4. QED
    BY <2>1, <2>2, <2>3 DEF Tidy
<1>5. ASSUME NEW w \in Slot, ServiceStep(w) \/ ApplyStep(w) PROVE Tidy'
  BY <1>5, ServiceStaysTidy, ApplyStaysTidy
<1>6. ASSUME NEW w \in Slot, ScriptRuns(w) PROVE Tidy'
  BY <1>6, RunsStayTidy DEF ScriptRuns
<1>7. ASSUME NEW w \in Slot PROVE ~CancelledStep(w)
  BY DEF CancelledStep, Tidy, Carries
<1>8. ASSUME NEW w \in Slot
      PROVE  ~StepFails(w) /\ ~Cancel(w) /\ ~ScriptBreaks(w) /\ ~Crash
  BY <1>0 DEF StepFails, Cancel, ScriptBreaks, ScriptFailure, RestartRejected,
     MtproxyRestartFails, ScriptDies, Crash
<1>9. CASE (\E b \in BOOLEAN : SetAutoIssue(b)) \/ UNCHANGED vars
  BY <1>4, <1>9 DEF SetAutoIssue, SetSetting, vars, storeVars
<1>10. CASE Crash
  BY <1>0, <1>10 DEF Crash
<1>11. ~HostRecovers
  BY <1>0 DEF HostRecovers, MtproxyComesBack, HostInv, MtproxyInv
<1>12. QED
  BY <1>2, <1>3, <1>5, <1>6, <1>7, <1>8, <1>9, <1>10, <1>11 DEF Next, HandlerProgress

\* No step takes a failure back.
LEMMA FaultsAdd ==
  ASSUME PanelInv, [Next]_vars
  PROVE  faults' = 0 => faults = 0 /\ faults' = faults
<1> USE DEF PanelInv, TypeOK
<1>1. HostMove /\ faults \in Nat
  BY NextMoves DEF PanelInv1, HostTypeOK
<1>2. faults' = faults \/ Fault
  BY <1>1 DEF HostMove, StartScript, ScriptProgress, MergeStep, PortsStep, BackupStep,
     InstallStep, VerifyStep, RestartStep, RestoreStep, SyncStep, CompareStep, WriteStep,
     MtproxyStep, ScriptFailure, RestartRejected, MtproxyRestartFails, ScriptDies,
     ReapScript, MtproxyComesBack, hostVars
<1>3. QED
  BY <1>1, <1>2 DEF Fault

\* The rows that the panel finds have their profiles.
LEMMA BeginsTidy == Init => Tidy
<1> SUFFICES ASSUME Init PROVE Tidy
  OBVIOUS
<1>1. StoreInit /\ HostInit(DesiredProfiles) /\ handler = [w \in Slot |-> Idle]
  BY DEF Init
<1>2. NoneWedged
  BY <1>1 DEF StoreInit, NoneWedged, ActiveWithoutProfile, HasStatus
<1>3. ASSUME NEW w \in Slot
      PROVE  Carries(handler[w]) /\ OwnRow(handler[w]) /\ NoRestore(w)
  BY <1>1 DEF HostInit, Carries, OnIssue, IssueOnly, RevokeOnly, RollbackPart, IssuePart,
     OwnRow, Step, Idle, NoRestore, At, NoScript
<1>4. \A w \in Slot : \A v \in Slot \ {w} : Spares(w, v)
  BY <1>1 DEF Spares, Idle
<1>5. QED
  BY <1>2, <1>3, <1>4 DEF Tidy

\* What two handlers at a time keep as long as no command fails.
THEOREM RaceInvariant ==
  ASSUME TwoSlots
  PROVE  Spec => []RaceInv
<1>1. Init => RaceInv
  BY BeginsTidy DEF RaceInv
<1>2. PanelInv /\ SoloPanel /\ RowsApart /\ RaceInv /\ [Next]_vars => RaceInv'
  BY StepStaysTidy, FaultsAdd DEF RaceInv
<1>3. QED
  BY <1>1, <1>2, PanelInvariant, SoloPanelInvariant, PanelRowsApart, PTL DEF Spec

\* Two handlers at a time, whatever operations they are and however they
\* interleave, never leave a row active without a profile, which would make every
\* later apply fail, unless a command fails.
THEOREM RacingHandlersWedgeNoRow ==
  ASSUME TwoSlots
  PROVE  Spec => []NoWedgedRow
<1>1. RaceInv => NoWedgedRow
  BY DEF RaceInv, Tidy, NoneWedged, NoWedgedRow
<1>2. QED
  BY <1>1, RaceInvariant, PTL
==============================================================================
