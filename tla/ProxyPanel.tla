------------------------------ MODULE ProxyPanel ------------------------------
(***************************************************************************)
(* internal/service and internal/applier over the database and the host:   *)
(* what the panel's HTTP handlers and the bot's update goroutines do when  *)
(* they approve, request, revoke, deny or delete.                          *)
(*                                                                         *)
(* Every handler runs in its own goroutine and the service holds no lock.  *)
(* A handler is a pc and its local variables; each statement on the        *)
(* database, each command and each wait is a step of its own.              *)
(***************************************************************************)
EXTENDS PanelStore, HostApply

CONSTANT MaxStarts  \* bound: handlers started in one behaviour

ASSUME PanelAssumption == MaxStarts \in Nat

VARIABLES
  handler,  \* the handlers in flight, one per slot
  started   \* handlers started so far

vars == <<storeVars, hostVars, handler, started>>

\* The next thing a handler will do, named after the source.
Step ==
  {"create", "create_read", "auto_issue", "set_pending", "pending_read",
   "issue_write", "issue_read", "issue_check",
   "revoke_write", "revoke_read", "revoke_check",
   "apply_list", "apply_run", "script", "health",
   "rollback_clear", "rollback_status", "rollback_read", "audit",
   "deny_write", "deny_read", "delete_audit", "delete_row"}

Op == {"approve", "request", "revoke", "deny", "delete", "resend"}

\* "applied": Issue or Revoke returned without an error after an apply.
\* "issue_failed": ErrIssueFailed, the row was rolled back; "rollback_failed":
\* ErrIssueFailed and it was not.  "panic": the nil dereference of Request.
Result == {"ok", "applied", "error", "issue_failed", "rollback_failed",
           "revoke_failed", "panic"}

Idle ==
  [pc |-> "idle", op |-> "approve", id |-> 1, tg |-> None, prev |-> "pending",
   secret |-> None, cand |-> {}, result |-> "ok", cancelled |-> FALSE,
   alone |-> TRUE]

Handler ==
  [pc        : {"idle", "done"} \cup Step,
   op        : Op,
   id        : RowId,
   tg        : User \cup {None},
   prev      : Status,                   \* the status the handler read
   secret    : Secret \cup {None},       \* the secret it read or generated
   cand      : SUBSET PanelProfile,      \* desiredProfiles' answer
   result    : Result,
   cancelled : BOOLEAN,                  \* its context is cancelled
   alone     : BOOLEAN]                  \* history: nothing else overlapped

Init ==
  /\ StoreInit
  /\ HostInit(DesiredProfiles)
  /\ handler = [w \in Slot |-> Idle]
  /\ started = 0

------------------------------------------------------------------------------
(* Moving a handler on.                                                    *)

Serving(w, pc) == handler[w].pc = pc /\ ~handler[w].cancelled

Proceed(w, pc) == handler' = [handler EXCEPT ![w].pc = pc]

Done(w, result) ==
  handler' = [handler EXCEPT ![w].pc = "done", ![w].result = result]

Audit(w, result) ==
  handler' = [handler EXCEPT ![w].pc = "audit", ![w].result = result]

\* Issue rolls the row back when the apply fails, Revoke leaves it revoked.
ApplyFails(w) ==
  IF handler[w].op = "revoke"
    THEN Audit(w, "revoke_failed")
    ELSE Proceed(w, "rollback_clear")

\* What a handler does next when its current step returns an error.
ApplyPart == {"issue_check", "revoke_check", "apply_list", "apply_run",
              "script", "health"}
RollbackPart == {"rollback_clear", "rollback_status", "rollback_read"}
PendingPart == {"set_pending", "pending_read"}
AuditPart == {"audit", "delete_audit"}

OnError(w) ==
  \/ handler[w].pc \in ApplyPart /\ ApplyFails(w)
  \/ handler[w].pc \in RollbackPart /\ Audit(w, "rollback_failed")
  \/ handler[w].pc \in PendingPart /\ Done(w, "panic")
  \/ handler[w].pc = "audit" /\ Proceed(w, "done")
  \/ handler[w].pc = "delete_audit" /\ Proceed(w, "delete_row")
  \/ handler[w].pc \in Step \ (ApplyPart \cup RollbackPart \cup PendingPart
                               \cup AuditPart) /\ Done(w, "error")

Unchanged == UNCHANGED <<storeVars, hostVars, started>>

\* A statement that finds no row (ErrNotFound), or a failed check.
StepRefused(w) == OnError(w) /\ Unchanged

------------------------------------------------------------------------------
(* Handlers start with a read.  The early returns (no such row, already    *)
(* active, already pending, not pending, not active, not deletable) change *)
(* nothing: they are stuttering steps.                                     *)

Free(w) == handler[w].pc = "idle"

Begin(w, fields) ==
  /\ Free(w)
  /\ handler' =
       [v \in Slot |->
          IF v = w
            THEN [fields EXCEPT !.alone = \A u \in Slot \ {w} : Free(u)]
            ELSE [handler[v] EXCEPT !.alone = FALSE]]
  /\ started < MaxStarts
  /\ started' = started + 1
  /\ UNCHANGED <<storeVars, hostVars>>

BeginAtRow(w, op, id, pc) ==
  Begin(w, [Idle EXCEPT !.pc = pc, !.op = op, !.id = id, !.tg = users[id].tg,
                        !.prev = users[id].status])

Approve(w, id) ==
  /\ HasStatus(id, {"pending", "revoked", "denied"})
  /\ BeginAtRow(w, "approve", id, "issue_write")

Revoke(w, id) ==
  /\ HasStatus(id, {"active"})
  /\ BeginAtRow(w, "revoke", id, "revoke_write")

Deny(w, id) ==
  /\ HasStatus(id, {"pending"})
  /\ BeginAtRow(w, "deny", id, "deny_write")

Delete(w, id) ==
  /\ HasStatus(id, {"revoked", "denied"})
  /\ BeginAtRow(w, "delete", id, "delete_audit")

\* Sending the link changes no state; its audit entry does.
Resend(w, id) ==
  /\ HasStatus(id, {"active"})
  /\ BeginAtRow(w, "resend", id, "audit")

RequestNew(w, tg) ==
  /\ RowsOf(tg) = {}
  /\ Begin(w, [Idle EXCEPT !.pc = "create", !.op = "request", !.tg = tg])

RequestAgain(w, id) ==
  /\ HasStatus(id, {"revoked", "denied"})
  /\ BeginAtRow(w, "request", id, "auto_issue")

\* The panel's toggle: one statement.
SetAutoIssue(b) == SetSetting(b) /\ UNCHANGED <<hostVars, handler, started>>

------------------------------------------------------------------------------
(* Request.                                                                *)

CreateStep(w) ==
  /\ Serving(w, "create")
  /\ IF CanCreate(handler[w].tg)
       THEN /\ CreateUser(handler[w].tg)
            /\ handler' = [handler EXCEPT ![w].pc = "create_read",
                                          ![w].id = nextId]
            /\ UNCHANGED <<hostVars, started>>
       ELSE StepRefused(w)

\* CreateUser returns the row as it is when it is read back.
CreateRead(w) ==
  /\ Serving(w, "create_read")
  /\ LET id == handler[w].id
     IN IF Exists(id)
          THEN /\ handler' = [handler EXCEPT ![w].pc = "auto_issue",
                                             ![w].prev = users[id].status,
                                             ![w].secret = users[id].secret]
               /\ Unchanged
          ELSE StepRefused(w)

\* With auto_issue on, Issue returns at once a row that is active with a
\* profile; off, the row is made pending unless it was read as pending.
AutoIssueStep(w) ==
  /\ Serving(w, "auto_issue")
  /\ IF autoIssue
       THEN IF handler[w].prev = "active" /\ handler[w].secret # None
              THEN Done(w, "ok")
              ELSE Proceed(w, "issue_write")
       ELSE IF handler[w].prev = "pending"
              THEN Done(w, "ok")
              ELSE Proceed(w, "set_pending")
  /\ Unchanged

SetPendingStep(w) ==
  /\ Serving(w, "set_pending")
  /\ IF Exists(handler[w].id)
       THEN /\ UpdateUserStatus(handler[w].id, "pending")
            /\ Proceed(w, "pending_read")
            /\ UNCHANGED <<hostVars, started>>
       ELSE StepRefused(w)

PendingRead(w) ==
  /\ Serving(w, "pending_read")
  /\ IF Exists(handler[w].id) THEN Done(w, "ok") /\ Unchanged ELSE StepRefused(w)

------------------------------------------------------------------------------
(* Issue.                                                                  *)

\* Mutant: a secret that was in use before may come back.
AnySecret == Secret \ (SecretsOf(DesiredProfiles) \cup SecretsOf(ForeignProfile))

\* 16 random bytes: never a secret that was in use before.  Running out of
\* Secret stands for GenerateSecret's error.
FreshSecret == Secret \ (SecretsOf(issued) \cup SecretsOf(ForeignProfile))

IssueWrite(w) ==
  /\ Serving(w, "issue_write")
  /\ IF Exists(handler[w].id) /\ FreshSecret # {}
       THEN /\ \E s \in FreshSecret :
                 /\ SetUserProfile(handler[w].id, s)
                 /\ handler' = [handler EXCEPT ![w].pc = "issue_read",
                                               ![w].secret = s]
            /\ UNCHANGED <<hostVars, started>>
       ELSE StepRefused(w)

IssueRead(w) ==
  /\ Serving(w, "issue_read")
  /\ IF Exists(handler[w].id)
       THEN Proceed(w, "issue_check") /\ Unchanged
       ELSE StepRefused(w)

\* applier.IssueProfile: the user's row must be active with this very secret.
IssueCheck(w) ==
  /\ Serving(w, "issue_check")
  /\ IF \E id \in RowsOf(handler[w].tg) :
          users[id].status = "active" /\ users[id].secret = handler[w].secret
       THEN /\ handler' = [handler EXCEPT ![w].pc = "apply_list",
                                          ![w].secret = None]
            /\ Unchanged
       ELSE StepRefused(w)

\* rollbackIssue, two statements that each read the row back: after the first
\* a failed read is a failed second statement, after the second RollbackRead's.
RollbackClear(w) ==
  /\ Serving(w, "rollback_clear")
  /\ IF Exists(handler[w].id)
       THEN /\ ClearUserProfile(handler[w].id)
            /\ Proceed(w, "rollback_status")
            /\ UNCHANGED <<hostVars, started>>
       ELSE StepRefused(w)

\* Mutant: the status stays active.
ForgetsStatus(w) ==
  /\ Serving(w, "rollback_status")
  /\ Proceed(w, "rollback_read")
  /\ Unchanged

\* Mutant: the status becomes pending, whatever it was.
RollsBackToPending(w) ==
  /\ Serving(w, "rollback_status")
  /\ IF Exists(handler[w].id)
       THEN /\ UpdateUserStatus(handler[w].id, "pending")
            /\ Proceed(w, "rollback_read")
            /\ UNCHANGED <<hostVars, started>>
       ELSE StepRefused(w)

RollbackStatus(w) ==
  /\ Serving(w, "rollback_status")
  /\ IF Exists(handler[w].id)
       THEN /\ UpdateUserStatus(handler[w].id, handler[w].prev)
            /\ Proceed(w, "rollback_read")
            /\ UNCHANGED <<hostVars, started>>
       ELSE StepRefused(w)

RollbackRead(w) ==
  /\ Serving(w, "rollback_read")
  /\ IF Exists(handler[w].id)
       THEN Audit(w, "issue_failed") /\ Unchanged
       ELSE StepRefused(w)

------------------------------------------------------------------------------
(* Revoke, Deny, Delete.                                                   *)

RevokeWrite(w) ==
  /\ Serving(w, "revoke_write")
  /\ IF Exists(handler[w].id)
       THEN /\ UpdateUserStatus(handler[w].id, "revoked")
            /\ Proceed(w, "revoke_read")
            /\ UNCHANGED <<hostVars, started>>
       ELSE StepRefused(w)

RevokeRead(w) ==
  /\ Serving(w, "revoke_read")
  /\ IF Exists(handler[w].id)
       THEN Proceed(w, "revoke_check") /\ Unchanged
       ELSE StepRefused(w)

\* Mutant: the database alone is changed.
RevokeSkipsApply(w) ==
  /\ Serving(w, "revoke_check")
  /\ Audit(w, "applied")
  /\ Unchanged

\* applier.RevokeProfile: the user's row must be revoked.
RevokeCheck(w) ==
  /\ Serving(w, "revoke_check")
  /\ IF \E id \in RowsOf(handler[w].tg) : users[id].status = "revoked"
       THEN Proceed(w, "apply_list") /\ Unchanged
       ELSE StepRefused(w)

DenyWrite(w) ==
  /\ Serving(w, "deny_write")
  /\ IF Exists(handler[w].id)
       THEN /\ UpdateUserStatus(handler[w].id, "denied")
            /\ Proceed(w, "deny_read")
            /\ UNCHANGED <<hostVars, started>>
       ELSE StepRefused(w)

DenyRead(w) ==
  /\ Serving(w, "deny_read")
  /\ IF Exists(handler[w].id)
       THEN Audit(w, "ok") /\ Unchanged
       ELSE StepRefused(w)

DeleteAudit(w) ==
  /\ Serving(w, "delete_audit")
  /\ AppendAuditLog(handler[w].id)
  /\ Proceed(w, "delete_row")
  /\ UNCHANGED <<hostVars, started>>

DeleteRow(w) ==
  /\ Serving(w, "delete_row")
  /\ IF Exists(handler[w].id)
       THEN /\ DeleteUser(handler[w].id)
            /\ Done(w, "ok")
            /\ UNCHANGED <<hostVars, started>>
       ELSE StepRefused(w)

AuditStep(w) ==
  /\ Serving(w, "audit")
  /\ AppendAuditLog(handler[w].id)
  /\ Proceed(w, "done")
  /\ UNCHANGED <<hostVars, started>>

------------------------------------------------------------------------------
(* apply: list the desired profiles, run the script on them, wait until    *)
(* tproxy-server is healthy.                                               *)

\* Mutant: rows without a profile are left out.
ListsIncomplete(w) ==
  /\ Serving(w, "apply_list")
  /\ handler' = [handler EXCEPT ![w].pc = "apply_run",
                   ![w].cand = {p \in DesiredProfiles : p.secret # None}]
  /\ Unchanged

\* Mutant: a row without a profile is not noticed.
ListsUnchecked(w) ==
  /\ Serving(w, "apply_list")
  /\ handler' = [handler EXCEPT ![w].pc = "apply_run",
                                ![w].cand = DesiredProfiles]
  /\ Unchanged

ApplyList(w) ==
  /\ Serving(w, "apply_list")
  /\ IF \E id \in RowId : ActiveWithoutProfile(id)
       THEN StepRefused(w)
       ELSE /\ handler' = [handler EXCEPT ![w].pc = "apply_run",
                                          ![w].cand = DesiredProfiles]
            /\ Unchanged

\* The candidate is written, pruned and checked and the live file backed up
\* before the script starts; an error of any of these is StepFails.
ApplyRun(w) ==
  /\ Serving(w, "apply_run")
  /\ StartScript(w, handler[w].cand)
  /\ handler' = [handler EXCEPT ![w].pc = "script", ![w].cand = {}]
  /\ UNCHANGED <<storeVars, started>>

\* Mutant: only exit 0 is awaited.
WaitsForSuccess(w) ==
  /\ handler[w].pc = "script"
  /\ At(w, "ok")
  /\ Proceed(w, "health")
  /\ ReapScript(w)
  /\ UNCHANGED <<storeVars, started>>

\* Run comes back when the script has ended, with an error if the context was
\* cancelled meanwhile, whatever the exit status.
ScriptReturns(w) ==
  /\ handler[w].pc = "script"
  /\ IF At(w, "ok") /\ ~handler[w].cancelled
       THEN Proceed(w, "health")
       ELSE ApplyFails(w)
  /\ ReapScript(w)
  /\ UNCHANGED <<storeVars, started>>

Healthy(w) ==
  /\ Serving(w, "health")
  /\ loaded # None
  /\ Audit(w, "applied")
  /\ Unchanged

\* is-active or /readyz failed for 20 attempts.  rollback then runs the script
\* on the latest backup; the script refuses every file outside candidates/,
\* so the host stays as it is and the apply fails.
Unhealthy(w) ==
  /\ Serving(w, "health")
  /\ IF loaded = None THEN UNCHANGED faults ELSE Fault
  /\ ApplyFails(w)
  /\ UNCHANGED <<storeVars, hostFiles, script, started>>

------------------------------------------------------------------------------
(* Failures.                                                               *)

\* A statement or a command before the script fails.
StepFails(w) ==
  /\ handler[w].pc \in Step \ {"script", "health"}
  /\ ~handler[w].cancelled
  /\ Fault
  /\ OnError(w)
  /\ UNCHANGED <<storeVars, hostFiles, script, started>>

\* The client disconnects or the panel begins to shut down.
Cancel(w) ==
  /\ handler[w].pc \in Step
  /\ ~handler[w].cancelled
  /\ Fault
  /\ handler' = [handler EXCEPT ![w].cancelled = TRUE]
  /\ UNCHANGED <<storeVars, hostFiles, script, started>>

\* With a cancelled context every further step returns an error at once.  Only a
\* running script, which is root's, cannot be killed and is waited for.
CancelledStep(w) ==
  /\ handler[w].pc \in Step \ {"script"}
  /\ handler[w].cancelled
  /\ OnError(w)
  /\ Unchanged

\* The panel process dies and systemd ends what is left of its unit, then
\* starts it again; nothing is repaired at start-up.
Crash ==
  /\ \E w \in Slot : handler[w].pc \in Step
  /\ Fault
  /\ handler' = [w \in Slot |-> Idle]
  /\ script' = [w \in Slot |-> NoScript]
  /\ UNCHANGED <<storeVars, hostFiles, started>>

\* The handler has answered; its slot takes another one.
Reply(w) ==
  /\ handler[w].pc = "done"
  /\ handler' = [handler EXCEPT ![w] = Idle]
  /\ Unchanged

------------------------------------------------------------------------------

ServiceStep(w) ==
  \/ CreateStep(w) \/ CreateRead(w) \/ AutoIssueStep(w) \/ SetPendingStep(w)
  \/ PendingRead(w) \/ IssueWrite(w) \/ IssueRead(w) \/ IssueCheck(w)
  \/ RollbackClear(w) \/ RollbackStatus(w) \/ RollbackRead(w)
  \/ RevokeWrite(w) \/ RevokeRead(w) \/ RevokeCheck(w)
  \/ DenyWrite(w) \/ DenyRead(w) \/ DeleteAudit(w) \/ DeleteRow(w)
  \/ AuditStep(w)

ApplyStep(w) ==
  ApplyList(w) \/ ApplyRun(w) \/ ScriptReturns(w) \/ Healthy(w) \/ Unhealthy(w)

HandlerStarts(w) ==
  \/ \E id \in RowId :
       Approve(w, id) \/ Revoke(w, id) \/ Deny(w, id) \/ Delete(w, id)
         \/ Resend(w, id) \/ RequestAgain(w, id)
  \/ \E tg \in User : RequestNew(w, tg)

HandlerProgress(w) ==
  ServiceStep(w) \/ ApplyStep(w) \/ CancelledStep(w) \/ Reply(w)

ScriptRuns(w) == ScriptProgress(w) /\ UNCHANGED <<storeVars, handler, started>>

ScriptBreaks(w) == ScriptFailure(w) /\ UNCHANGED <<storeVars, handler, started>>

HostRecovers == MtproxyComesBack /\ UNCHANGED <<storeVars, handler, started>>

Next ==
  \/ \E w \in Slot :
       \/ HandlerStarts(w) \/ HandlerProgress(w) \/ StepFails(w) \/ Cancel(w)
       \/ ScriptRuns(w) \/ ScriptBreaks(w)
  \/ \E b \in BOOLEAN : SetAutoIssue(b)
  \/ Crash
  \/ HostRecovers

\* The Go scheduler and the kernel run every goroutine and process that can go
\* on; nobody has to start a handler.
Fairness ==
  \A w \in Slot : WF_vars(HandlerProgress(w)) /\ WF_vars(ScriptRuns(w))

Spec == Init /\ [][Next]_vars /\ Fairness

------------------------------------------------------------------------------
(* Properties.                                                             *)

HandlerTypeOK == handler \in [Slot -> Handler]

\* Every variable holds what its column, file or local variable can hold.
TypeOK ==
  StoreTypeOK /\ HostTypeOK /\ HandlerTypeOK /\ started \in 0 .. MaxStarts

\* Only what the database committed reaches the host: each panel profile in the
\* live file or loaded by tproxy-server, and each secret MTProxy has or will be
\* given, was at some time written to an active row, or is not the panel's.
OnlyIssuedOnHost ==
  /\ \A p \in Profiles(live) \cup Profiles(loaded) : IsPanel(p) => p \in issued
  /\ Profiles(secretsFile) \cup Profiles(mtLoaded)
       \subseteq SecretsOf(issued) \cup SecretsOf(ForeignProfile)

\* An apply that overlapped no other handler and succeeded has brought the host
\* in line with the database for all users, whatever crashes, cancelled
\* requests, failed applies and races came before it.
SoloApplyConverges ==
  \A w \in Slot :
    (handler[w].alone /\ handler[w].pc = "done" /\ handler[w].result = "applied")
      => /\ {p \in Profiles(live) : IsPanel(p)} = DesiredProfiles
         /\ loaded = live
         /\ secretsFile = SecretsOf(Profiles(live))
         /\ mtLoaded # None

\* When Issue reports that the host refused the profile, and nothing else ran
\* meanwhile, the row is back in the state it was found in.
SoloRollbackRestores ==
  \A w \in Slot :
    (handler[w].alone /\ handler[w].pc = "done"
       /\ handler[w].result = "issue_failed")
      => LET id == handler[w].id
         IN HasStatus(id, {handler[w].prev}) /\ users[id].secret = None

\* A row that is active without a profile makes every apply fail.  As long as
\* no command fails such a row is a rollback between its two statements: true of
\* two handlers at a time; a third can read that row and restore it later.
NoWedgedRow ==
  faults = 0 =>
    \A id \in RowId :
      ActiveWithoutProfile(id) =>
        \E w \in Slot : handler[w].pc = "rollback_status" /\ handler[w].id = id

\* Every handler that started replies, cancelled or not.
HandlersReply ==
  \A w \in Slot : ~Free(w) ~> Free(w)

AtRest == \A w \in Slot : Free(w)

\* With handlers that never overlap and no failure, the host serves exactly the
\* active users whenever the panel is at rest.
HostMatchesAtRest ==
  (AtRest /\ faults = 0) =>
    /\ {p \in Profiles(live) : IsPanel(p)} = DesiredProfiles
    /\ loaded = live

\* service.Revoke "removes an active profile from the host": when it returns
\* without an error and the user is still revoked, the host has no profile of
\* that user.
RevokeRemovesProfile ==
  \A w \in Slot :
    (handler[w].pc = "done" /\ handler[w].op = "revoke"
       /\ handler[w].result = "applied"
       /\ HasStatus(handler[w].id, {"revoked"}))
      => \A p \in Profiles(live) : p.name # handler[w].tg

\* service.Delete: "Active and pending users must be revoked or denied first".
DeletesOnlyRevokedOrDenied ==
  [][\A id \in RowId :
       (Exists(id) /\ ~Exists(id)') => HasStatus(id, {"revoked", "denied"})]_vars

\* "If health check fails: restore profiles.json from latest backup": a profile
\* whose issue failed the health check is not left in the live file.
UnhealthyIssueIsUndone ==
  [][\A w \in Slot :
       (Serving(w, "health") /\ handler'[w].pc = "rollback_clear")
         => \A p \in Profiles(live') : p.name # handler[w].tg]_vars

\* store.DeleteUser: audit rows never refer to a deleted user, "so the FK stays
\* valid".
AuditRefersToUsers == \A id \in auditRefs : Exists(id)

\* Request reports a failed statement to its caller.
RequestReturnsErrors == \A w \in Slot : handler[w].result # "panic"
==============================================================================
