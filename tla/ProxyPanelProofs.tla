--------------------------- MODULE ProxyPanelProofs ---------------------------
(***************************************************************************)
(* Theorems about ProxyPanel.  A step of the panel is a statement of the   *)
(* store, a move of the handlers and a move on the host; the lemmas say so *)
(* once for every action of Next, and treat each of the three by itself.   *)
(***************************************************************************)
EXTENDS ProxyPanel, HostApplyProofs

\* What a handler carries: whom it serves, and a list the database committed.
HandlerInv ==
  /\ HandlerTypeOK
  /\ \A w \in Slot : /\ handler[w].pc \in Step => handler[w].tg \in User
                     /\ handler[w].cand \subseteq issued

\* Every profile in the table was recorded as issued.
RowsIssued ==
  \A id \in RowId :
    (Exists(id) /\ users[id].secret # None) =>
      [name |-> users[id].tg, secret |-> users[id].secret] \in issued

------------------------------------------------------------------------------
(* The store.                                                              *)

\* At most one statement is executed in a step.
StoreStatement ==
  \/ \E tg \in User : CanCreate(tg) /\ CreateUser(tg)
  \/ \E id \in RowId, st \in Status : Exists(id) /\ UpdateUserStatus(id, st)
  \/ \E id \in RowId, s \in FreshSecret : Exists(id) /\ SetUserProfile(id, s)
  \/ \E id \in RowId : Exists(id) /\ ClearUserProfile(id)
  \/ \E id \in RowId : DeleteUser(id)
  \/ \E id \in RowId : AppendAuditLog(id)
  \/ \E b \in BOOLEAN : SetSetting(b)
  \/ UNCHANGED storeVars

\* A row that exists has the columns of a row.
LEMMA RowTypes ==
  ASSUME StoreTypeOK, NEW id \in RowId, Exists(id)
  PROVE  /\ users[id] \in Row
         /\ users[id].tg \in User
         /\ users[id].status \in Status
         /\ users[id].secret \in Secret \cup {None}
<1>1. users[id] \in Row
  BY DEF StoreTypeOK, Exists
<1>2. QED
  BY <1>1 DEF Row

\* Every statement keeps the tables' types, keeps every profile of the table
\* recorded as issued, and forgets none that was.
LEMMA StatementKeepsStore ==
  ASSUME StoreTypeOK, RowsIssued, StoreStatement
  PROVE  StoreTypeOK' /\ RowsIssued' /\ issued \subseteq issued'
<1> USE DEF StoreTypeOK, RowsIssued, Exists
<1>0. MaxRows \in Nat /\ RowId = 1 .. MaxRows
  BY StoreAssumption DEF RowId
<1>1. CASE \E tg \in User : CanCreate(tg) /\ CreateUser(tg)
  <2> PICK tg \in User : CanCreate(tg) /\ CreateUser(tg)
    BY <1>1
  <2> DEFINE new == [tg |-> tg, status |-> "pending", secret |-> None]
  <2>1. new \in Row
    BY DEF Row, Status
  <2>2. users' = [users EXCEPT ![nextId] = new] /\ nextId \in RowId
    BY DEF CreateUser, CanCreate
  <2>3. nextId + 1 \in 1 .. MaxRows + 1
    BY <1>0, <2>2
  <2>4. QED
    BY <2>1, <2>2, <2>3 DEF CreateUser
<1>2. CASE \E id \in RowId, st \in Status : Exists(id) /\ UpdateUserStatus(id, st)
  <2> PICK id \in RowId, st \in Status : Exists(id) /\ UpdateUserStatus(id, st)
    BY <1>2
  <2> DEFINE new == [users[id] EXCEPT
                       !.status = st,
                       !.secret = IF st = "revoked" THEN None ELSE users[id].secret]
  <2>0. users[id] \in Row
    BY RowTypes
  <2>1. /\ new \in Row /\ new.tg = users[id].tg
        /\ new.secret \in {None, users[id].secret}
    BY <2>0 DEF Row
  <2>2. users' = [users EXCEPT ![id] = new]
    BY <2>0 DEF UpdateUserStatus, Row
  <2>3. QED
    BY <2>1, <2>2 DEF UpdateUserStatus
<1>3. CASE \E id \in RowId, s \in FreshSecret : Exists(id) /\ SetUserProfile(id, s)
  <2> PICK id \in RowId, s \in FreshSecret : Exists(id) /\ SetUserProfile(id, s)
    BY <1>3
  <2> DEFINE new == [users[id] EXCEPT !.status = "active", !.secret = s]
             p   == [name |-> users[id].tg, secret |-> s]
  <2>0. users[id] \in Row /\ users[id].tg \in User /\ s \in Secret
    BY RowTypes DEF FreshSecret
  <2>1. new \in Row /\ new.tg = users[id].tg /\ new.secret = s
    BY <2>0 DEF Row, Status
  <2>2. users' = [users EXCEPT ![id] = new]
    BY <2>0 DEF SetUserProfile, Row
  <2>3. p \in PanelProfile /\ issued' = issued \cup {p}
    BY <2>0 DEF PanelProfile, SetUserProfile
  <2>4. QED
    BY <2>1, <2>2, <2>3 DEF SetUserProfile
<1>4. CASE \E id \in RowId : Exists(id) /\ ClearUserProfile(id)
  <2> PICK id \in RowId : Exists(id) /\ ClearUserProfile(id)
    BY <1>4
  <2> DEFINE new == [users[id] EXCEPT !.secret = None]
  <2>0. users[id] \in Row
    BY RowTypes
  <2>1. new \in Row /\ new.secret = None
    BY <2>0 DEF Row
  <2>2. users' = [users EXCEPT ![id] = new]
    BY <2>0 DEF ClearUserProfile, Row
  <2>3. QED
    BY <2>1, <2>2 DEF ClearUserProfile
<1>5. CASE \E id \in RowId : DeleteUser(id)
  BY <1>5 DEF DeleteUser
<1>6. CASE \E id \in RowId : AppendAuditLog(id)
  BY <1>6 DEF AppendAuditLog
<1>7. CASE \E b \in BOOLEAN : SetSetting(b)
  BY <1>7 DEF SetSetting
<1>8. CASE UNCHANGED storeVars
  BY <1>8 DEF storeVars
<1>9. QED
  BY <1>1, <1>2, <1>3, <1>4, <1>5, <1>6, <1>7, <1>8 DEF StoreStatement

\* Rows stay apart: an id is given once, no user has two rows, and no secret is
\* another user's or that of a profile the panel does not own.
RowsApart ==
  /\ \A id \in RowId : id >= nextId => ~Exists(id)
  /\ \A i, j \in RowId :
       (i # j /\ Exists(i) /\ Exists(j)) =>
         /\ users[i].tg # users[j].tg
         /\ users[i].secret # None => users[i].secret # users[j].secret
  /\ \A id \in RowId :
       Exists(id) => users[id].secret \notin SecretsOf(ForeignProfile)

\* The foreign profiles have secrets.
LEMMA ForeignSecrets == SecretsOf(ForeignProfile) \subseteq Secret
<1>1. \A p \in ForeignProfile : p.secret \in Secret
  BY ProfileAssumption
<1>2. QED
  BY <1>1 DEF SecretsOf

\* A statement that changes one row keeps them apart when the row keeps its user
\* and its secret is its old one, none or a fresh one.
LEMMA RowChangeKeepsApart ==
  ASSUME StoreTypeOK, RowsIssued, RowsApart, NEW id \in RowId, Exists(id),
         NEW row \in Row, row.tg = users[id].tg,
         row.secret \in {users[id].secret, None} \cup FreshSecret,
         users' = [users EXCEPT ![id] = row], nextId' = nextId
  PROVE  RowsApart'
<1> USE DEF StoreTypeOK, RowsApart, Exists
<1>1. ASSUME NEW i \in RowId, Exists(i), users[i].secret # None
      PROVE  users[i].secret \in SecretsOf(issued)
  <2> DEFINE p == [name |-> users[i].tg, secret |-> users[i].secret]
  <2>1. p \in issued
    BY <1>1 DEF RowsIssued
  <2>2. p.secret = users[i].secret
    OBVIOUS
  <2>3. QED
    BY <2>1, <2>2 DEF SecretsOf
<1>2. /\ \A x \in FreshSecret : x \notin SecretsOf(issued) \cup SecretsOf(ForeignProfile)
      /\ None \notin FreshSecret
      /\ None \notin SecretsOf(ForeignProfile)
  <2>1. None \notin Secret
    BY ProfileAssumption
  <2>2. QED
    BY <2>1, ForeignSecrets DEF FreshSecret
<1>3. /\ users'[id] = row
      /\ \A i \in RowId \ {id} : users'[i] = users[i]
  OBVIOUS
<1>4. row.secret \notin SecretsOf(ForeignProfile)
  BY <1>2
<1>5. ASSUME NEW i \in RowId \ {id}, Exists(i)
      PROVE  /\ row.tg # users[i].tg
             /\ row.secret # None => row.secret # users[i].secret
             /\ users[i].secret # None => row.secret # users[i].secret
  BY <1>1, <1>2, <1>5
<1>6. QED
  BY <1>3, <1>4, <1>5

\* Every statement keeps the rows apart.
LEMMA StatementKeepsApart ==
  ASSUME StoreTypeOK, RowsIssued, RowsApart, StoreStatement
  PROVE  RowsApart'
<1> USE DEF StoreTypeOK, Exists
<1>0. MaxRows \in Nat /\ RowId = 1 .. MaxRows
  BY StoreAssumption DEF RowId
<1>1. CASE \E tg \in User : CanCreate(tg) /\ CreateUser(tg)
  <2> PICK tg \in User : CanCreate(tg) /\ CreateUser(tg)
    BY <1>1
  <2> DEFINE new == [tg |-> tg, status |-> "pending", secret |-> None]
  <2>1. /\ users' = [users EXCEPT ![nextId] = new] /\ nextId' = nextId + 1
        /\ nextId \in RowId
        /\ \A id \in RowId : Exists(id) => users[id].tg # tg
    BY DEF CreateUser, CanCreate, RowsOf
  <2>2. None \notin SecretsOf(ForeignProfile)
    BY ForeignSecrets, ProfileAssumption
  <2>3. \A id \in RowId : id >= nextId' => ~Exists(id)'
    BY <1>0, <2>1 DEF RowsApart
  <2>4. QED
    BY <2>1, <2>2, <2>3 DEF RowsApart
<1>2. CASE \E id \in RowId, st \in Status : Exists(id) /\ UpdateUserStatus(id, st)
  <2> PICK id \in RowId, st \in Status : Exists(id) /\ UpdateUserStatus(id, st)
    BY <1>2
  <2> DEFINE row == [users[id] EXCEPT
                       !.status = st,
                       !.secret = IF st = "revoked" THEN None ELSE users[id].secret]
  <2>1. users[id] \in Row
    BY RowTypes
  <2>2. row \in Row /\ row.tg = users[id].tg /\ row.secret \in {users[id].secret, None}
    BY <2>1 DEF Row
  <2>3. users' = [users EXCEPT ![id] = row] /\ nextId' = nextId
    BY <2>1 DEF UpdateUserStatus, Row
  <2>4. QED
    BY <2>2, <2>3, RowChangeKeepsApart
<1>3. CASE \E id \in RowId, s \in FreshSecret : Exists(id) /\ SetUserProfile(id, s)
  <2> PICK id \in RowId, s \in FreshSecret : Exists(id) /\ SetUserProfile(id, s)
    BY <1>3
  <2> DEFINE row == [users[id] EXCEPT !.status = "active", !.secret = s]
  <2>1. users[id] \in Row /\ s \in Secret
    BY RowTypes DEF FreshSecret
  <2>2. row \in Row /\ row.tg = users[id].tg /\ row.secret = s
    BY <2>1 DEF Row, Status
  <2>3. users' = [users EXCEPT ![id] = row] /\ nextId' = nextId
    BY <2>1 DEF SetUserProfile, Row
  <2>4. QED
    BY <2>2, <2>3, RowChangeKeepsApart
<1>4. CASE \E id \in RowId : Exists(id) /\ ClearUserProfile(id)
  <2> PICK id \in RowId : Exists(id) /\ ClearUserProfile(id)
    BY <1>4
  <2> DEFINE row == [users[id] EXCEPT !.secret = None]
  <2>1. users[id] \in Row
    BY RowTypes
  <2>2. row \in Row /\ row.tg = users[id].tg /\ row.secret = None
    BY <2>1 DEF Row
  <2>3. users' = [users EXCEPT ![id] = row] /\ nextId' = nextId
    BY <2>1 DEF ClearUserProfile, Row
  <2>4. QED
    BY <2>2, <2>3, RowChangeKeepsApart
<1>5. CASE \E id \in RowId : DeleteUser(id)
  BY <1>5 DEF DeleteUser, RowsApart
<1>6. CASE (\E id \in RowId : AppendAuditLog(id)) \/ (\E b \in BOOLEAN : SetSetting(b))
           \/ UNCHANGED storeVars
  BY <1>6 DEF AppendAuditLog, SetSetting, storeVars, RowsApart
<1>7. QED
  BY <1>1, <1>2, <1>3, <1>4, <1>5, <1>6 DEF StoreStatement

\* What apply lists are profiles, and recorded as issued.
LEMMA DesiredAreIssued ==
  ASSUME StoreTypeOK, RowsIssued, \A id \in RowId : ~ActiveWithoutProfile(id)
  PROVE  DesiredProfiles \subseteq issued /\ issued \subseteq PanelProfile
<1>1. ASSUME NEW id \in RowId, HasStatus(id, {"active"})
      PROVE  [name |-> users[id].tg, secret |-> users[id].secret] \in issued
  BY <1>1 DEF HasStatus, RowsIssued, ActiveWithoutProfile
<1>2. QED
  BY <1>1 DEF DesiredProfiles, StoreTypeOK

------------------------------------------------------------------------------
(* The handlers.                                                           *)

\* A handler moves on: it keeps whom it serves, and its list is an issued one.
LEMMA MoveKeepsHandlers ==
  ASSUME HandlerInv, NEW w \in Slot, NEW h \in Handler,
         handler' = [handler EXCEPT ![w] = h],
         h.pc \in Step => h.tg \in User, h.cand \subseteq issued,
         issued \subseteq issued'
  PROVE  HandlerInv'
BY DEF HandlerInv, HandlerTypeOK

\* Idle is a handler without a list.
LEMMA IdleTypes == Idle \in Handler /\ Idle.cand = {} /\ Idle.pc \notin Step
BY StoreAssumption DEF Idle, Handler, Op, Status, Result, RowId, Step

\* The forms in which the actions move a handler that is serving on.
LEMMA FormsOfMoves ==
  ASSUME HandlerInv, NEW w \in Slot, handler[w].pc \in Step,
         issued \subseteq issued',
         \/ \E pc \in Step \cup {"done"} : Proceed(w, pc)
         \/ \E r \in Result : Done(w, r) \/ Audit(w, r)
         \/ OnError(w)
         \/ ApplyFails(w)
  PROVE  HandlerInv'
<1>0. handler[w] \in Handler /\ handler[w].tg \in User /\ handler[w].cand \subseteq issued
  BY DEF HandlerInv, HandlerTypeOK
<1>1. ASSUME NEW pc \in Step \cup {"done"}, Proceed(w, pc) PROVE HandlerInv'
  <2> DEFINE h == [handler[w] EXCEPT !.pc = pc]
  <2>1. h \in Handler /\ h.tg = handler[w].tg /\ h.cand = handler[w].cand
    BY <1>0 DEF Handler
  <2>2. handler' = [handler EXCEPT ![w] = h]
    BY <1>1 DEF Proceed
  <2>3. QED
    BY <1>0, <2>1, <2>2, MoveKeepsHandlers
<1>2. ASSUME NEW pc \in {"done", "audit"}, NEW r \in Result,
             handler' = [handler EXCEPT ![w].pc = pc, ![w].result = r]
      PROVE  HandlerInv'
  <2> DEFINE h == [handler[w] EXCEPT !.pc = pc, !.result = r]
  <2>1. h \in Handler /\ h.tg = handler[w].tg /\ h.cand = handler[w].cand
    BY <1>0 DEF Handler, Step
  <2>2. handler' = [handler EXCEPT ![w] = h]
    BY <1>2
  <2>3. QED
    BY <1>0, <2>1, <2>2, MoveKeepsHandlers
<1>3. ASSUME NEW r \in Result, Done(w, r) \/ Audit(w, r) PROVE HandlerInv'
  BY <1>2, <1>3 DEF Done, Audit
<1>4. ASSUME ApplyFails(w) PROVE HandlerInv'
  BY <1>1, <1>3, <1>4 DEF ApplyFails, Result, Step
<1>5. ASSUME OnError(w) PROVE HandlerInv'
  BY <1>1, <1>3, <1>4, <1>5 DEF OnError, Result, Step
<1>6. QED
  BY <1>1, <1>3, <1>4, <1>5

------------------------------------------------------------------------------
(* The actions of Next.                                                    *)

PanelInv1 == StoreTypeOK /\ HandlerInv /\ RowsIssued

\* The fields of the handler an action moves on.
LEMMA HandlerFields ==
  ASSUME HandlerInv, NEW w \in Slot
  PROVE  /\ handler[w] \in Handler
         /\ handler[w].id \in RowId
         /\ handler[w].prev \in Status
         /\ handler[w].cand \in SUBSET PanelProfile
         /\ handler[w].cand \subseteq issued
         /\ handler[w].pc \in Step => handler[w].tg \in User
BY DEF HandlerInv, HandlerTypeOK, Handler

\* A handler starts with the row it read or the user it was called for.
LEMMA StartsKeepHandlers ==
  ASSUME PanelInv1, NEW w \in Slot, HandlerStarts(w)
  PROVE  /\ HandlerInv'
         /\ UNCHANGED <<storeVars, hostVars>>
<1> USE DEF PanelInv1
<1>1. ASSUME NEW h \in Handler, h.tg \in User, h.cand = {}, Begin(w, h)
      PROVE  HandlerInv' /\ UNCHANGED <<storeVars, hostVars>>
  <2> DEFINE alone == \A u \in Slot \ {w} : Free(u)
             mine == [h EXCEPT !.alone = alone]
             other(v) == [handler[v] EXCEPT !.alone = FALSE]
  <2>1. mine \in Handler /\ mine.tg = h.tg /\ mine.cand = {}
    BY <1>1 DEF Handler
  <2>2. ASSUME NEW v \in Slot
        PROVE  /\ other(v) \in Handler
               /\ other(v).tg = handler[v].tg /\ other(v).pc = handler[v].pc
               /\ other(v).cand = handler[v].cand
    BY HandlerFields DEF Handler
  <2>3. handler' = [v \in Slot |-> IF v = w THEN mine ELSE other(v)]
    BY <1>1 DEF Begin
  <2>4. issued' = issued /\ UNCHANGED <<storeVars, hostVars>>
    BY <1>1 DEF Begin, storeVars
  <2>5. HandlerTypeOK'
    BY <2>1, <2>2, <2>3 DEF HandlerTypeOK
  <2>6. ASSUME NEW v \in Slot
        PROVE  /\ handler'[v].pc \in Step => handler'[v].tg \in User
               /\ handler'[v].cand \subseteq issued'
    BY <1>1, <2>1, <2>2, <2>3, <2>4, HandlerFields
  <2>7. QED
    BY <2>4, <2>5, <2>6 DEF HandlerInv
<1>2. ASSUME NEW id \in RowId, Exists(id), NEW op \in Op, NEW pc \in Step,
             BeginAtRow(w, op, id, pc)
      PROVE  HandlerInv' /\ UNCHANGED <<storeVars, hostVars>>
  <2> DEFINE h == [Idle EXCEPT !.pc = pc, !.op = op, !.id = id,
                               !.tg = users[id].tg, !.prev = users[id].status]
  <2>1. users[id].tg \in User /\ users[id].status \in Status
    BY <1>2, RowTypes
  <2>2. h \in Handler /\ h.tg \in User /\ h.cand = {}
    BY <2>1, IdleTypes DEF Handler
  <2>3. Begin(w, h)
    BY <1>2 DEF BeginAtRow
  <2>4. QED
    BY <1>1, <2>2, <2>3
<1>3. ASSUME NEW tg \in User, RequestNew(w, tg)
      PROVE  HandlerInv' /\ UNCHANGED <<storeVars, hostVars>>
  <2> DEFINE h == [Idle EXCEPT !.pc = "create", !.op = "request", !.tg = tg]
  <2>1. h \in Handler /\ h.tg \in User /\ h.cand = {}
    BY IdleTypes DEF Handler, Step, Op
  <2>2. Begin(w, h)
    BY <1>3 DEF RequestNew
  <2>3. QED
    BY <1>1, <2>1, <2>2
<1>4. ASSUME NEW id \in RowId,
             \/ Approve(w, id) \/ Revoke(w, id) \/ Deny(w, id) \/ Delete(w, id)
             \/ Resend(w, id) \/ RequestAgain(w, id)
      PROVE  \E op \in Op, pc \in Step :
               Exists(id) /\ BeginAtRow(w, op, id, pc)
  BY <1>4 DEF Approve, Revoke, Deny, Delete, Resend, RequestAgain, HasStatus,
              Op, Step
<1>5. QED
  BY <1>2, <1>3, <1>4 DEF HandlerStarts

\* Every step of a handler in the service executes one statement at most,
\* moves its handler on and leaves the host alone.
LEMMA ServiceKeepsHandlers ==
  ASSUME PanelInv1, NEW w \in Slot, ServiceStep(w)
  PROVE  StoreStatement /\ HandlerInv' /\ UNCHANGED hostVars
<1> DEFINE Moves == \/ \E pc \in Step \cup {"done"} : Proceed(w, pc)
                    \/ \E r \in Result : Done(w, r) \/ Audit(w, r)
                    \/ OnError(w)
           Still == StoreStatement /\ UNCHANGED hostVars
           Good  == StoreStatement /\ HandlerInv' /\ UNCHANGED hostVars
<1> USE DEF PanelInv1
<1>0. /\ handler[w] \in Handler /\ handler[w].id \in RowId
      /\ handler[w].prev \in Status /\ handler[w].cand \subseteq issued
      /\ handler[w].pc \in Step => handler[w].tg \in User
  BY HandlerFields
<1>1. ASSUME StoreStatement PROVE issued \subseteq issued'
  BY <1>1, StatementKeepsStore
<1>2. ASSUME StoreStatement, UNCHANGED hostVars, handler[w].pc \in Step, Moves
      PROVE  Good
  BY <1>1, <1>2, FormsOfMoves
<1>3. ASSUME Unchanged PROVE StoreStatement /\ UNCHANGED hostVars
  BY <1>3 DEF Unchanged, StoreStatement
<1>4. ASSUME StepRefused(w), handler[w].pc \in Step PROVE Good
  BY <1>2, <1>3, <1>4 DEF StepRefused
<1>5. CASE \/ SetPendingStep(w) \/ RollbackClear(w) \/ RollbackStatus(w)
           \/ RevokeWrite(w) \/ DenyWrite(w)
  <2>1. handler[w].pc \in Step
    BY <1>5 DEF SetPendingStep, RollbackClear, RollbackStatus, RevokeWrite,
                DenyWrite, Serving, Step
  <2>2. CASE StepRefused(w)
    BY <1>4, <2>1, <2>2
  <2>3. CASE ~StepRefused(w)
    <3>1. StoreStatement
      BY <1>0, <1>5, <2>3 DEF SetPendingStep, RollbackClear, RollbackStatus,
           RevokeWrite, DenyWrite, StoreStatement, Status
    <3>2. UNCHANGED hostVars /\ Moves
      BY <1>5, <2>3 DEF SetPendingStep, RollbackClear, RollbackStatus,
           RevokeWrite, DenyWrite, Step
    <3>3. QED
      BY <1>2, <2>1, <3>1, <3>2
  <2>4. QED
    BY <2>2, <2>3
<1>6. CASE \/ PendingRead(w) \/ IssueRead(w) \/ RollbackRead(w) \/ RevokeRead(w)
           \/ RevokeCheck(w) \/ DenyRead(w) \/ AutoIssueStep(w)
  <2>1. handler[w].pc \in Step
    BY <1>6 DEF PendingRead, IssueRead, RollbackRead, RevokeRead, RevokeCheck,
                DenyRead, AutoIssueStep, Serving, Step
  <2>2. Unchanged
    BY <1>6 DEF PendingRead, IssueRead, RollbackRead, RevokeRead, RevokeCheck,
                DenyRead, AutoIssueStep, StepRefused
  <2>3. Moves
    BY <1>6 DEF PendingRead, IssueRead, RollbackRead, RevokeRead, RevokeCheck,
                DenyRead, AutoIssueStep, StepRefused, Step, Result
  <2>4. QED
    BY <1>2, <1>3, <2>1, <2>2, <2>3
<1>7. CASE DeleteAudit(w) \/ AuditStep(w)
  <2>1. handler[w].pc \in Step /\ UNCHANGED hostVars /\ Moves
    BY <1>7 DEF DeleteAudit, AuditStep, Serving, Step
  <2>2. StoreStatement
    BY <1>0, <1>7 DEF DeleteAudit, AuditStep, StoreStatement
  <2>3. QED
    BY <1>2, <2>1, <2>2
<1>8. CASE DeleteRow(w)
  <2>1. handler[w].pc \in Step
    BY <1>8 DEF DeleteRow, Serving, Step
  <2>2. CASE StepRefused(w)
    BY <1>4, <2>1, <2>2
  <2>3. CASE ~StepRefused(w)
    <3>1. UNCHANGED hostVars /\ Moves
      BY <1>8, <2>3 DEF DeleteRow, Result
    <3>2. StoreStatement
      BY <1>0, <1>8, <2>3 DEF DeleteRow, StoreStatement
    <3>3. QED
      BY <1>2, <2>1, <3>1, <3>2
  <2>4. QED
    BY <2>2, <2>3
<1>9. CASE CreateStep(w)
  <2>1. handler[w].pc \in Step
    BY <1>9 DEF CreateStep, Serving, Step
  <2>2. CASE StepRefused(w)
    BY <1>4, <2>1, <2>2
  <2>3. CASE ~StepRefused(w)
    <3> DEFINE h == [handler[w] EXCEPT !.pc = "create_read", !.id = nextId]
    <3>1. /\ CanCreate(handler[w].tg) /\ CreateUser(handler[w].tg)
          /\ handler' = [handler EXCEPT ![w].pc = "create_read", ![w].id = nextId]
          /\ UNCHANGED hostVars
      BY <1>9, <2>3 DEF CreateStep
    <3>2. StoreStatement
      BY <1>0, <2>1, <3>1 DEF StoreStatement
    <3>3. nextId \in RowId
      BY <3>1 DEF CanCreate
    <3>4. h \in Handler /\ h.tg = handler[w].tg /\ h.cand = handler[w].cand
      BY <1>0, <3>3 DEF Handler, Step
    <3>5. handler' = [handler EXCEPT ![w] = h]
      BY <3>1
    <3>6. HandlerInv'
      BY <1>0, <1>1, <2>1, <3>2, <3>4, <3>5, MoveKeepsHandlers
    <3>7. QED
      BY <3>1, <3>2, <3>6
  <2>4. QED
    BY <2>2, <2>3
<1>10. CASE CreateRead(w)
  <2>1. handler[w].pc \in Step
    BY <1>10 DEF CreateRead, Serving, Step
  <2>2. CASE StepRefused(w)
    BY <1>4, <2>1, <2>2
  <2>3. CASE ~StepRefused(w)
    <3> DEFINE id == handler[w].id
               h  == [handler[w] EXCEPT !.pc = "auto_issue",
                        !.prev = users[id].status, !.secret = users[id].secret]
    <3>1. Exists(id) /\ Unchanged
      BY <1>10, <2>3 DEF CreateRead
    <3>2. h \in Handler /\ h.tg = handler[w].tg /\ h.cand = handler[w].cand
      BY <1>0, <3>1, RowTypes DEF Handler, Step
    <3>3. handler' = [handler EXCEPT ![w] = h]
      BY <1>10, <2>3 DEF CreateRead
    <3>4. HandlerInv'
      BY <1>0, <1>1, <1>3, <2>1, <3>1, <3>2, <3>3, MoveKeepsHandlers
    <3>5. QED
      BY <1>3, <3>1, <3>4
  <2>4. QED
    BY <2>2, <2>3
<1>11. CASE IssueWrite(w)
  <2>1. handler[w].pc \in Step
    BY <1>11 DEF IssueWrite, Serving, Step
  <2>2. CASE StepRefused(w)
    BY <1>4, <2>1, <2>2
  <2>3. CASE ~StepRefused(w)
    <3>1. PICK s \in FreshSecret :
            /\ SetUserProfile(handler[w].id, s)
            /\ handler' = [handler EXCEPT ![w].pc = "issue_read", ![w].secret = s]
      BY <1>11, <2>3 DEF IssueWrite
    <3> DEFINE h == [handler[w] EXCEPT !.pc = "issue_read", !.secret = s]
    <3>2. Exists(handler[w].id) /\ UNCHANGED hostVars
      BY <1>11, <2>3 DEF IssueWrite
    <3>3. s \in Secret
      BY DEF FreshSecret
    <3>4. StoreStatement
      BY <1>0, <3>1, <3>2 DEF StoreStatement
    <3>5. h \in Handler /\ h.tg = handler[w].tg /\ h.cand = handler[w].cand
      BY <1>0, <3>3 DEF Handler, Step
    <3>6. handler' = [handler EXCEPT ![w] = h]
      BY <3>1
    <3>7. HandlerInv'
      BY <1>0, <1>1, <2>1, <3>4, <3>5, <3>6, MoveKeepsHandlers
    <3>8. QED
      BY <3>2, <3>4, <3>7
  <2>4. QED
    BY <2>2, <2>3
<1>12. CASE IssueCheck(w)
  <2>1. handler[w].pc \in Step
    BY <1>12 DEF IssueCheck, Serving, Step
  <2>2. CASE StepRefused(w)
    BY <1>4, <2>1, <2>2
  <2>3. CASE ~StepRefused(w)
    <3> DEFINE h == [handler[w] EXCEPT !.pc = "apply_list", !.secret = None]
    <3>1. Unchanged /\ handler' = [handler EXCEPT ![w] = h]
      BY <1>12, <2>3 DEF IssueCheck
    <3>2. h \in Handler /\ h.tg = handler[w].tg /\ h.cand = handler[w].cand
      BY <1>0 DEF Handler, Step
    <3>3. HandlerInv'
      BY <1>0, <1>1, <1>3, <2>1, <3>1, <3>2, MoveKeepsHandlers
    <3>4. QED
      BY <1>3, <3>1, <3>3
  <2>4. QED
    BY <2>2, <2>3
<1>13. QED
  BY <1>5, <1>6, <1>7, <1>8, <1>9, <1>10, <1>11, <1>12 DEF ServiceStep

------------------------------------------------------------------------------
(* The host.                                                               *)

\* A step of the panel does at most this to the host: start the script on an
\* issued list, let one run go on, or lose all of them in a crash.  MTProxy may
\* return at any time.
HostMove ==
  \/ \E w \in Slot, c \in SUBSET PanelProfile :
       c \subseteq issued /\ StartScript(w, c)
  \/ \E w \in Slot : ScriptProgress(w) \/ ScriptFailure(w) \/ ReapScript(w)
  \/ MtproxyComesBack
  \/ UNCHANGED hostVars
  \/ /\ Fault
     /\ UNCHANGED hostFiles
     /\ script' \in {script, [w \in Slot |-> NoScript]}

\* A host move is a step of the script, MTProxy's return, none at all, or a
\* failure outside it.
LEMMA HostMoveCases ==
  ASSUME HostMove
  PROVE  \/ \E w \in Slot : ScriptAction(w)
         \/ MtproxyComesBack
         \/ UNCHANGED hostVars
         \/ /\ Fault
            /\ UNCHANGED hostFiles
            /\ script' \in {script, [w \in Slot |-> NoScript]}
BY DEF HostMove, ScriptAction

\* The invariant of the script's runs survives every step of the panel; in
\* particular a crash in the middle of several runs.
LEMMA HostMoveKeepsInv ==
  ASSUME HostTypeOK, HostInv, HostMove
  PROVE  HostTypeOK' /\ HostInv'
<1>1. CASE \E w \in Slot : ScriptAction(w)
  BY <1>1, ScriptKeepsInv
<1>2. CASE UNCHANGED hostVars
  BY <1>2, HostStutters
<1>3. CASE /\ Fault
           /\ UNCHANGED hostFiles
           /\ script' \in {script, [w \in Slot |-> NoScript]}
  <2>1. faults' \in 0 .. MaxFaults /\ faults' # 0
    BY <1>3, HostAssumption DEF Fault, HostTypeOK
  <2>2. HostTypeOK'
    BY <1>3, <2>1, ResetTypes DEF HostTypeOK, hostFiles
  <2>3. \A w \in Slot : RunInv(w)'
    BY <1>3 DEF HostInv, RunInv, FileInv, NoScript
  <2>4. HostInv'
    BY <1>3, <2>1, <2>3 DEF HostInv, FileInv, Profiles, hostFiles
  <2>5. QED
    BY <2>2, <2>4
<1>4. CASE MtproxyComesBack
  BY <1>4, MtproxyReturns
<1>5. QED
  BY <1>1, <1>2, <1>3, <1>4, HostMoveCases

\* What a run or the host may hold: issued profiles and those found at the start.
Allowed == issued \cup ForeignProfile

RunIssued(w) ==
  /\ script[w].cand \subseteq issued
  /\ script[w].merged \subseteq Allowed
  /\ Profiles(script[w].backup) \subseteq Allowed
  /\ script[w].secrets \subseteq SecretsOf(Allowed)

FilesIssued ==
  /\ Profiles(live) \cup Profiles(loaded) \subseteq Allowed
  /\ Profiles(secretsFile) \cup Profiles(mtLoaded) \subseteq SecretsOf(Allowed)

HostIssued == FilesIssued /\ \A w \in Slot : RunIssued(w)

\* What is allowed stays allowed.
LEMMA AllowedGrows ==
  ASSUME issued \subseteq issued'
  PROVE  Allowed \subseteq Allowed' /\ SecretsOf(Allowed) \subseteq SecretsOf(Allowed')
BY DEF Allowed, SecretsOf

\* A step of one run keeps what the other runs hold allowed.
LEMMA OthersStayIssued ==
  ASSUME NEW w \in Slot, HostTypeOK, HostIssued, ScriptAction(w),
         issued \subseteq issued'
  PROVE  \A v \in Slot \ {w} : RunIssued(v)'
<1> TAKE v \in Slot \ {w}
<1>1. /\ script'[v].cand = script[v].cand
      /\ script'[v].merged = script[v].merged
      /\ script'[v].secrets = script[v].secrets
      /\ script'[v].backup \in {script[v].backup, None}
  BY OtherRuns
<1>2. RunIssued(v)
  BY DEF HostIssued
<1>3. QED
  BY <1>1, <1>2, AllowedGrows DEF RunIssued, Profiles

\* A run takes nothing from anywhere but the files and its list: what it and
\* the host then hold was allowed before.
LEMMA RunMovesAllowed ==
  ASSUME NEW w \in Slot, HostTypeOK, HostIssued,
         ScriptProgress(w) \/ ScriptFailure(w) \/ ReapScript(w)
  PROVE  /\ Profiles(live') \cup Profiles(loaded') \subseteq Allowed
         /\ Profiles(secretsFile') \cup Profiles(mtLoaded') \subseteq SecretsOf(Allowed)
         /\ script'[w].cand \subseteq issued
         /\ script'[w].merged \subseteq Allowed
         /\ Profiles(script'[w].backup) \subseteq Allowed
         /\ script'[w].secrets \subseteq SecretsOf(Allowed)
<1> DEFINE Files == /\ Profiles(live') \cup Profiles(loaded') \subseteq Allowed
                    /\ Profiles(secretsFile') \cup Profiles(mtLoaded')
                         \subseteq SecretsOf(Allowed)
           Run == /\ script'[w].cand \subseteq issued
                  /\ script'[w].merged \subseteq Allowed
                  /\ Profiles(script'[w].backup) \subseteq Allowed
                  /\ script'[w].secrets \subseteq SecretsOf(Allowed)
<1>0. /\ script[w] \in ScriptRun /\ script \in [Slot -> ScriptRun]
      /\ FilesIssued /\ RunIssued(w)
  BY DEF HostTypeOK, HostIssued
<1>a. Profiles(None) = {}
  BY DEF Profiles
<1>b. ASSUME UNCHANGED hostFiles PROVE Files
  BY <1>0, <1>b DEF hostFiles, FilesIssued
<1>c. ASSUME NEW pc, script' = [script EXCEPT ![w].pc = pc] PROVE Run
  BY <1>0, <1>c DEF RunIssued, ScriptRun
<1>d. ASSUME NEW pc, script' = [script EXCEPT ![w] = [NoScript EXCEPT !.pc = pc]]
      PROVE  Run
  BY <1>0, <1>a, <1>d DEF NoScript
<1>1. CASE MergeStep(w)
  <2> DEFINE m == MergedProfiles(live, script[w].cand)
  <2>1. m \subseteq Allowed
    BY <1>0 DEF MergedProfiles, FilesIssued, RunIssued, Allowed
  <2>2. CASE Unique(m)
    <3>1. /\ script'[w].merged = m
          /\ script'[w].cand = script[w].cand
          /\ script'[w].backup = script[w].backup
          /\ script'[w].secrets = script[w].secrets
      BY <1>0, <1>1, <2>2 DEF MergeStep, ScriptRun
    <3>2. QED
      BY <1>0, <1>1, <1>b, <2>1, <3>1 DEF MergeStep, RunIssued
  <2>3. CASE ~Unique(m)
    BY <1>1, <1>b, <1>d, <2>3 DEF MergeStep, Fail
  <2>4. QED
    BY <2>2, <2>3
<1>2. CASE BackupStep(w)
  <2>1. /\ script'[w].merged = script[w].merged
        /\ script'[w].cand = script[w].cand
        /\ script'[w].backup \in {None, live}
        /\ script'[w].secrets = script[w].secrets
    BY <1>0, <1>2, BackupTaken DEF HostTypeOK, ScriptRun
  <2>2. QED
    BY <1>0, <1>2, <1>a, <1>b, <2>1 DEF BackupStep, RunIssued, FilesIssued
<1>p. CASE PortsStep(w)
  BY <1>p, <1>b, <1>c, <1>d DEF PortsStep, Goto, Fail
<1>3. CASE InstallStep(w)
  <2>1. /\ script'[w].merged = {}
        /\ script'[w].cand = script[w].cand
        /\ script'[w].backup = script[w].backup
        /\ script'[w].secrets = script[w].secrets
    BY <1>0, <1>3 DEF InstallStep, ScriptRun
  <2>2. live' = script[w].merged /\ UNCHANGED <<loaded, secretsFile, mtLoaded>>
    BY <1>3 DEF InstallStep
  <2>3. QED
    BY <1>0, <2>1, <2>2 DEF RunIssued, FilesIssued, Profiles
<1>4. CASE VerifyStep(w)
  BY <1>4, <1>b, <1>c, <1>d DEF VerifyStep, Goto, Fail
<1>5. CASE RestartStep(w) \/ RestartRejected(w)
  <2>1. Run
    <3>1. CASE RestartStep(w)
      <4>1. /\ script'[w].merged = script[w].merged
            /\ script'[w].cand = script[w].cand
            /\ script'[w].backup = None
            /\ script'[w].secrets = script[w].secrets
        BY <1>0, <3>1 DEF RestartStep, ScriptRun
      <4>2. QED
        BY <1>0, <1>a, <4>1 DEF RunIssued
    <3>2. CASE RestartRejected(w)
      BY <3>2, <1>c DEF RestartRejected, Goto
    <3>3. QED
      BY <1>5, <3>1, <3>2
  <2>2. loaded' \in {live, loaded, None} /\ UNCHANGED <<live, secretsFile, mtLoaded>>
    BY <1>5 DEF RestartStep, RestartRejected
  <2>3. QED
    BY <1>0, <1>a, <2>1, <2>2 DEF FilesIssued
<1>6. CASE RestoreStep(w)
  <2>1. Run
    BY <1>6, <1>c DEF RestoreStep, Goto
  <2>2. /\ live' \in {live, script[w].backup}
        /\ UNCHANGED <<loaded, secretsFile, mtLoaded>>
    BY <1>6 DEF RestoreStep
  <2>3. QED
    BY <1>0, <2>1, <2>2 DEF FilesIssued, RunIssued
<1>7. CASE SyncStep(w)
  <2> DEFINE s == SecretsOf(Profiles(live))
  <2>1. s \subseteq SecretsOf(Allowed)
    BY <1>0 DEF FilesIssued, SecretsOf
  <2>2. CASE s = {}
    BY <1>7, <1>b, <1>d, <2>2 DEF SyncStep, Fail
  <2>3. CASE s # {}
    <3>1. /\ script'[w].merged = script[w].merged
          /\ script'[w].cand = script[w].cand
          /\ script'[w].backup = script[w].backup
          /\ script'[w].secrets = s
      BY <1>0, <1>7, <2>3 DEF SyncStep, ScriptRun
    <3>2. QED
      BY <1>0, <1>7, <1>b, <2>1, <3>1 DEF SyncStep, RunIssued
  <2>4. QED
    BY <2>2, <2>3
<1>8. CASE CompareStep(w)
  <2>1. /\ script'[w].merged = script[w].merged
        /\ script'[w].cand = script[w].cand
        /\ script'[w].backup = script[w].backup
        /\ script'[w].secrets \in {script[w].secrets, {}}
    BY <1>0, <1>8 DEF CompareStep, Goto, ScriptRun
  <2>2. QED
    BY <1>0, <1>8, <1>b, <2>1 DEF CompareStep, RunIssued
<1>9. CASE WriteStep(w)
  <2>1. /\ script'[w].merged = script[w].merged
        /\ script'[w].cand = script[w].cand
        /\ script'[w].backup = script[w].backup
        /\ script'[w].secrets = {}
    BY <1>0, <1>9 DEF WriteStep, ScriptRun
  <2>2. secretsFile' = script[w].secrets /\ UNCHANGED <<live, loaded, mtLoaded>>
    BY <1>9 DEF WriteStep
  <2>3. QED
    BY <1>0, <2>1, <2>2 DEF RunIssued, FilesIssued, Profiles
<1>10. CASE MtproxyStep(w)
  <2>1. Run
    BY <1>10, <1>c DEF MtproxyStep, Goto
  <2>2. mtLoaded' = secretsFile /\ UNCHANGED <<live, loaded, secretsFile>>
    BY <1>10 DEF MtproxyStep
  <2>3. QED
    BY <1>0, <2>1, <2>2 DEF FilesIssued
<1>11. CASE MtproxyRestartFails(w)
  <2>1. Run
    BY <1>11, <1>d DEF MtproxyRestartFails, Fail
  <2>2. mtLoaded' \in {mtLoaded, None} /\ UNCHANGED <<live, loaded, secretsFile>>
    BY <1>11 DEF MtproxyRestartFails
  <2>3. QED
    BY <1>0, <1>a, <2>1, <2>2 DEF FilesIssued
<1>12. CASE ScriptDies(w)
  BY <1>12, <1>b, <1>d DEF ScriptDies, Fail
<1>13. CASE ReapScript(w)
  <2>1. script'[w] = NoScript /\ UNCHANGED hostFiles
    BY <1>0, <1>13 DEF ReapScript
  <2>2. QED
    BY <1>a, <1>b, <2>1 DEF NoScript
<1>14. QED
  BY <1>1, <1>2, <1>3, <1>4, <1>5, <1>6, <1>7, <1>8, <1>9, <1>10, <1>11, <1>12,
     <1>13, <1>p DEF ScriptProgress, ScriptFailure

\* Every step of the panel keeps the host within what was issued.
LEMMA HostMoveKeepsIssued ==
  ASSUME HostTypeOK, HostIssued, HostMove, issued \subseteq issued'
  PROVE  HostIssued'
<1>0. Allowed \subseteq Allowed' /\ SecretsOf(Allowed) \subseteq SecretsOf(Allowed')
  BY AllowedGrows
<1>1. ASSUME NEW w \in Slot, NEW c \in SUBSET PanelProfile, c \subseteq issued,
             StartScript(w, c)
      PROVE  HostIssued'
  <2>1. ScriptAction(w)
    BY <1>1 DEF ScriptAction
  <2>2. \A v \in Slot \ {w} : RunIssued(v)'
    BY <2>1, OthersStayIssued
  <2>3. RunIssued(w)'
    BY <1>1 DEF StartScript, NoScript, RunIssued, Profiles
  <2>4. FilesIssued'
    BY <1>0, <1>1 DEF StartScript, hostFiles, FilesIssued, HostIssued
  <2>5. QED
    BY <2>2, <2>3, <2>4 DEF HostIssued
<1>2. ASSUME NEW w \in Slot, ScriptProgress(w) \/ ScriptFailure(w) \/ ReapScript(w)
      PROVE  HostIssued'
  <2>1. ScriptAction(w)
    BY <1>2 DEF ScriptAction
  <2>2. \A v \in Slot \ {w} : RunIssued(v)'
    BY <2>1, OthersStayIssued
  <2>3. FilesIssued' /\ RunIssued(w)'
    BY <1>0, <1>2, RunMovesAllowed DEF FilesIssued, RunIssued
  <2>4. QED
    BY <2>2, <2>3 DEF HostIssued
<1>3. CASE UNCHANGED hostVars
  BY <1>0, <1>3 DEF hostVars, HostIssued, FilesIssued, RunIssued
<1>4. CASE UNCHANGED hostFiles /\ script' \in {script, [w \in Slot |-> NoScript]}
  <2>1. FilesIssued'
    BY <1>0, <1>4 DEF hostFiles, HostIssued, FilesIssued
  <2>2. ASSUME NEW w \in Slot PROVE RunIssued(w)'
    BY <1>0, <1>4 DEF HostIssued, RunIssued, NoScript, Profiles
  <2>3. QED
    BY <2>1, <2>2 DEF HostIssued
<1>5. CASE MtproxyComesBack
  <2>1. /\ live' = live /\ loaded' = loaded /\ secretsFile' = secretsFile
        /\ mtLoaded' = secretsFile /\ script' = script
    BY <1>5 DEF MtproxyComesBack
  <2>2. FilesIssued'
    BY <1>0, <2>1 DEF HostIssued, FilesIssued
  <2>3. ASSUME NEW w \in Slot PROVE RunIssued(w)'
    BY <1>0, <2>1 DEF HostIssued, RunIssued, Profiles
  <2>4. QED
    BY <2>2, <2>3 DEF HostIssued
<1>6. QED
  BY <1>1, <1>2, <1>3, <1>4, <1>5 DEF HostMove

------------------------------------------------------------------------------
(* Every step of the panel.                                                *)

\* apply's own steps change no row, move their handler on, and start the script
\* on a list the database committed.
LEMMA ApplyKeepsHandlers ==
  ASSUME PanelInv1, NEW w \in Slot, ApplyStep(w)
  PROVE  StoreStatement /\ HandlerInv' /\ HostMove /\ started' = started
<1> USE DEF PanelInv1
<1>0. /\ handler[w] \in Handler /\ handler[w].cand \in SUBSET PanelProfile
      /\ handler[w].cand \subseteq issued
      /\ handler[w].pc \in Step => handler[w].tg \in User
  BY HandlerFields
<1>1. UNCHANGED <<storeVars, started>>
  BY DEF ApplyStep, ApplyList, ApplyRun, ScriptReturns, Healthy, Unhealthy,
         StepRefused, Unchanged
<1>2. StoreStatement /\ issued' = issued
  BY <1>1 DEF StoreStatement, storeVars
<1>3. handler[w].pc \in Step
  BY DEF ApplyStep, ApplyList, ApplyRun, ScriptReturns, Healthy, Unhealthy,
         Serving, Step
<1>4. CASE ApplyList(w)
  <2>1. HostMove
    BY <1>4 DEF ApplyList, StepRefused, Unchanged, HostMove
  <2>2. CASE StepRefused(w)
    BY <1>1, <1>2, <1>3, <2>1, <2>2, FormsOfMoves DEF StepRefused
  <2>3. CASE ~StepRefused(w)
    <3> DEFINE h == [handler[w] EXCEPT !.pc = "apply_run", !.cand = DesiredProfiles]
    <3>1. /\ \A id \in RowId : ~ActiveWithoutProfile(id)
          /\ handler' = [handler EXCEPT ![w] = h]
      BY <1>4, <2>3 DEF ApplyList
    <3>2. DesiredProfiles \subseteq issued /\ issued \subseteq PanelProfile
      BY <3>1, DesiredAreIssued
    <3>3. h \in Handler /\ h.tg = handler[w].tg /\ h.cand = DesiredProfiles
      BY <1>0, <3>2 DEF Handler, Step
    <3>4. HandlerInv'
      BY <1>0, <1>2, <1>3, <3>1, <3>2, <3>3, MoveKeepsHandlers
    <3>5. QED
      BY <1>1, <1>2, <2>1, <3>4
  <2>4. QED
    BY <2>2, <2>3
<1>5. CASE ApplyRun(w)
  <2> DEFINE h == [handler[w] EXCEPT !.pc = "script", !.cand = {}]
  <2>1. handler' = [handler EXCEPT ![w] = h] /\ StartScript(w, handler[w].cand)
    BY <1>5 DEF ApplyRun
  <2>2. h \in Handler /\ h.tg = handler[w].tg /\ h.cand = {}
    BY <1>0 DEF Handler, Step
  <2>3. HandlerInv'
    BY <1>0, <1>2, <1>3, <2>1, <2>2, MoveKeepsHandlers
  <2>4. HostMove
    BY <1>0, <2>1 DEF HostMove
  <2>5. QED
    BY <1>1, <1>2, <2>3, <2>4
<1>6. CASE ScriptReturns(w) \/ Healthy(w) \/ Unhealthy(w)
  <2>1. HandlerInv'
    BY <1>2, <1>3, <1>6, FormsOfMoves DEF ScriptReturns, Healthy, Unhealthy,
       Result, Step
  <2>2. HostMove
    BY <1>6 DEF ScriptReturns, Healthy, Unhealthy, Unchanged, HostMove, hostVars,
       hostFiles
  <2>3. QED
    BY <1>1, <1>2, <2>1, <2>2
<1>7. QED
  BY <1>4, <1>5, <1>6 DEF ApplyStep

\* Failures, cancellations, crashes and replies move handlers on or clear them.
LEMMA FailuresKeepHandlers ==
  ASSUME PanelInv1, NEW w \in Slot,
         StepFails(w) \/ Cancel(w) \/ CancelledStep(w) \/ Crash \/ Reply(w)
  PROVE  StoreStatement /\ HandlerInv' /\ HostMove /\ started' = started
<1> USE DEF PanelInv1
<1>0. /\ handler[w] \in Handler /\ handler[w].cand \subseteq issued
      /\ handler[w].pc \in Step => handler[w].tg \in User
  BY HandlerFields
<1>1. UNCHANGED <<storeVars, started>>
  BY DEF StepFails, Cancel, CancelledStep, Crash, Reply, Unchanged
<1>2. StoreStatement /\ issued' = issued
  BY <1>1 DEF StoreStatement, storeVars
<1>3. HostMove
  BY DEF StepFails, Cancel, CancelledStep, Crash, Reply, Unchanged, HostMove
<1>4. CASE StepFails(w) \/ CancelledStep(w)
  BY <1>1, <1>2, <1>3, <1>4, FormsOfMoves DEF StepFails, CancelledStep
<1>5. CASE Cancel(w)
  <2> DEFINE h == [handler[w] EXCEPT !.cancelled = TRUE]
  <2>1. h \in Handler /\ h.tg = handler[w].tg /\ h.cand = handler[w].cand
        /\ h.pc = handler[w].pc
    BY <1>0 DEF Handler
  <2>2. handler' = [handler EXCEPT ![w] = h]
    BY <1>5 DEF Cancel
  <2>3. QED
    BY <1>0, <1>1, <1>2, <1>3, <2>1, <2>2, MoveKeepsHandlers
<1>6. CASE Crash
  <2>1. handler' = [v \in Slot |-> Idle]
    BY <1>6 DEF Crash
  <2>2. QED
    BY <1>1, <1>2, <1>3, <2>1, IdleTypes DEF HandlerInv, HandlerTypeOK
<1>7. CASE Reply(w)
  <2>1. handler' = [handler EXCEPT ![w] = Idle]
    BY <1>7 DEF Reply
  <2>2. QED
    BY <1>1, <1>2, <1>3, <2>1, IdleTypes, MoveKeepsHandlers
<1>8. QED
  BY <1>4, <1>5, <1>6, <1>7

\* Starting a handler counts it; nothing else does.
LEMMA StartsAreCounted ==
  ASSUME started \in 0 .. MaxStarts, NEW w \in Slot
  PROVE  /\ HandlerStarts(w) => started' \in 0 .. MaxStarts
         /\ ServiceStep(w) => started' = started
<1>1. ASSUME NEW h, Begin(w, h) PROVE started' \in 0 .. MaxStarts
  BY <1>1, PanelAssumption DEF Begin
<1>2. ASSUME HandlerStarts(w) PROVE started' \in 0 .. MaxStarts
  BY <1>1, <1>2 DEF HandlerStarts, Approve, Revoke, Deny, Delete, Resend,
     RequestAgain, RequestNew, BeginAtRow
<1>3. ASSUME ServiceStep(w) PROVE started' = started
  BY <1>3 DEF ServiceStep, CreateStep, CreateRead, AutoIssueStep, SetPendingStep,
     PendingRead, IssueWrite, IssueRead, IssueCheck, RollbackClear,
     RollbackStatus, RollbackRead, RevokeWrite, RevokeRead, RevokeCheck,
     DenyWrite, DenyRead, DeleteAudit, DeleteRow, AuditStep, StepRefused,
     Unchanged
<1>4. QED
  BY <1>2, <1>3

\* Every step of the panel is a statement of the store, a move of the handlers
\* and a move on the host.
LEMMA NextMoves ==
  ASSUME PanelInv1, started \in 0 .. MaxStarts, [Next]_vars
  PROVE  /\ StoreStatement /\ HandlerInv' /\ HostMove
         /\ started' \in 0 .. MaxStarts
<1>0. ASSUME issued' = issued, UNCHANGED handler PROVE HandlerInv'
  BY <1>0 DEF PanelInv1, HandlerInv, HandlerTypeOK
<1>1. ASSUME NEW w \in Slot, HandlerStarts(w)
      PROVE  /\ StoreStatement /\ HandlerInv' /\ HostMove
             /\ started' \in 0 .. MaxStarts
  BY <1>1, StartsKeepHandlers, StartsAreCounted DEF StoreStatement, HostMove
<1>2. ASSUME NEW w \in Slot, HandlerProgress(w) \/ StepFails(w) \/ Cancel(w)
      PROVE  /\ StoreStatement /\ HandlerInv' /\ HostMove
             /\ started' \in 0 .. MaxStarts
  <2>1. CASE ServiceStep(w)
    BY <2>1, ServiceKeepsHandlers, StartsAreCounted DEF HostMove
  <2>2. CASE ApplyStep(w)
    BY <2>2, ApplyKeepsHandlers
  <2>3. CASE CancelledStep(w) \/ Reply(w) \/ StepFails(w) \/ Cancel(w)
    BY <2>3, FailuresKeepHandlers
  <2>4. QED
    BY <1>2, <2>1, <2>2, <2>3 DEF HandlerProgress
<1>3. ASSUME NEW w \in Slot, ScriptRuns(w) \/ ScriptBreaks(w)
      PROVE  /\ StoreStatement /\ HandlerInv' /\ HostMove
             /\ started' \in 0 .. MaxStarts
  <2>1. UNCHANGED <<storeVars, handler, started>>
    BY <1>3 DEF ScriptRuns, ScriptBreaks
  <2>2. HostMove
    BY <1>3 DEF ScriptRuns, ScriptBreaks, HostMove
  <2>3. QED
    BY <1>0, <2>1, <2>2 DEF StoreStatement, storeVars
<1>4. ASSUME NEW b \in BOOLEAN, SetAutoIssue(b)
      PROVE  /\ StoreStatement /\ HandlerInv' /\ HostMove
             /\ started' \in 0 .. MaxStarts
  BY <1>0, <1>4 DEF SetAutoIssue, SetSetting, StoreStatement, HostMove
<1>5. CASE Crash
  <2>1. PICK w \in Slot : handler[w].pc \in Step
    BY <1>5 DEF Crash
  <2>2. QED
    BY <1>5, FailuresKeepHandlers
<1>6. CASE UNCHANGED vars
  <2>1. UNCHANGED <<storeVars, hostVars, handler, started>>
    BY <1>6 DEF vars
  <2>2. QED
    BY <1>0, <2>1 DEF storeVars, StoreStatement, HostMove
<1>7. CASE HostRecovers
  BY <1>0, <1>7 DEF HostRecovers, storeVars, StoreStatement, HostMove
<1>8. QED
  BY <1>1, <1>2, <1>3, <1>4, <1>5, <1>6, <1>7 DEF Next

------------------------------------------------------------------------------
(* Theorems.                                                               *)

PanelInv == TypeOK /\ HandlerInv /\ RowsIssued /\ HostInv /\ HostIssued

\* A panel at rest over a host in line with its database satisfies the
\* invariant.
LEMMA InitEstablishes == Init => PanelInv
<1> SUFFICES ASSUME Init
             PROVE  PanelInv
  OBVIOUS
<1>1. /\ StoreInit /\ HostInit(DesiredProfiles)
      /\ handler = [w \in Slot |-> Idle] /\ started = 0
  BY DEF Init
<1>2. ASSUME NEW id \in RowId, HasStatus(id, {"active"})
      PROVE  [name |-> users[id].tg, secret |-> users[id].secret] \in PanelProfile
  <2>1. users[id] \in Row /\ users[id].secret # None
    BY <1>1, <1>2 DEF StoreInit, HasStatus, Exists
  <2>2. QED
    BY <2>1 DEF Row, PanelProfile
<1>3. DesiredProfiles \in SUBSET PanelProfile
  BY <1>2 DEF DesiredProfiles
<1>4. StoreTypeOK
  BY <1>1, <1>3 DEF StoreInit, StoreTypeOK
<1>5. RowsIssued
  <2>1. ASSUME NEW id \in RowId, Exists(id), users[id].secret # None
        PROVE  HasStatus(id, {"active"})
    BY <1>1, <2>1 DEF StoreInit, HasStatus
  <2>2. QED
    BY <1>1, <2>1 DEF RowsIssued, DesiredProfiles, StoreInit
<1>6. HandlerInv
  BY <1>1, IdleTypes DEF HandlerInv, HandlerTypeOK
<1>7. HostTypeOK /\ HostInv
  <2>1. Unique(ForeignProfile \cup DesiredProfiles)
    BY <1>1 DEF StoreInit
  <2>2. QED
    BY <1>1, <1>3, <2>1, HostInitEstablishes
<1>8. HostIssued
  <2> DEFINE file == ForeignProfile \cup DesiredProfiles
  <2>1. issued = DesiredProfiles /\ Allowed = file
    BY <1>1 DEF StoreInit, Allowed
  <2>2. /\ live \in {file, None} /\ loaded = live
        /\ secretsFile \in {SecretsOf(file), None} /\ mtLoaded = SecretsOf(file)
        /\ script = [w \in Slot |-> NoScript]
    BY <1>1 DEF HostInit
  <2>3. FilesIssued
    BY <2>1, <2>2 DEF FilesIssued, Profiles
  <2>4. \A w \in Slot : RunIssued(w)
    BY <2>2 DEF RunIssued, NoScript, Profiles
  <2>5. QED
    BY <2>3, <2>4 DEF HostIssued
<1>9. started \in 0 .. MaxStarts
  BY <1>1, PanelAssumption
<1>10. QED
  BY <1>4, <1>5, <1>6, <1>7, <1>8, <1>9 DEF PanelInv, TypeOK, HandlerInv

\* The inductive invariant of the whole panel: any number of handlers and runs
\* of the script, with failures, cancellations and crashes anywhere.
THEOREM PanelInvariant == Spec => []PanelInv
<1>1. PanelInv /\ [Next]_vars => PanelInv'
  <2> SUFFICES ASSUME PanelInv, [Next]_vars
               PROVE  PanelInv'
    OBVIOUS
  <2>1. PanelInv1 /\ HostTypeOK /\ started \in 0 .. MaxStarts
    BY DEF PanelInv, PanelInv1, TypeOK
  <2>2. StoreStatement /\ HandlerInv' /\ HostMove /\ started' \in 0 .. MaxStarts
    BY <2>1, NextMoves
  <2>3. StoreTypeOK' /\ RowsIssued' /\ issued \subseteq issued'
    BY <2>1, <2>2, StatementKeepsStore DEF PanelInv1
  <2>4. HostTypeOK' /\ HostInv'
    BY <2>1, <2>2, HostMoveKeepsInv DEF PanelInv
  <2>5. HostIssued'
    BY <2>1, <2>2, <2>3, HostMoveKeepsIssued DEF PanelInv
  <2>6. QED
    BY <2>2, <2>3, <2>4, <2>5 DEF PanelInv, TypeOK, HandlerInv
<1>2. QED
  BY <1>1, InitEstablishes, PTL DEF Spec

\* Every variable of the panel and of the host keeps its type.
THEOREM PanelTypeCorrect == Spec => []TypeOK
<1>1. PanelInv => TypeOK
  BY DEF PanelInv
<1>2. QED
  BY <1>1, PanelInvariant, PTL

\* Only what the database committed reaches profiles.json, tproxy-server or
\* MTProxy, however handlers and runs of the script interleave or die.
THEOREM PanelOnlyIssued == Spec => []OnlyIssuedOnHost
<1>1. PanelInv => OnlyIssuedOnHost
  <2> SUFFICES ASSUME PanelInv
               PROVE  OnlyIssuedOnHost
    OBVIOUS
  <2>1. FilesIssued
    BY DEF PanelInv, HostIssued
  <2>2. \A p \in Allowed : IsPanel(p) => p \in issued
    BY ProfileAssumption DEF Allowed, IsPanel
  <2>3. SecretsOf(Allowed) = SecretsOf(issued) \cup SecretsOf(ForeignProfile)
    BY DEF Allowed, SecretsOf
  <2>4. QED
    BY <2>1, <2>2, <2>3 DEF OnlyIssuedOnHost, FilesIssued
<1>2. QED
  BY <1>1, PanelInvariant, PTL

\* The panel never touches a profile that is not its own, ...
THEOREM PanelForeignKept == Spec => []ForeignPreserved
<1>1. PanelInv => ForeignPreserved
  BY DEF PanelInv, HostInv, FileInv, ForeignPreserved
<1>2. QED
  BY <1>1, PanelInvariant, PTL

\* ... and never leaves a file there that tproxy-server would refuse.
THEOREM PanelLiveValid == Spec => []LiveFileValid
<1>1. PanelInv => LiveFileValid
  BY DEF PanelInv, HostInv, FileInv, LiveFileValid
<1>2. QED
  BY <1>1, PanelInvariant, PTL

\* However handlers interleave and wherever they fail, a user has one row at most
\* and no two users, nor a user and a profile that is not the panel's, ever have
\* the same secret.
THEOREM PanelRowsApart == Spec => []RowsApart
<1>1. Init => RowsApart
  <2> SUFFICES ASSUME StoreInit
               PROVE  RowsApart
    BY DEF Init
  <2>1. /\ users \in [RowId -> Row \cup {None}] /\ nextId \in 1 .. MaxRows + 1
        /\ MaxRows \in Nat /\ RowId = 1 .. MaxRows
    BY StoreAssumption DEF StoreInit, RowId
  <2>2. \A id \in RowId : id >= nextId => ~Exists(id)
    BY <2>1 DEF StoreInit
  <2>3. ASSUME NEW i \in RowId, NEW j \in RowId, i # j, Exists(i), Exists(j)
        PROVE  users[i].tg # users[j].tg
    BY <2>3 DEF StoreInit, RowsOf
  <2>4. ASSUME NEW i \in RowId, Exists(i), users[i].secret # None
        PROVE  [name |-> users[i].tg, secret |-> users[i].secret] \in DesiredProfiles
    BY <2>4 DEF StoreInit, DesiredProfiles, HasStatus
  <2>5. ASSUME NEW i \in RowId, NEW j \in RowId, i # j, Exists(i), Exists(j),
               users[i].secret # None
        PROVE  users[i].secret # users[j].secret
    <3> DEFINE p == [name |-> users[i].tg, secret |-> users[i].secret]
               q == [name |-> users[j].tg, secret |-> users[j].secret]
    <3>1. CASE users[j].secret = None
      BY <2>5, <3>1
    <3>2. CASE users[j].secret # None
      <4>1. p \in DesiredProfiles /\ q \in DesiredProfiles
        BY <2>4, <2>5, <3>2
      <4>2. p # q
        <5>1. p.name # q.name
          BY <2>3, <2>5
        <5>2. QED
          BY <5>1
      <4>3. p.secret # q.secret
        BY <4>1, <4>2 DEF StoreInit, Unique
      <4>4. QED
        BY <4>3
    <3>3. QED
      BY <3>1, <3>2
  <2>6. ASSUME NEW i \in RowId, Exists(i), users[i].secret \in SecretsOf(ForeignProfile)
        PROVE  FALSE
    <3>1. PICK q \in ForeignProfile : q.secret = users[i].secret
      BY <2>6 DEF SecretsOf
    <3>2. users[i].secret # None /\ q.name \in ForeignName
      BY <2>6, <3>1, ForeignSecrets, ProfileAssumption
    <3>3. users[i].tg \in User
      BY <2>1, <2>6 DEF Exists, Row
    <3>4. QED
      <4> DEFINE p == [name |-> users[i].tg, secret |-> users[i].secret]
      <4>1. p \in DesiredProfiles
        BY <2>4, <2>6, <3>2
      <4>2. p.name # q.name
        BY <3>2, <3>3, ProfileAssumption
      <4>3. p.secret # q.secret
        BY <3>1, <4>1, <4>2 DEF StoreInit, Unique
      <4>4. QED
        BY <3>1, <4>3
  <2>7. QED
    BY <2>2, <2>3, <2>5, <2>6 DEF RowsApart
<1>2. PanelInv /\ RowsApart /\ [Next]_vars => RowsApart'
  <2> SUFFICES ASSUME PanelInv, RowsApart, [Next]_vars
               PROVE  RowsApart'
    OBVIOUS
  <2>1. PanelInv1 /\ started \in 0 .. MaxStarts
    BY DEF PanelInv, PanelInv1, TypeOK
  <2>2. QED
    BY <2>1, NextMoves, StatementKeepsApart DEF PanelInv1
<1>3. QED
  BY <1>1, <1>2, PanelInvariant, PTL DEF Spec

------------------------------------------------------------------------------
(* A handler that overlaps no other one: what an apply and a rollback that  *)
(* ran alone have done, whatever crashes, failures and overlapping handlers *)
(* came before.                                                             *)

\* A slot has a run of the script while its handler waits for one.
SlotInv(w) == handler[w].pc = "script" <=> ~At(w, "none")

\* The host after a successful apply of the database as it is now.
Converged ==
  /\ DesiredProfiles \subseteq PanelProfile
  /\ live = MergedProfiles(ForeignProfile, DesiredProfiles)
  /\ loaded = live
  /\ secretsFile = SecretsOf(live)
  /\ mtLoaded # None

\* The handler is after a successful run of the script, or has said so.
Succeeds(w) ==
  \/ handler[w].pc = "health"
  \/ handler[w].pc \in {"audit", "done"} /\ handler[w].result = "applied"

\* It has put the row back, or has said so.
Undone(w) ==
  \/ handler[w].pc = "rollback_read"
  \/ handler[w].pc \in {"audit", "done"} /\ handler[w].result = "issue_failed"

RowCleared(w) == Exists(handler[w].id) /\ users[handler[w].id].secret = None

\* What a handler that is alone knows of the rows and of the host: nobody else
\* has changed either since it read or wrote them.
SoloHandler(w) ==
  (handler[w].alone /\ ~Free(w)) =>
    /\ \A u \in Slot \ {w} : Free(u)
    /\ handler[w].pc = "apply_run" => handler[w].cand = DesiredProfiles
    /\ handler[w].pc = "script" /\ ~At(w, "failed") =>
         script[w].alone /\ script[w].cand = DesiredProfiles
    /\ Succeeds(w) => Converged
    /\ handler[w].pc = "rollback_status" => RowCleared(w)
    /\ Undone(w) =>
         RowCleared(w) /\ users[handler[w].id].status = handler[w].prev

SoloPanel == SoloInv /\ \A w \in Slot : SlotInv(w) /\ SoloHandler(w)

------------------------------------------------------------------------------
(* Who moves.                                                              *)

\* A handler goes on without touching another one; it stays as alone as it was.
LEMMA ProgressMovesOne ==
  ASSUME PanelInv1, NEW w \in Slot,
         ServiceStep(w) \/ ApplyStep(w) \/ CancelledStep(w) \/ StepFails(w)
           \/ Cancel(w)
  PROVE  /\ \A v \in Slot \ {w} : handler'[v] = handler[v]
         /\ handler'[w].alone = handler[w].alone
         /\ handler[w].pc \in Step
<1> USE DEF PanelInv1, HandlerInv, HandlerTypeOK, Handler
<1> DEFINE One == /\ \A v \in Slot \ {w} : handler'[v] = handler[v]
                  /\ handler'[w].alone = handler[w].alone
<1>1. ASSUME NEW pc, NEW r,
             \/ Proceed(w, pc) \/ Done(w, r) \/ Audit(w, r)
      PROVE  One
  BY <1>1 DEF Proceed, Done, Audit
<1>2. ASSUME OnError(w) \/ ApplyFails(w) PROVE One
  BY <1>1, <1>2 DEF OnError, ApplyFails
<1>3. ASSUME \/ CreateStep(w) \/ CreateRead(w) \/ AutoIssueStep(w)
             \/ SetPendingStep(w) \/ PendingRead(w) \/ IssueWrite(w)
             \/ IssueRead(w) \/ IssueCheck(w)
      PROVE  One /\ handler[w].pc \in Step
  BY <1>1, <1>2, <1>3 DEF CreateStep, CreateRead, AutoIssueStep, SetPendingStep,
     PendingRead, IssueWrite, IssueRead, IssueCheck, StepRefused, Serving, Step
<1>4. ASSUME \/ RollbackClear(w) \/ RollbackStatus(w) \/ RollbackRead(w)
             \/ RevokeWrite(w) \/ RevokeRead(w) \/ RevokeCheck(w)
             \/ DenyWrite(w) \/ DenyRead(w) \/ DeleteAudit(w) \/ DeleteRow(w)
             \/ AuditStep(w)
      PROVE  One /\ handler[w].pc \in Step
  BY <1>1, <1>2, <1>4 DEF RollbackClear, RollbackStatus, RollbackRead,
     RevokeWrite, RevokeRead, RevokeCheck, DenyWrite, DenyRead, DeleteAudit,
     DeleteRow, AuditStep, StepRefused, Serving, Step
<1>5. ASSUME ApplyStep(w) PROVE One /\ handler[w].pc \in Step
  BY <1>1, <1>2, <1>5 DEF ApplyStep, ApplyList, ApplyRun, ScriptReturns, Healthy,
     Unhealthy, StepRefused, Serving, Step
<1>6. ASSUME CancelledStep(w) \/ StepFails(w) \/ Cancel(w)
      PROVE  One /\ handler[w].pc \in Step
  BY <1>2, <1>6 DEF CancelledStep, StepFails, Cancel
<1>7. QED
  BY <1>3, <1>4, <1>5, <1>6 DEF ServiceStep

\* The script of a handler that does not wait for one stays away, and a handler
\* that is alone has all the others' slots empty.
LEMMA OthersAreAway ==
  ASSUME SoloPanel, NEW w \in Slot, handler[w].alone, ~Free(w),
         NEW u \in Slot \ {w}
  PROVE  Free(u) /\ At(u, "none")
<1>1. Free(u)
  BY DEF SoloPanel, SoloHandler
<1>2. At(u, "none")
  BY <1>1 DEF SoloPanel, SlotInv, Free
<1>3. QED
  BY <1>1, <1>2

\* While one handler goes on, another one is not alone or has not begun.
LEMMA OthersStaySolo ==
  ASSUME SoloPanel, NEW w \in Slot, NEW v \in Slot \ {w}, ~Free(w),
         handler'[v] = handler[v]
  PROVE  SoloHandler(v)'
<1>1. ~(handler[v].alone /\ ~Free(v))
  BY OthersAreAway
<1>2. QED
  BY <1>1 DEF SoloHandler, Free

\* A handler that claims nothing about the rows and the host.
Quiet(w) ==
  /\ handler[w].pc \notin {"apply_run", "script", "health", "rollback_status",
                           "rollback_read"}
  /\ handler[w].pc \in {"audit", "done"} =>
       handler[w].result \notin {"applied", "issue_failed"}

LEMMA QuietMove ==
  ASSUME SoloPanel, NEW w \in Slot, ~Free(w), Quiet(w)',
         handler'[w].alone = handler[w].alone,
         \A v \in Slot \ {w} : handler'[v] = handler[v]
  PROVE  SoloHandler(w)'
<1>1. SoloHandler(w)
  BY DEF SoloPanel
<1>2. QED
  BY <1>1 DEF SoloHandler, Quiet, Succeeds, Undone, Free

\* A handler that claims what it claimed, of the same rows and the same host.
LEMMA SameClaims ==
  ASSUME SoloPanel, NEW w \in Slot, ~Free(w),
         \/ handler'[w].pc = handler[w].pc
         \/ handler[w].pc = "audit" /\ handler'[w].pc = "done",
         handler'[w].alone = handler[w].alone,
         handler'[w].result = handler[w].result,
         handler'[w].id = handler[w].id,
         handler'[w].prev = handler[w].prev,
         handler'[w].cand = handler[w].cand,
         \A v \in Slot \ {w} : handler'[v] = handler[v],
         users' = users, live' = live, loaded' = loaded,
         secretsFile' = secretsFile, mtLoaded' = mtLoaded,
         script' = script
  PROVE  SoloHandler(w)'
<1>1. SoloHandler(w)
  BY DEF SoloPanel
<1>2. DesiredProfiles' = DesiredProfiles /\ (Converged <=> Converged')
  BY DEF DesiredProfiles, HasStatus, Exists, Converged
<1>3. RowCleared(w)' <=> RowCleared(w)
  BY DEF RowCleared, Exists
<1>4. (Succeeds(w)' => Succeeds(w)) /\ (Undone(w)' => Undone(w))
  BY DEF Succeeds, Undone
<1>5. QED
  BY <1>1, <1>2, <1>3, <1>4 DEF SoloHandler, Free, At

\* An error ends what the handler claimed, unless its work is done but for the
\* audit entry.
LEMMA ErrorStaysSolo ==
  ASSUME PanelInv1, SoloPanel, NEW w \in Slot, handler[w].pc \in Step \ {"script"},
         OnError(w), users' = users, UNCHANGED hostFiles, script' = script
  PROVE  SoloHandler(w)' /\ SlotInv(w)'
<1> USE DEF PanelInv1, HandlerInv, HandlerTypeOK
<1>0. handler[w] \in Handler /\ ~Free(w) /\ SlotInv(w)
  BY DEF SoloPanel, Free, Step
<1>1. CASE handler[w].pc = "audit"
  <2>1. handler' = [handler EXCEPT ![w].pc = "done"]
    BY <1>1 DEF OnError, Proceed, ApplyPart, RollbackPart, PendingPart, AuditPart
  <2>2. /\ handler'[w].pc = "done"
        /\ handler'[w].alone = handler[w].alone
        /\ handler'[w].result = handler[w].result
        /\ handler'[w].id = handler[w].id
        /\ handler'[w].prev = handler[w].prev
        /\ handler'[w].cand = handler[w].cand
        /\ \A v \in Slot \ {w} : handler'[v] = handler[v]
    BY <1>0, <2>1 DEF Handler
  <2>3. SoloHandler(w)'
    BY <1>0, <1>1, <2>2, SameClaims DEF hostFiles
  <2>4. QED
    BY <1>0, <1>1, <2>2, <2>3 DEF SlotInv, At
<1>2. CASE handler[w].pc # "audit"
  <2> DEFINE One == /\ \A v \in Slot \ {w} : handler'[v] = handler[v]
                    /\ handler'[w].alone = handler[w].alone
  <2>1. ASSUME NEW pc \in {"rollback_clear", "delete_row"}, Proceed(w, pc)
        PROVE  Quiet(w)' /\ One
    BY <1>0, <2>1 DEF Proceed, Quiet, Handler
  <2>2. ASSUME NEW r \in {"revoke_failed", "rollback_failed", "panic", "error"},
               Done(w, r) \/ Audit(w, r)
        PROVE  Quiet(w)' /\ One /\ handler'[w].pc # "script"
    <3>1. handler'[w].pc \in {"done", "audit"} /\ handler'[w].result = r
          /\ handler'[w].alone = handler[w].alone
      BY <1>0, <2>2 DEF Done, Audit, Handler
    <3>2. \A v \in Slot \ {w} : handler'[v] = handler[v]
      BY <2>2 DEF Done, Audit
    <3>3. QED
      BY <3>1, <3>2 DEF Quiet
  <2>3. Quiet(w)' /\ One
    <3>1. CASE handler[w].pc \in ApplyPart /\ ApplyFails(w)
      BY <3>1, <2>1, <2>2 DEF ApplyFails
    <3>2. CASE ~(handler[w].pc \in ApplyPart /\ ApplyFails(w))
      BY <1>2, <3>2, <2>1, <2>2 DEF OnError
    <3>3. QED
      BY <3>1, <3>2
  <2>4. SoloHandler(w)'
    BY <1>0, <2>3, QuietMove
  <2>5. handler'[w].pc # "script"
    BY <2>3 DEF Quiet
  <2>6. QED
    BY <1>0, <2>4, <2>5 DEF SlotInv, At
<1>3. QED
  BY <1>1, <1>2

------------------------------------------------------------------------------
(* The steps of a handler.                                                 *)

\* The statements of the service.  Only the two of rollbackIssue and their last
\* read claim anything.
LEMMA ServiceStaysSolo ==
  ASSUME PanelInv, SoloPanel, NEW w \in Slot, ServiceStep(w)
  PROVE  SoloHandler(w)' /\ SlotInv(w)'
<1> USE DEF PanelInv, TypeOK, HandlerInv, HandlerTypeOK, StoreTypeOK
<1>a. PanelInv1
  BY DEF PanelInv1
<1>b. /\ \A v \in Slot \ {w} : handler'[v] = handler[v]
      /\ handler'[w].alone = handler[w].alone
      /\ handler[w].pc \in Step
      /\ ~Free(w)
  BY <1>a, ProgressMovesOne DEF Free, Step
<1>c. UNCHANGED hostVars
  BY <1>a, ServiceKeepsHandlers
<1>d. /\ handler[w] \in Handler /\ handler[w].id \in RowId
      /\ SlotInv(w) /\ handler[w].pc # "script"
  BY <1>a, HandlerFields
     DEF SoloPanel, ServiceStep, CreateStep, CreateRead, AutoIssueStep,
         SetPendingStep, PendingRead, IssueWrite, IssueRead, IssueCheck,
         RollbackClear, RollbackStatus, RollbackRead, RevokeWrite, RevokeRead,
         RevokeCheck, DenyWrite, DenyRead, DeleteAudit, DeleteRow, AuditStep,
         Serving
<1>e. ASSUME handler'[w].pc # "script" PROVE SlotInv(w)'
  BY <1>c, <1>d, <1>e DEF SlotInv, At, hostVars
<1>f. ASSUME Quiet(w)' PROVE SoloHandler(w)' /\ SlotInv(w)'
  BY <1>b, <1>e, <1>f, QuietMove DEF Quiet
<1>g. ASSUME StepRefused(w) PROVE SoloHandler(w)' /\ SlotInv(w)'
  <2>1. users' = users /\ UNCHANGED hostFiles /\ script' = script
    BY <1>g DEF StepRefused, Unchanged, storeVars, hostVars, hostFiles
  <2>2. QED
    BY <1>a, <1>b, <1>d, <1>g, <2>1, ErrorStaysSolo DEF StepRefused
<1>h. ASSUME NEW pc \in {"issue_write", "set_pending", "pending_read",
                         "issue_check", "revoke_read", "revoke_check",
                         "deny_read", "delete_row", "apply_list"},
             Proceed(w, pc)
      PROVE  Quiet(w)'
  BY <1>d, <1>h DEF Proceed, Quiet, Handler
<1>i. ASSUME NEW r \in {"ok", "error"}, Done(w, r) \/ Audit(w, r)
      PROVE  Quiet(w)'
  BY <1>d, <1>i DEF Done, Audit, Quiet, Handler
<1>1. CASE \/ SetPendingStep(w) \/ PendingRead(w) \/ IssueRead(w)
           \/ RevokeWrite(w) \/ RevokeRead(w) \/ RevokeCheck(w)
           \/ DenyWrite(w) \/ DenyRead(w) \/ DeleteAudit(w) \/ DeleteRow(w)
           \/ AutoIssueStep(w)
  <2>1. StepRefused(w) \/ Quiet(w)'
    BY <1>1, <1>h, <1>i
       DEF SetPendingStep, PendingRead, IssueRead, RevokeWrite, RevokeRead,
           RevokeCheck, DenyWrite, DenyRead, DeleteAudit, DeleteRow,
           AutoIssueStep
  <2>2. QED
    BY <2>1, <1>f, <1>g
<1>2. CASE \/ CreateStep(w) \/ CreateRead(w) \/ IssueWrite(w) \/ IssueCheck(w)
  <2>1. \/ StepRefused(w)
        \/ handler'[w].pc \in {"create_read", "auto_issue", "issue_read",
                               "apply_list"}
    BY <1>2, <1>d DEF CreateStep, CreateRead, IssueWrite, IssueCheck, Handler
  <2>2. QED
    BY <2>1, <1>f, <1>g DEF Quiet
<1>3. CASE AuditStep(w)
  <2>1. /\ handler' = [handler EXCEPT ![w].pc = "done"]
        /\ handler[w].pc = "audit" /\ users' = users
    BY <1>3 DEF AuditStep, Proceed, Serving, AppendAuditLog
  <2>2. /\ handler'[w].pc = "done"
        /\ handler'[w].result = handler[w].result
        /\ handler'[w].id = handler[w].id
        /\ handler'[w].prev = handler[w].prev
        /\ handler'[w].cand = handler[w].cand
    BY <1>d, <2>1 DEF Handler
  <2>3. SoloHandler(w)'
    BY <1>b, <1>c, <2>1, <2>2, SameClaims DEF hostVars
  <2>4. QED
    BY <1>e, <2>2, <2>3
<1>4. CASE RollbackClear(w) \/ RollbackStatus(w) \/ RollbackRead(w)
  <2>1. CASE StepRefused(w)
    BY <2>1, <1>g
  <2>2. CASE ~StepRefused(w)
    <3> DEFINE id == handler[w].id
    <3>0. /\ handler'[w].id = id /\ handler'[w].prev = handler[w].prev
          /\ handler[w].prev \in Status
          /\ Exists(id) /\ users[id] \in Row
      BY <1>d, <1>4, <2>2, RowTypes
         DEF RollbackClear, RollbackStatus, RollbackRead, Proceed, Audit, Handler
    <3>1. CASE RollbackClear(w)
      <4>1. /\ handler'[w].pc = "rollback_status"
            /\ users' = [users EXCEPT ![id].secret = None]
        BY <1>d, <2>2, <3>1 DEF RollbackClear, Proceed, ClearUserProfile, Handler
      <4>2. users'[id] # None /\ users'[id].secret = None
        <5>1. users'[id] = [users[id] EXCEPT !.secret = None]
          BY <1>d, <4>1
        <5>2. users'[id] \in Row
          BY <3>0, <5>1 DEF Row
        <5>3. users'[id] # None
          BY <5>1, <5>2, StoreAssumption
        <5>4. QED
          BY <3>0, <5>1, <5>3 DEF Row
      <4>3. RowCleared(w)'
        BY <3>0, <4>2 DEF RowCleared, Exists
      <4>4. QED
        BY <1>b, <1>e, <4>1, <4>3 DEF SoloHandler, SoloPanel, Succeeds, Undone, Free
    <3>2. CASE RollbackStatus(w)
      <4>1. /\ handler'[w].pc = "rollback_read"
            /\ UpdateUserStatus(id, handler[w].prev)
            /\ handler[w].pc = "rollback_status"
        BY <1>d, <2>2, <3>2 DEF RollbackStatus, Proceed, Handler, Serving
      <4>2. handler[w].alone => RowCleared(w)
        BY <1>b, <4>1 DEF SoloPanel, SoloHandler
      <4>3. /\ users'[id] # None
            /\ users'[id].status = handler[w].prev
            /\ users'[id].secret \in {users[id].secret, None}
        <5>1. users'[id] = [users[id] EXCEPT
                 !.status = handler[w].prev,
                 !.secret = IF handler[w].prev = "revoked" THEN None
                            ELSE users[id].secret]
          BY <1>d, <3>0, <4>1 DEF UpdateUserStatus, Row
        <5>2. users'[id] \in Row
          BY <3>0, <5>1 DEF Row
        <5>3. users'[id] # None
          BY <5>1, <5>2, StoreAssumption
        <5>4. QED
          BY <3>0, <5>1, <5>3 DEF Row
      <4>4. handler[w].alone =>
              (RowCleared(w) /\ users[handler[w].id].status = handler[w].prev)'
        BY <3>0, <4>2, <4>3 DEF RowCleared, Exists
      <4>5. QED
        BY <1>b, <1>e, <4>1, <4>4 DEF SoloHandler, SoloPanel, Succeeds, Free
    <3>3. CASE RollbackRead(w)
      <4>1. /\ handler'[w].pc = "audit" /\ handler'[w].result = "issue_failed"
            /\ handler[w].pc = "rollback_read" /\ users' = users
        BY <1>d, <2>2, <3>3 DEF RollbackRead, Audit, Handler, Serving, Unchanged,
           storeVars
      <4>2. handler[w].alone => RowCleared(w) /\ users[id].status = handler[w].prev
        BY <1>b, <4>1 DEF SoloPanel, SoloHandler, Undone
      <4>3. handler[w].alone =>
              (RowCleared(w) /\ users[handler[w].id].status = handler[w].prev)'
        BY <3>0, <4>1, <4>2 DEF RowCleared, Exists
      <4>4. QED
        BY <1>b, <1>e, <4>1, <4>3 DEF SoloHandler, SoloPanel, Succeeds, Free
    <3>4. QED
      BY <1>4, <3>1, <3>2, <3>3
  <2>3. QED
    BY <2>1, <2>2
<1>5. QED
  BY <1>1, <1>2, <1>3, <1>4 DEF ServiceStep

\* A run of the script keeps its candidate and whether it is alone, until it
\* fails.
LEMMA RunKeepsCandidate ==
  ASSUME HostTypeOK, NEW w \in Slot, ScriptProgress(w) \/ ScriptFailure(w)
  PROVE  /\ script[w].pc \in Running
         /\ script'[w].pc \in Running \cup Exited
         /\ \/ script'[w].pc = "failed"
            \/ /\ script'[w].alone = script[w].alone
               /\ script'[w].cand = script[w].cand
<1> USE DEF HostTypeOK, At, Running, Exited
<1>0. script[w] \in ScriptRun
  OBVIOUS
<1>1. ASSUME Fail(w) PROVE script'[w].pc = "failed"
  BY <1>1 DEF Fail, NoScript
<1>2. ASSUME NEW pc, Goto(w, pc)
      PROVE  /\ script'[w].pc = pc
             /\ script'[w].alone = script[w].alone
             /\ script'[w].cand = script[w].cand
  BY <1>0, <1>2 DEF Goto, ScriptRun
<1>3. CASE MergeStep(w) \/ BackupStep(w) \/ InstallStep(w)
  <2>1. CASE MergeStep(w)
    BY <1>0, <1>1, <2>1 DEF MergeStep, ScriptRun
  <2>2. CASE BackupStep(w)
    BY <1>0, <2>2, BackupTaken DEF BackupStep, ScriptRun
  <2>3. CASE InstallStep(w)
    BY <1>0, <2>3 DEF InstallStep, ScriptRun
  <2>4. QED
    BY <1>3, <2>1, <2>2, <2>3
<1>4. CASE PortsStep(w) \/ VerifyStep(w) \/ RestoreStep(w) \/ RestartRejected(w)
           \/ MtproxyStep(w)
  BY <1>1, <1>2, <1>4 DEF PortsStep, VerifyStep, RestoreStep, RestartRejected,
     MtproxyStep
<1>5. CASE RestartStep(w) \/ SyncStep(w) \/ CompareStep(w) \/ WriteStep(w)
  BY <1>0, <1>1, <1>2, <1>5 DEF RestartStep, SyncStep, CompareStep, WriteStep, ScriptRun
<1>6. CASE MtproxyRestartFails(w) \/ ScriptDies(w)
  BY <1>1, <1>6 DEF MtproxyRestartFails, ScriptDies
<1>7. QED
  BY <1>3, <1>4, <1>5, <1>6 DEF ScriptProgress, ScriptFailure

\* apply's own steps: the list is what the database holds, the run that starts
\* is alone, and a run that is alone and exits 0 has done what it should.
LEMMA ApplyStaysSolo ==
  ASSUME PanelInv, SoloPanel, NEW w \in Slot, ApplyStep(w)
  PROVE  SoloHandler(w)' /\ SlotInv(w)'
<1> USE DEF PanelInv, TypeOK, HandlerInv, HandlerTypeOK, HostTypeOK
<1>a. PanelInv1
  BY DEF PanelInv1
<1>b. /\ \A v \in Slot \ {w} : handler'[v] = handler[v]
      /\ handler'[w].alone = handler[w].alone
      /\ handler[w].pc \in Step
      /\ ~Free(w)
  BY <1>a, ProgressMovesOne DEF Free, Step
<1>c. handler[w] \in Handler /\ SlotInv(w) /\ SoloHandler(w) /\ script[w] \in ScriptRun
  BY DEF SoloPanel
<1>d. UNCHANGED <<storeVars, started>>
  BY DEF ApplyStep, ApplyList, ApplyRun, ScriptReturns, Healthy, Unhealthy,
         StepRefused, Unchanged
<1>e. DesiredProfiles' = DesiredProfiles
  BY <1>d DEF DesiredProfiles, HasStatus, Exists, storeVars
<1>f. ASSUME ApplyFails(w) PROVE SoloHandler(w)' /\ handler'[w].pc # "script"
  <2>1. Quiet(w)' /\ handler'[w].pc # "script"
    BY <1>c, <1>f DEF ApplyFails, Audit, Proceed, Quiet, Handler
  <2>2. QED
    BY <1>b, <2>1, QuietMove
<1>1. CASE ApplyList(w)
  <2>1. CASE StepRefused(w)
    <3>1. users' = users /\ UNCHANGED hostFiles /\ script' = script
      BY <2>1 DEF StepRefused, Unchanged, storeVars, hostVars, hostFiles
    <3>2. handler[w].pc \in Step \ {"script"}
      BY <1>b, <1>1 DEF ApplyList, Serving
    <3>3. QED
      BY <1>a, <2>1, <3>1, <3>2, ErrorStaysSolo DEF StepRefused
  <2>2. CASE ~StepRefused(w)
    <3>1. /\ handler'[w].pc = "apply_run" /\ handler'[w].cand = DesiredProfiles
          /\ script' = script /\ handler[w].pc = "apply_list"
      BY <1>c, <1>1, <2>2 DEF ApplyList, Handler, Unchanged, hostVars, Serving
    <3>2. SlotInv(w)'
      BY <1>c, <3>1 DEF SlotInv, At
    <3>3. SoloHandler(w)'
      BY <1>b, <1>c, <1>e, <3>1 DEF SoloHandler, Succeeds, Undone, Free
    <3>4. QED
      BY <3>2, <3>3
  <2>3. QED
    BY <2>1, <2>2
<1>2. CASE ApplyRun(w)
  <2>1. /\ handler'[w].pc = "script" /\ handler[w].pc = "apply_run"
        /\ StartScript(w, handler[w].cand)
    BY <1>c, <1>2 DEF ApplyRun, Handler, Serving
  <2>2. /\ script'[w].pc = "merge" /\ script'[w].cand = handler[w].cand
        /\ script'[w].alone = \A u \in Slot \ {w} : script[u].pc \notin Running
    BY <2>1 DEF StartScript, NoScript
  <2>3. handler[w].alone => script'[w].alone
    BY <1>b, <2>2, OthersAreAway DEF At, Running
  <2>4. SlotInv(w)'
    BY <2>1, <2>2 DEF SlotInv, At
  <2>5. handler[w].alone => handler[w].cand = DesiredProfiles
    BY <1>b, <1>c, <2>1 DEF SoloHandler
  <2>6. SoloHandler(w)'
    BY <1>b, <1>c, <1>e, <2>1, <2>2, <2>3, <2>5
       DEF SoloHandler, Succeeds, Undone, Free
  <2>7. QED
    BY <2>4, <2>6
<1>3. CASE ScriptReturns(w)
  <2>0. /\ handler[w].pc = "script" /\ script'[w].pc = "none"
        /\ UNCHANGED hostFiles
    BY <1>3 DEF ScriptReturns, ReapScript, NoScript
  <2>1. CASE ApplyFails(w)
    BY <1>f, <2>0, <2>1 DEF SlotInv, At
  <2>2. CASE ~ApplyFails(w)
    <3>1. At(w, "ok") /\ handler'[w].pc = "health"
      BY <1>c, <1>3, <2>2 DEF ScriptReturns, Proceed, Handler
    <3>2. handler[w].alone => script[w].alone /\ script[w].cand = DesiredProfiles
      BY <1>b, <1>c, <2>0, <3>1 DEF SoloHandler, At
    <3>3. handler[w].alone => Converged
      <4>1. script[w].cand \subseteq PanelProfile
        BY <1>c DEF ScriptRun
      <4>2. QED
        BY <3>1, <3>2, <4>1 DEF SoloPanel, SoloInv, SoloRun, Applied, At, Converged
    <3>4. Converged => Converged'
      BY <1>e, <2>0 DEF Converged, hostFiles
    <3>5. SoloHandler(w)'
      BY <1>b, <1>c, <3>1, <3>3, <3>4 DEF SoloHandler, Undone, Free
    <3>6. QED
      BY <2>0, <3>1, <3>5 DEF SlotInv, At
  <2>3. QED
    BY <2>1, <2>2
<1>4. CASE Healthy(w)
  <2>1. /\ handler[w].pc = "health" /\ UNCHANGED hostVars
        /\ handler'[w].pc = "audit" /\ handler'[w].result = "applied"
    BY <1>c, <1>4 DEF Healthy, Serving, Unchanged, Audit, Handler
  <2>2. handler[w].alone => Converged
    BY <1>b, <1>c, <2>1 DEF SoloHandler, Succeeds
  <2>3. Converged => Converged'
    BY <1>e, <2>1 DEF Converged, hostVars
  <2>4. SoloHandler(w)'
    BY <1>b, <1>c, <2>1, <2>2, <2>3 DEF SoloHandler, Undone, Free
  <2>5. QED
    BY <1>c, <2>1, <2>4 DEF SlotInv, At, hostVars
<1>5. CASE Unhealthy(w)
  <2>1. script' = script /\ handler[w].pc = "health" /\ ApplyFails(w)
    BY <1>5 DEF Unhealthy, Serving
  <2>2. QED
    BY <1>c, <1>f, <2>1 DEF SlotInv, At
<1>6. QED
  BY <1>1, <1>2, <1>3, <1>4, <1>5 DEF ApplyStep

------------------------------------------------------------------------------
(* Every step of the panel.                                                *)

HandlersSolo == \A v \in Slot : SlotInv(v) /\ SoloHandler(v)

\* A handler starts in an empty slot; the others are not alone any more.
LEMMA StartsStaySolo ==
  ASSUME PanelInv, SoloPanel, NEW w \in Slot, HandlerStarts(w)
  PROVE  HandlersSolo'
<1> USE DEF PanelInv, TypeOK, HandlerInv, HandlerTypeOK
<1> DEFINE Starts == {"issue_write", "revoke_write", "deny_write", "delete_audit",
                      "audit", "auto_issue", "create"}
<1>1. PICK h : /\ Begin(w, h)
               /\ h.pc \in Starts /\ h.result = "ok"
               /\ h \in Handler
  <2>1. ASSUME NEW id \in RowId, Exists(id), NEW op \in Op, NEW pc \in Starts,
               BeginAtRow(w, op, id, pc)
        PROVE  \E h \in Handler : Begin(w, h) /\ h.pc \in Starts /\ h.result = "ok"
    <3> DEFINE h == [Idle EXCEPT !.pc = pc, !.op = op, !.id = id,
                       !.tg = users[id].tg, !.prev = users[id].status]
    <3>1. users[id].tg \in User /\ users[id].status \in Status
      BY <2>1, RowTypes
    <3>2. h \in Handler
      BY <3>1, IdleTypes DEF Handler, Step
    <3>3. h.pc = pc /\ h.result = "ok"
      BY <3>2 DEF Idle, Handler
    <3>4. Begin(w, h)
      BY <2>1 DEF BeginAtRow
    <3>5. QED
      BY <3>2, <3>3, <3>4
  <2>2. ASSUME NEW tg \in User, RequestNew(w, tg)
        PROVE  \E h \in Handler : Begin(w, h) /\ h.pc \in Starts /\ h.result = "ok"
    <3> DEFINE h == [Idle EXCEPT !.pc = "create", !.op = "request", !.tg = tg]
    <3>1. h \in Handler
      BY IdleTypes DEF Handler, Step, Op
    <3>2. h.pc = "create" /\ h.result = "ok"
      BY DEF Idle
    <3>3. Begin(w, h)
      BY <2>2 DEF RequestNew
    <3>4. QED
      BY <3>1, <3>2, <3>3
  <2>3. ASSUME NEW id \in RowId,
               \/ Approve(w, id) \/ Revoke(w, id) \/ Deny(w, id) \/ Delete(w, id)
               \/ Resend(w, id) \/ RequestAgain(w, id)
        PROVE  \E op \in Op, pc \in Starts :
                 Exists(id) /\ BeginAtRow(w, op, id, pc)
    BY <2>3 DEF Approve, Revoke, Deny, Delete, Resend, RequestAgain, HasStatus, Op
  <2>4. QED
    BY <2>1, <2>2, <2>3 DEF HandlerStarts
<1>2. /\ handler[w].pc = "idle" /\ script' = script
      /\ \A v \in Slot \ {w} : handler'[v] = [handler[v] EXCEPT !.alone = FALSE]
      /\ handler'[w] = [h EXCEPT !.alone = \A u \in Slot \ {w} : Free(u)]
  BY <1>1 DEF Begin, Free, hostVars
<1>3. /\ handler'[w].pc = h.pc /\ handler'[w].result = "ok"
      /\ handler'[w].alone = \A u \in Slot \ {w} : Free(u)
  BY <1>1, <1>2 DEF Handler
<1>4. ASSUME NEW v \in Slot \ {w}
      PROVE  handler'[v].pc = handler[v].pc /\ ~handler'[v].alone
  <2>1. handler[v] \in Handler
    OBVIOUS
  <2>2. handler'[v] = [handler[v] EXCEPT !.alone = FALSE]
    BY <1>2
  <2>3. QED
    BY <2>1, <2>2 DEF Handler
<1>5. SlotInv(w)' /\ SoloHandler(w)'
  BY <1>1, <1>2, <1>3, <1>4
     DEF SoloPanel, SlotInv, At, SoloHandler, Succeeds, Undone, Free
<1>6. \A v \in Slot \ {w} : SlotInv(v)' /\ SoloHandler(v)'
  BY <1>2, <1>4 DEF SoloPanel, SlotInv, At, SoloHandler
<1>7. QED
  BY <1>5, <1>6 DEF HandlersSolo

\* A failed or cancelled step, a cancellation and a reply.
LEMMA FailureStaysSolo ==
  ASSUME PanelInv, SoloPanel, NEW w \in Slot,
         StepFails(w) \/ Cancel(w) \/ CancelledStep(w) \/ Reply(w)
  PROVE  SoloHandler(w)' /\ SlotInv(w)'
<1> USE DEF PanelInv, TypeOK, HandlerInv, HandlerTypeOK
<1>0. /\ PanelInv1 /\ handler[w] \in Handler /\ SlotInv(w)
      /\ users' = users /\ UNCHANGED hostFiles /\ script' = script
  BY DEF PanelInv1, SoloPanel, StepFails, Cancel, CancelledStep, Reply, Unchanged,
         storeVars, hostVars, hostFiles
<1>1. CASE StepFails(w) \/ CancelledStep(w)
  <2>1. handler[w].pc \in Step \ {"script"} /\ OnError(w)
    BY <1>1 DEF StepFails, CancelledStep
  <2>2. QED
    BY <1>0, <2>1, ErrorStaysSolo
<1>2. CASE Cancel(w)
  <2>1. /\ handler[w].pc \in Step
        /\ handler' = [handler EXCEPT ![w].cancelled = TRUE]
    BY <1>2 DEF Cancel
  <2>2. /\ handler'[w].pc = handler[w].pc
        /\ handler'[w].alone = handler[w].alone
        /\ handler'[w].result = handler[w].result
        /\ handler'[w].id = handler[w].id
        /\ handler'[w].prev = handler[w].prev
        /\ handler'[w].cand = handler[w].cand
        /\ \A v \in Slot \ {w} : handler'[v] = handler[v]
    BY <1>0, <2>1 DEF Handler
  <2>3. ~Free(w)
    BY <2>1 DEF Free, Step
  <2>4. SoloHandler(w)'
    BY <1>0, <2>2, <2>3, SameClaims DEF hostFiles
  <2>5. QED
    BY <1>0, <2>2, <2>4 DEF SlotInv, At
<1>3. CASE Reply(w)
  <2>1. handler[w].pc = "done" /\ handler'[w] = Idle
    BY <1>3 DEF Reply
  <2>2. QED
    BY <1>0, <2>1 DEF SlotInv, At, SoloHandler, Free, Idle
<1>4. QED
  BY <1>1, <1>2, <1>3

\* The script of a handler that is alone takes the host where SoloRun says.
LEMMA RunsStaySolo ==
  ASSUME PanelInv, SoloPanel, NEW w \in Slot, ScriptRuns(w) \/ ScriptBreaks(w)
  PROVE  HandlersSolo'
<1> USE DEF PanelInv, TypeOK
<1>1. /\ ScriptProgress(w) \/ ScriptFailure(w)
      /\ users' = users /\ handler' = handler
  BY DEF ScriptRuns, ScriptBreaks, storeVars
<1>2. /\ script[w].pc \in Running
      /\ script'[w].pc \in Running \cup Exited
      /\ \/ script'[w].pc = "failed"
         \/ script'[w].alone = script[w].alone /\ script'[w].cand = script[w].cand
  BY <1>1, RunKeepsCandidate
<1>3. ScriptAction(w)
  BY <1>1 DEF ScriptAction
<1>4. handler[w].pc = "script" /\ script[w].pc \notin {"none", "failed"}
  BY <1>2 DEF SoloPanel, SlotInv, At, Running
<1>5. DesiredProfiles' = DesiredProfiles
  BY <1>1 DEF DesiredProfiles, HasStatus, Exists
<1>6. SlotInv(w)'
  BY <1>1, <1>2, <1>4 DEF SlotInv, At, Running, Exited
<1>7. SoloHandler(w)'
  BY <1>1, <1>2, <1>4, <1>5
     DEF SoloPanel, SoloHandler, Succeeds, Undone, At, Free
<1>8. ASSUME NEW v \in Slot \ {w} PROVE SlotInv(v)' /\ SoloHandler(v)'
  <2>1. script'[v].pc = script[v].pc
    BY <1>3, OtherRuns
  <2>2. SlotInv(v)'
    BY <1>1, <2>1 DEF SoloPanel, SlotInv, At
  <2>3. ~Free(w) /\ handler'[v] = handler[v]
    BY <1>1, <1>4 DEF Free
  <2>4. QED
    BY <2>2, <2>3, OthersStaySolo
<1>9. QED
  BY <1>6, <1>7, <1>8 DEF HandlersSolo

\* A handler's step leaves the slots of the others as they are.
LEMMA OthersKeepSlots ==
  ASSUME PanelInv, SoloPanel, NEW w \in Slot,
         ServiceStep(w) \/ ApplyStep(w) \/ CancelledStep(w) \/ StepFails(w)
           \/ Cancel(w) \/ Reply(w),
         NEW v \in Slot \ {w}
  PROVE  SlotInv(v)' /\ SoloHandler(v)'
<1> USE DEF PanelInv, TypeOK
<1>0. PanelInv1
  BY DEF PanelInv1
<1>1. handler'[v] = handler[v] /\ ~Free(w)
  <2>1. CASE Reply(w)
    BY <2>1 DEF Reply, Free
  <2>2. CASE ~Reply(w)
    BY <1>0, <2>2, ProgressMovesOne DEF Free, Step
  <2>3. QED
    BY <2>1, <2>2
<1>2. script'[v].pc = script[v].pc
  <2>1. ScriptAction(w) \/ script' = script
    <3>1. CASE ServiceStep(w)
      BY <1>0, <3>1, ServiceKeepsHandlers DEF hostVars
    <3>2. CASE ApplyStep(w)
      BY <1>0, <3>2, HandlerFields
         DEF ApplyStep, ApplyList, ApplyRun, ScriptReturns, Healthy, Unhealthy,
             StepRefused, Unchanged, hostVars, ScriptAction
    <3>3. CASE CancelledStep(w) \/ StepFails(w) \/ Cancel(w) \/ Reply(w)
      BY <3>3 DEF CancelledStep, StepFails, Cancel, Reply, Unchanged, hostVars
    <3>4. QED
      BY <3>1, <3>2, <3>3
  <2>2. QED
    BY <2>1, OtherRuns
<1>3. SlotInv(v)'
  BY <1>1, <1>2 DEF SoloPanel, SlotInv, At
<1>4. QED
  BY <1>1, <1>3, OthersStaySolo

\* A move on the host keeps the runs that are alone on their program; a crash
\* ends them all.
LEMMA HostMoveKeepsSolo ==
  ASSUME HostTypeOK, HostInv, SoloInv, HostMove
  PROVE  SoloInv'
<1>1. CASE \E w \in Slot : ScriptAction(w)
  BY <1>1, ScriptKeepsSolo
<1>2. CASE UNCHANGED hostFiles /\ script' = script
  BY <1>2 DEF SoloInv, SoloRun, Applied, hostFiles
<1>3. CASE script' = [w \in Slot |-> NoScript]
  BY <1>3 DEF SoloInv, SoloRun, NoScript
<1>4. CASE MtproxyComesBack
  BY <1>4, ReturnKeepsSolo
<1>5. QED
  BY <1>1, <1>2, <1>3, <1>4, HostMoveCases DEF hostVars, hostFiles

\* Every step of the panel keeps SoloPanel.
LEMMA NextStaysSolo ==
  ASSUME PanelInv, SoloPanel, [Next]_vars
  PROVE  SoloPanel'
<1> USE DEF PanelInv, TypeOK
<1>1. SoloInv'
  <2>1. PanelInv1
    BY DEF PanelInv1
  <2>2. HostMove
    BY <2>1, NextMoves
  <2>3. QED
    BY <2>2, HostMoveKeepsSolo DEF SoloPanel
<1>2. ASSUME handler' = handler, users' = users, UNCHANGED hostFiles,
             script' = script
      PROVE  HandlersSolo'
  <2>1. DesiredProfiles' = DesiredProfiles
    BY <1>2 DEF DesiredProfiles, HasStatus, Exists
  <2>2. QED
    BY <1>2, <2>1 DEF SoloPanel, HandlersSolo, SlotInv, SoloHandler, At, Free,
       Succeeds, Undone, Converged, RowCleared, Exists, hostFiles
<1>3. HandlersSolo'
  <2>1. CASE \E w \in Slot : HandlerStarts(w)
    BY <2>1, StartsStaySolo
  <2>2. ASSUME NEW w \in Slot,
               ServiceStep(w) \/ ApplyStep(w) \/ CancelledStep(w)
                 \/ StepFails(w) \/ Cancel(w) \/ Reply(w)
        PROVE  HandlersSolo'
    BY <2>2, ServiceStaysSolo, ApplyStaysSolo, FailureStaysSolo, OthersKeepSlots
       DEF HandlersSolo
  <2>3. CASE \E w \in Slot : ScriptRuns(w) \/ ScriptBreaks(w)
    BY <2>3, RunsStaySolo
  <2>4. CASE \E b \in BOOLEAN : SetAutoIssue(b)
    BY <1>2, <2>4 DEF SetAutoIssue, SetSetting, hostVars, hostFiles
  <2>5. CASE Crash
    BY <2>5 DEF Crash, HandlersSolo, SlotInv, SoloHandler, At, Free, Idle, NoScript
  <2>6. CASE UNCHANGED vars
    BY <1>2, <2>6 DEF vars, storeVars, hostVars, hostFiles
  <2>7. CASE HostRecovers
    <3>1. /\ handler' = handler /\ users' = users /\ script' = script
          /\ live' = live /\ loaded' = loaded /\ secretsFile' = secretsFile
          /\ mtLoaded = None
      BY <2>7 DEF HostRecovers, MtproxyComesBack, storeVars
    <3>2. DesiredProfiles' = DesiredProfiles
      BY <3>1 DEF DesiredProfiles, HasStatus, Exists
    <3>3. QED
      BY <3>1, <3>2 DEF SoloPanel, HandlersSolo, SlotInv, SoloHandler, At, Free,
         Succeeds, Undone, Converged, RowCleared, Exists
  <2>8. QED
    BY <2>1, <2>2, <2>3, <2>4, <2>5, <2>6, <2>7 DEF Next, HandlerProgress
<1>4. QED
  BY <1>1, <1>3 DEF SoloPanel, HandlersSolo

------------------------------------------------------------------------------
(* Theorems.                                                               *)

\* What a handler that overlaps no other knows, holds in every behaviour.
THEOREM SoloPanelInvariant == Spec => []SoloPanel
<1>1. Init => SoloPanel
  BY HostInitSolo DEF Init, HostInit, SoloPanel, SlotInv, SoloHandler, Free, At,
     Idle, NoScript
<1>2. PanelInv /\ SoloPanel /\ [Next]_vars => SoloPanel'
  BY NextStaysSolo
<1>3. QED
  BY <1>1, <1>2, PanelInvariant, PTL DEF Spec

\* An apply that overlapped no other handler and succeeded has put exactly the
\* active users' profiles in the live file, tproxy-server runs that file, the
\* secrets file lists their secrets and MTProxy is up.  Which list MTProxy was
\* started with is not said.
THEOREM SoloApply == Spec => []SoloApplyConverges
<1>1. PanelInv /\ SoloPanel => SoloApplyConverges
  <2> SUFFICES ASSUME PanelInv, SoloPanel, NEW w \in Slot, handler[w].alone,
                      handler[w].pc = "done", handler[w].result = "applied"
               PROVE  /\ {p \in Profiles(live) : IsPanel(p)} = DesiredProfiles
                      /\ loaded = live
                      /\ secretsFile = SecretsOf(Profiles(live))
                      /\ mtLoaded # None
    BY DEF SoloApplyConverges
  <2>1. Converged
    BY DEF SoloPanel, SoloHandler, Succeeds, Free
  <2>2. ForeignProfile # None /\ \A p \in ForeignProfile : ~IsPanel(p)
    BY ProfileAssumption DEF IsPanel, Profile
  <2>3. live = ForeignProfile \cup DesiredProfiles
    BY <2>1, <2>2 DEF Converged, MergedProfiles, Profiles
  <2>4. \A p \in DesiredProfiles : IsPanel(p)
    <3>1. ASSUME NEW id \in RowId, HasStatus(id, {"active"})
          PROVE  IsPanel([name |-> users[id].tg, secret |-> users[id].secret])
      BY <3>1, RowTypes DEF IsPanel, HasStatus, PanelInv, TypeOK
    <3>2. QED
      BY <3>1 DEF DesiredProfiles
  <2>5. live # None
    <3>1. live \in SUBSET Profile
      BY <2>1, <2>3, ProfileAssumption DEF Converged, Profile, PanelProfile
    <3>2. QED
      BY <3>1, ProfileAssumption
  <2>6. QED
    BY <2>1, <2>2, <2>3, <2>4, <2>5 DEF Converged, Profiles
<1>2. QED
  BY <1>1, SoloPanelInvariant, PanelInvariant, PTL

\* An Issue that reports that the host refused the profile, and overlapped no
\* other handler, has put the row back as it was found.
THEOREM SoloRollback == Spec => []SoloRollbackRestores
<1>1. SoloPanel => SoloRollbackRestores
  BY DEF SoloPanel, SoloHandler, Undone, RowCleared, SoloRollbackRestores,
         HasStatus, Free
<1>2. QED
  BY <1>1, SoloPanelInvariant, PTL
==============================================================================
