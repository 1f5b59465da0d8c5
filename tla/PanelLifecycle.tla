---------------------------- MODULE PanelLifecycle ----------------------------
(***************************************************************************)
(* ProxyPanel implements UserLifecycle as long as handlers do not overlap. *)
(*                                                                         *)
(* An Issue writes the row first and applies it later, so a row it has     *)
(* written is seen as it was before, until the apply succeeded, the row is *)
(* rolled back, or nobody is left to do either.                            *)
(***************************************************************************)
EXTENDS ProxyPanel

IssuePart ==
  {"issue_read", "issue_check", "apply_list", "apply_run", "script", "health",
   "rollback_clear", "rollback_status", "rollback_read"}

\* The handlers that have an Issue of a row under way.
Issuing(id) ==
  {w \in Slot : /\ handler[w].pc \in IssuePart /\ handler[w].id = id
                /\ handler[w].op \in {"approve", "request"}}

\* UNIQUE(telegram_id): RowsOf(u) has one element at most.
StatusOf(u) ==
  IF RowsOf(u) = {} THEN "none"
  ELSE LET id == CHOOSE i \in RowsOf(u) : TRUE
       IN IF Issuing(id) = {} THEN users[id].status
          ELSE handler[CHOOSE w \in Issuing(id) : TRUE].prev

SecretOf(u) ==
  LET ids == {id \in RowsOf(u) : Issuing(id) = {}}
  IN IF ids = {} THEN None ELSE users[CHOOSE id \in ids : TRUE].secret

OnTheirWay ==
  {users[id].secret : id \in {i \in RowId : Exists(i) /\ Issuing(i) # {}}}

L == INSTANCE UserLifecycle WITH
       status <- [u \in User |-> StatusOf(u)],
       secret <- [u \in User |-> SecretOf(u)],
       drawn  <- SecretsOf(issued) \ OnTheirWay

\* Whatever statement, command or process fails, handlers that never overlap do
\* to each user what the service promises: no half an operation, no edge that
\* is not there, no secret twice.
KeepsLifecycle == L!Lifecycle
==============================================================================
