----------------------------- MODULE UserLifecycle -----------------------------
(***************************************************************************)
(* What the panel promises about a user's access (internal/models and the  *)
(* doc comments of internal/service), without its statements, retries and  *)
(* host: an operation takes effect at once or not at all, a status changes *)
(* only along the edges below, and a secret that was given, or drawn for a *)
(* profile that the host refused, is never given again.                    *)
(***************************************************************************)

CONSTANTS User, Secret, None

VARIABLES
  status,  \* each user's status, "none" for a user without a row
  secret,  \* the secret of each user's profile
  drawn    \* every secret that was generated and is no longer on its way

lifecycleVars == <<status, secret, drawn>>

LifecycleInit ==
  /\ status \in [User -> {"none", "pending", "active", "revoked", "denied"}]
  /\ secret \in [User -> Secret \cup {None}]
  /\ \A u \in User : secret[u] # None <=> status[u] = "active"
  /\ \A u, v \in User : (u # v /\ secret[u] # None) => secret[u] # secret[v]
  /\ drawn = {secret[u] : u \in User} \ {None}

Moves(u, from, to, s) ==
  /\ status[u] \in from
  /\ status' = [status EXCEPT ![u] = to]
  /\ secret' = [secret EXCEPT ![u] = s]

Closed == {"revoked", "denied"}

\* A request of a new user, or again after a revocation or a denial.
Ask(u) ==
  Moves(u, {"none"} \cup Closed, "pending", None) /\ UNCHANGED drawn

\* Issue: by the administrator, or on request with auto_issue.
Grant(u, s) ==
  /\ Moves(u, {"pending"} \cup Closed, "active", s)
  /\ s \notin drawn
  /\ drawn' = drawn \cup {s}

Refuse(u) == Moves(u, {"pending"}, "denied", None) /\ UNCHANGED drawn

Withdraw(u) == Moves(u, {"active"}, "revoked", None) /\ UNCHANGED drawn

Forget(u) == Moves(u, Closed, "none", None) /\ UNCHANGED drawn

\* An Issue that is undone has drawn a secret for nothing.
Waste ==
  /\ drawn' # drawn /\ \E s \in Secret : drawn' = drawn \cup {s}
  /\ UNCHANGED <<status, secret>>

\* A rollback that breaks off leaves a user active without a profile.
Strand(u) ==
  Moves(u, {"pending"} \cup Closed, "active", None) /\ UNCHANGED drawn

LifecycleNext ==
  \/ \E u \in User :
       /\ status'[u] # status[u]
       /\ \/ Ask(u) \/ Refuse(u) \/ Withdraw(u) \/ Forget(u) \/ Strand(u)
          \/ \E s \in Secret : Grant(u, s)
  \/ Waste

Lifecycle == LifecycleInit /\ [][LifecycleNext]_lifecycleVars
==============================================================================
