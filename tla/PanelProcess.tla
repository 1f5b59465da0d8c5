----------------------------- MODULE PanelProcess -----------------------------
(***************************************************************************)
(* cmd/tgproxy-panel and internal/bot: one run of the process after the    *)
(* other, the poller and its goroutine per update, what the bot does on    *)
(* each button and whom it tells, and the shutdown.                        *)
(*                                                                         *)
(* The bot's statements are steps; of Issue there is the row's status      *)
(* before and after the apply, and an action of the panel is one step:     *)
(* ProxyPanel takes both apart.  Telegram keeps an update until a later    *)
(* poll confirms it, so what was fetched last before an exit is delivered  *)
(* again.                                                                  *)
(***************************************************************************)
EXTENDS Naturals, Sequences, FiniteSets

CONSTANTS
  Asker,        \* Telegram users who want a proxy
  Admin,        \* ADMIN_TELEGRAM_ID
  MaxPresses,   \* bound: buttons pressed in one behaviour
  Budgets       \* bounds: what may happen in one behaviour, see Budget

\* Presses, odd ones among them or not, runs of the process (the last one stays up),
\* failures (statements, Issues, starts and crashes) and calls of the Telegram API
\* that fail.
Budget ==
  [presses : 0 .. MaxPresses, odd : BOOLEAN, runs : Nat \ {0}, failures : Nat,
   sends : Nat]

ASSUME ProcessAssumption ==
  /\ Admin \notin Asker
  /\ MaxPresses \in Nat
  /\ Budgets \subseteq Budget

VARIABLES
  process,  \* where run() is
  poller,   \* the bot's loop: "polling" or "stopped"
  web,      \* an HTTP request in flight: "idle" or "busy"
  gaveUp,   \* Shutdown returned with a request still in flight
  setting,  \* the auto_issue row of settings
  choice,   \* history: the last choice made in the panel
  account,  \* the status of each user's row
  rows,     \* the rows each user has had so far: the last one's id, ids being
            \*   counted for each user
  press,    \* the callback queries and what became of them
  told,     \* history: who was told "waiting" and
  asked,    \*   whose last row the administrator was asked about, since it
            \*   became pending
  budget,   \* one of Budgets
  used      \* runs, failures and lost sends so far

systemVars == <<process, poller, web, gaveUp>>
dataVars == <<setting, choice, account, rows>>
tellVars == <<told, asked>>

processVars == <<systemVars, dataVars, press, tellVars, budget, used>>

Press == 1 .. MaxPresses

Statuses == {"none", "pending", "active", "revoked", "denied"}

Kind == {"get", "approve", "deny", "other"}

\* "lost": confirmed to Telegram, and the process ended before it was handled.
\* "panicked": the handler panicked and handleUpdate recovered.
Stage ==
  {"unused", "telegram", "channel", "begun", "create", "decide", "reopen", "issue",
   "issuing", "denying", "telling", "done", "panicked", "lost"}

\* "link" is what sendProxy sends: the link and its QR code, or the generic error
\* when the row has no secret.
Text == {"link", "waiting", "pending", "failed", "error", "denied"}

\* Besides texts: the notification with its two buttons, what the administrator
\* sees of a decision, and the answer to the callback query.
Call == Text \cup {"ask", "confirm", "ack", "alert"}

NotPressed ==
  [kind |-> "other", by |-> Admin, about |-> Admin, old |-> FALSE,
   confirmed |-> FALSE, at |-> "unused", row |-> 0, seen |-> "none",
   todo |-> <<>>, acks |-> 0]

\* A new database, or one an earlier run left at rest, its requests announced.
ProcessInit ==
  /\ process = "down" /\ poller = "stopped" /\ web = "idle" /\ gaveUp = FALSE
  /\ choice = "unset"
  /\ \/ setting = "unset" /\ account = [u \in Asker |-> "none"]
     \/ setting \in {"on", "off"} /\ account \in [Asker -> Statuses]
  /\ rows = [u \in Asker |-> IF account[u] = "none" THEN 0 ELSE 1]
  /\ press = [i \in Press |-> NotPressed]
  /\ told = {}
  /\ asked = {u \in Asker : account[u] = "pending"}
  /\ budget \in Budgets
  /\ used = [runs |-> 0, failures |-> 0, sends |-> 0]

Alive == process \in {"up", "draining"}

Fails ==
  /\ used.failures < budget.failures
  /\ used' = [used EXCEPT !.failures = @ + 1]

------------------------------------------------------------------------------
(* run().                                                                  *)

\* Mutant: .env always wins.
SeedsAlways == setting' \in {"on", "off"}

\* seedAutoIssueSetting: AUTO_ISSUE, whatever .env says at this start, counts on
\* the first run only.
Seed == setting' \in IF setting = "unset" THEN {"on", "off"} ELSE {setting}

StartUp ==
  /\ process = "down"
  /\ Seed
  /\ process' = "up" /\ poller' = "polling" /\ gaveUp' = FALSE
  /\ used' = [used EXCEPT !.runs = @ + 1]
  /\ UNCHANGED <<web, choice, account, rows, press, tellVars, budget>>

\* bot.New asks Telegram and fails; the setting is seeded by then.
StartFails ==
  /\ process = "down"
  /\ Fails
  /\ Seed
  /\ UNCHANGED <<process, poller, web, gaveUp, choice, account, rows, press,
                 tellVars, budget>>

Signal ==
  /\ process = "up" /\ used.runs < budget.runs
  /\ process' = "draining"
  /\ UNCHANGED <<poller, web, gaveUp, dataVars, press, tellVars, budget, used>>

\* ctx.Done in the loop of Run; a waiting update may be taken first.
PollerStops ==
  /\ process = "draining" /\ poller = "polling"
  /\ poller' = "stopped"
  /\ UNCHANGED <<process, web, gaveUp, dataVars, press, tellVars, budget, used>>

\* shutdownTimeout.
ShutdownGivesUp ==
  /\ process = "draining" /\ web = "busy" /\ ~gaveUp
  /\ gaveUp' = TRUE
  /\ UNCHANGED <<process, poller, web, dataVars, press, tellVars, budget, used>>

\* The process is gone with its goroutines; updates it has not confirmed will
\* be delivered again, confirmed ones it has not handled are lost.
Vanish ==
  /\ process' = "down" /\ poller' = "stopped" /\ web' = "idle"
  /\ press' = [i \in Press |->
       IF \/ press[i].at \in {"unused", "lost"}
          \/ press[i].at \in {"done", "panicked"} /\ press[i].confirmed
         THEN press[i]
       ELSE IF press[i].confirmed THEN [press[i] EXCEPT !.at = "lost", !.todo = <<>>]
       ELSE [press[i] EXCEPT !.at = "telegram", !.todo = <<>>, !.acks = 0]]
  /\ UNCHANGED <<gaveUp, dataVars, tellVars, budget>>

\* Shutdown has returned and wg.Wait has: the loop of the bot and ListenAndServe
\* are awaited, handlers of updates are not.
Exit ==
  /\ process = "draining" /\ poller = "stopped"
  /\ (web = "idle" \/ gaveUp)
  /\ Vanish
  /\ UNCHANGED used

Killed ==
  /\ Alive /\ used.runs < budget.runs
  /\ Fails
  /\ Vanish

------------------------------------------------------------------------------
(* Buttons and the poller.                                                 *)

\* A user presses "get", whoever sees the message about one of the user's rows one
\* of its two buttons; old messages come without their content.  Odd are these, the
\* decisions of others than the administrator and unknown buttons.
PressButton(i) ==
  /\ i <= budget.presses
  /\ press[i].at = "unused" /\ \A j \in 1 .. i - 1 : press[j].at # "unused"
  /\ \E kind \in Kind, u \in Asker, old \in BOOLEAN :
       \E by \in IF kind \in {"approve", "deny"} THEN {Admin, u} ELSE {u},
          row \in IF kind \in {"approve", "deny"} THEN 1 .. rows[u] ELSE {0} :
         /\ kind = "other" => ~old
         /\ ~budget.odd => kind # "other" /\ ~old /\ (kind = "get" \/ by = Admin)
         /\ press' = [press EXCEPT ![i] =
              [NotPressed EXCEPT !.kind = kind, !.by = by, !.about = u, !.old = old,
                                 !.at = "telegram", !.row = row]]
  /\ UNCHANGED <<systemVars, dataVars, tellVars, budget, used>>

\* One call of GetUpdates confirms what the last one returned.
Poll ==
  /\ Alive /\ poller = "polling"
  /\ \E i \in Press : press[i].at # "unused" /\ ~press[i].confirmed
  /\ press' = [i \in Press |->
       IF press[i].at = "telegram" THEN [press[i] EXCEPT !.at = "channel"]
       ELSE [press[i] EXCEPT !.confirmed = press[i].at # "unused"]]
  /\ UNCHANGED <<systemVars, dataVars, tellVars, budget, used>>

Dispatch(i) ==
  /\ poller = "polling" /\ press[i].at = "channel"
  /\ press' = [press EXCEPT ![i].at = "begun"]
  /\ UNCHANGED <<systemVars, dataVars, tellVars, budget, used>>

------------------------------------------------------------------------------
(* handleCallback.                                                         *)

Serves(i, at) == Alive /\ press[i].at = at

\* The bot's context is the one the signal cancels: until then a statement is
\* executed unless it fails, afterwards none is.
Executes(i, at) == Serves(i, at) /\ process = "up"

Breaks(i, at) ==
  /\ Serves(i, at)
  /\ IF process = "up" THEN Fails ELSE UNCHANGED used

Says(i, calls) == press' = [press EXCEPT ![i].at = "telling", ![i].todo = calls]

ReportsError(i) == Says(i, <<"error", "ack">>)

GoesTo(i, at) == press' = [press EXCEPT ![i].at = at]

\* The row that was read, or that a button is about, is still there.
RowThere(i) ==
  account[press[i].about] # "none" /\ rows[press[i].about] = press[i].row

Put(i, st) ==
  /\ account' = [account EXCEPT ![press[i].about] = st]
  /\ LET fresh == IF st = "pending" THEN {press[i].about} ELSE {}
     IN told' = told \ fresh /\ asked' = asked \ fresh

\* INSERT and UPDATE, each with the SELECT that reads the row back.
InsertRow(i) ==
  /\ Put(i, "pending")
  /\ rows' = [rows EXCEPT ![press[i].about] = @ + 1]

UpdateRow(i, st) == Put(i, st) /\ UNCHANGED rows

\* Whatever the message, get and unknown data are answered; a decision without
\* its message is not.
Ignored(i) ==
  /\ Serves(i, "begun")
  /\ \/ press[i].kind = "other"
     \/ press[i].old
  /\ Says(i, IF press[i].kind \in {"get", "other"} THEN <<"ack">> ELSE <<>>)
  /\ UNCHANGED <<systemVars, dataVars, tellVars, budget, used>>

\* An alert is an answer to the callback query.
NotTheAdmin(i) ==
  /\ Serves(i, "begun") /\ press[i].kind \in {"approve", "deny"} /\ ~press[i].old
  /\ press[i].by # Admin
  /\ Says(i, <<"alert">>)
  /\ UNCHANGED <<systemVars, dataVars, tellVars, budget, used>>

\* The handlers below begin by reading the row.
Reads(i) ==
  ~press[i].old /\ (press[i].kind = "get" \/ press[i].by = Admin)

------------------------------------------------------------------------------
(* Request.                                                                *)

GetProxy(i) ==
  /\ Executes(i, "begun") /\ Reads(i) /\ press[i].kind = "get"
  /\ LET u == press[i].about
         RowRead(at) == press' = [press EXCEPT ![i].at = at, ![i].row = rows[u],
                                               ![i].seen = account[u]]
     IN \/ account[u] = "active" /\ Says(i, <<"link", "ack">>)
        \/ account[u] = "pending" /\ Says(i, <<"waiting", "ack">>)
        \/ account[u] = "none" /\ GoesTo(i, "create")
        \/ account[u] \in {"revoked", "denied"} /\ RowRead("decide")
  /\ UNCHANGED <<systemVars, dataVars, tellVars, budget, used>>

\* Mutant: an INSERT that fails is tried again.
RetriesCreate(i) ==
  /\ Executes(i, "create")
  /\ account[press[i].about] = "none"
  /\ InsertRow(i)
  /\ press' = [press EXCEPT ![i].at = "decide", ![i].seen = "pending",
                            ![i].row = rows[press[i].about] + 1]
  /\ UNCHANGED <<systemVars, setting, choice, budget, used>>

\* Two presses of a new user: the second INSERT fails.
CreateAccount(i) ==
  /\ Executes(i, "create")
  /\ IF account[press[i].about] = "none"
       THEN /\ InsertRow(i)
            /\ press' = [press EXCEPT ![i].at = "decide", ![i].seen = "pending",
                                      ![i].row = rows[press[i].about] + 1]
       ELSE ReportsError(i) /\ UNCHANGED <<account, rows, tellVars>>
  /\ UNCHANGED <<systemVars, setting, choice, budget, used>>

\* AutoIssueEnabled.  A row that was not read as pending is made so.
RequestDecides(i) ==
  /\ Executes(i, "decide")
  /\ IF setting = "on" THEN GoesTo(i, "issue")
     ELSE IF press[i].seen = "pending" THEN Says(i, <<"pending", "ask", "ack">>)
     ELSE GoesTo(i, "reopen")
  /\ UNCHANGED <<systemVars, dataVars, tellVars, budget, used>>

\* Mutant: the administrator is not asked about a reopened request.
AsksOnlyForNew(i) ==
  /\ Executes(i, "reopen")
  /\ IF RowThere(i)
       THEN UpdateRow(i, "pending") /\ Says(i, <<"pending", "ack">>)
       ELSE GoesTo(i, "panicked") /\ UNCHANGED <<account, rows, tellVars>>
  /\ UNCHANGED <<systemVars, setting, choice, budget, used>>

\* UpdateUserStatus returns no user when the row has been deleted meanwhile, and
\* the error message reads the user's id: a panic, after which nothing is said
\* and nothing answered.
RequestReopens(i) ==
  /\ Executes(i, "reopen")
  /\ IF RowThere(i)
       THEN UpdateRow(i, "pending") /\ Says(i, <<"pending", "ask", "ack">>)
       ELSE GoesTo(i, "panicked") /\ UNCHANGED <<account, rows, tellVars>>
  /\ UNCHANGED <<systemVars, setting, choice, budget, used>>

------------------------------------------------------------------------------
(* Approve, Deny and Issue.                                                *)

AdminApproves(i) ==
  /\ Executes(i, "begun") /\ Reads(i) /\ press[i].kind = "approve"
  /\ LET st == account[press[i].about]
     IN IF RowThere(i) /\ st \in {"pending", "revoked", "denied"}
          THEN press' = [press EXCEPT ![i].at = "issue", ![i].seen = st]
          ELSE ReportsError(i)
  /\ UNCHANGED <<systemVars, dataVars, tellVars, budget, used>>

\* Issue makes the row active before it applies it.
IssueWrites(i) ==
  /\ Executes(i, "issue")
  /\ IF RowThere(i)
       THEN UpdateRow(i, "active") /\ GoesTo(i, "issuing")
       ELSE ReportsError(i) /\ UNCHANGED <<account, rows, tellVars>>
  /\ UNCHANGED <<systemVars, setting, choice, budget, used>>

IssueSucceeds(i) ==
  /\ Serves(i, "issuing")
  /\ Says(i, IF press[i].kind = "get" THEN <<"link", "ack">>
             ELSE <<"confirm", "link", "ack">>)
  /\ UNCHANGED <<systemVars, dataVars, tellVars, budget, used>>

\* The row gets the status it was read with, unless it is gone or the rollback
\* breaks as well.
RolledBack(i) ==
  \/ UNCHANGED <<account, rows, tellVars>>
  \/ process = "up" /\ RowThere(i) /\ UpdateRow(i, press[i].seen)

\* Mutant: handleAdminDecision goes on after the error.
GoesOnAfterError(i) ==
  /\ Breaks(i, "issuing")
  /\ RolledBack(i)
  /\ Says(i, IF press[i].kind = "get" THEN <<"failed", "ack">>
             ELSE <<"failed", "ack", "confirm", "ack">>)
  /\ UNCHANGED <<systemVars, setting, choice, budget>>

\* The apply fails; whoever pressed is told.
IssueBreaks(i) ==
  /\ Breaks(i, "issuing")
  /\ RolledBack(i)
  /\ Says(i, <<"failed", "ack">>)
  /\ UNCHANGED <<systemVars, setting, choice, budget>>

AdminDenies(i) ==
  /\ Executes(i, "begun") /\ Reads(i) /\ press[i].kind = "deny"
  /\ IF RowThere(i) /\ account[press[i].about] = "pending"
       THEN GoesTo(i, "denying")
       ELSE ReportsError(i)
  /\ UNCHANGED <<systemVars, dataVars, tellVars, budget, used>>

DenyWrites(i) ==
  /\ Executes(i, "denying")
  /\ IF RowThere(i)
       THEN UpdateRow(i, "denied") /\ Says(i, <<"confirm", "denied", "ack">>)
       ELSE ReportsError(i) /\ UNCHANGED <<account, rows, tellVars>>
  /\ UNCHANGED <<systemVars, setting, choice, budget, used>>

------------------------------------------------------------------------------
(* A statement fails or the context is cancelled: nothing is written, or the *)
(* row is and cannot be read back.                                           *)

LookupBreaks(i) ==
  /\ Breaks(i, "begun") /\ Reads(i) /\ press[i].kind # "other"
  /\ ReportsError(i)
  /\ UNCHANGED <<systemVars, dataVars, tellVars, budget>>

CreateBreaks(i) ==
  /\ Breaks(i, "create")
  /\ \/ UNCHANGED <<account, rows, tellVars>>
     \/ account[press[i].about] = "none" /\ InsertRow(i)
  /\ ReportsError(i)
  /\ UNCHANGED <<systemVars, setting, choice, budget>>

DecideBreaks(i) ==
  /\ Breaks(i, "decide")
  /\ ReportsError(i)
  /\ UNCHANGED <<systemVars, dataVars, tellVars, budget>>

\* UpdateUserStatus returns no user, see RequestReopens.
ReopenBreaks(i) ==
  /\ Breaks(i, "reopen")
  /\ \/ UNCHANGED <<account, rows, tellVars>>
     \/ RowThere(i) /\ UpdateRow(i, "pending")
  /\ GoesTo(i, "panicked")
  /\ UNCHANGED <<systemVars, setting, choice, budget>>

WriteBreaks(i) ==
  /\ \E w \in {[at |-> "issue", st |-> "active"], [at |-> "denying", st |-> "denied"]} :
       /\ Breaks(i, w.at)
       /\ \/ UNCHANGED <<account, rows, tellVars>>
          \/ RowThere(i) /\ UpdateRow(i, w.st)
  /\ ReportsError(i)
  /\ UNCHANGED <<systemVars, setting, choice, budget>>

StatementBreaks(i) ==
  \/ LookupBreaks(i) \/ CreateBreaks(i) \/ DecideBreaks(i) \/ ReopenBreaks(i)
  \/ WriteBreaks(i) \/ IssueBreaks(i)

------------------------------------------------------------------------------
(* Sends, one after the other; an error is logged and the next one made.    *)

Sent(i) ==
  press' = [press EXCEPT ![i].todo = Tail(@),
              ![i].acks = @ + IF Head(press[i].todo) \in {"ack", "alert"} THEN 1 ELSE 0]

Tell(i) ==
  /\ Serves(i, "telling") /\ press[i].todo # <<>>
  /\ LET u == press[i].about
     IN /\ told' = IF Head(press[i].todo) = "waiting" THEN told \cup {u} ELSE told
        /\ asked' = IF Head(press[i].todo) = "ask" /\ RowThere(i) THEN asked \cup {u}
                    ELSE asked
  /\ Sent(i)
  /\ UNCHANGED <<systemVars, dataVars, budget, used>>

SendFails(i) ==
  /\ Serves(i, "telling") /\ press[i].todo # <<>>
  /\ used.sends < budget.sends
  /\ used' = [used EXCEPT !.sends = @ + 1]
  /\ Sent(i)
  /\ UNCHANGED <<systemVars, dataVars, tellVars, budget>>

Finish(i) ==
  /\ Serves(i, "telling") /\ press[i].todo = <<>>
  /\ press' = [press EXCEPT ![i].at = "done"]
  /\ UNCHANGED <<systemVars, dataVars, tellVars, budget, used>>

------------------------------------------------------------------------------
(* The panel's side.                                                       *)

WebBegins ==
  /\ process = "up" /\ web = "idle"
  /\ web' = "busy"
  /\ UNCHANGED <<process, poller, gaveUp, dataVars, press, tellVars, budget, used>>

\* handleApprove, handleDeny, handleRevoke, handleDelete: nobody is told.
WebDecides ==
  \E u \in Asker :
    /\ \/ /\ account[u] \in {"pending", "revoked", "denied"}
          /\ account' = [account EXCEPT ![u] = "active"]
       \/ account[u] = "pending" /\ account' = [account EXCEPT ![u] = "denied"]
       \/ account[u] = "active" /\ account' = [account EXCEPT ![u] = "revoked"]
       \/ /\ account[u] \in {"revoked", "denied"}
          /\ account' = [account EXCEPT ![u] = "none"]
    /\ UNCHANGED <<setting, choice, rows>>

\* handleSetAutoIssue.
WebSets ==
  /\ \E v \in {"on", "off"} : setting' = v /\ choice' = v
  /\ UNCHANGED <<account, rows>>

WebEnds ==
  /\ Alive /\ web = "busy"
  /\ WebDecides \/ WebSets \/ UNCHANGED dataVars
  /\ web' = "idle"
  /\ UNCHANGED <<process, poller, gaveUp, press, tellVars, budget, used>>

------------------------------------------------------------------------------
Handles(i) ==
  \/ Ignored(i) \/ NotTheAdmin(i) \/ GetProxy(i) \/ CreateAccount(i)
  \/ RequestDecides(i) \/ RequestReopens(i) \/ AdminApproves(i) \/ IssueWrites(i)
  \/ IssueSucceeds(i) \/ AdminDenies(i) \/ DenyWrites(i) \/ Tell(i) \/ Finish(i)

ProcessNext ==
  \/ StartUp \/ StartFails \/ Signal \/ PollerStops \/ ShutdownGivesUp \/ Exit
  \/ Killed \/ Poll \/ WebBegins \/ WebEnds
  \/ \E i \in Press :
       PressButton(i) \/ Dispatch(i) \/ Handles(i) \/ StatementBreaks(i) \/ SendFails(i)

\* The panel is started again, by systemd after a failure and by the operator after
\* a clean exit; goroutines run, ten seconds pass.  HTTP requests need not end.
ProcessFairness ==
  /\ WF_processVars(StartUp) /\ WF_processVars(PollerStops)
  /\ WF_processVars(ShutdownGivesUp) /\ WF_processVars(Exit) /\ WF_processVars(Poll)
  /\ \A i \in Press : WF_processVars(Dispatch(i)) /\ WF_processVars(Handles(i))

ProcessSpec == ProcessInit /\ [][ProcessNext]_processVars /\ ProcessFairness

------------------------------------------------------------------------------
(* Properties.                                                             *)

\* Every variable keeps to the values the code can give it.
ProcessTypeOK ==
  /\ process \in {"down", "up", "draining"} /\ poller \in {"polling", "stopped"}
  /\ web \in {"idle", "busy"} /\ gaveUp \in BOOLEAN
  /\ {setting, choice} \subseteq {"unset", "on", "off"}
  /\ account \in [Asker -> Statuses] /\ rows \in [Asker -> Nat]
  /\ \A i \in Press :
       /\ press[i].kind \in Kind /\ press[i].at \in Stage /\ press[i].row \in Nat
       /\ press[i].seen \in Statuses /\ press[i].todo \in Seq(Call)
  /\ told \subseteq Asker /\ asked \subseteq Asker
  /\ budget \in Budgets /\ used.runs \in 0 .. budget.runs
  /\ used.failures \in 0 .. budget.failures /\ used.sends \in 0 .. budget.sends

\* The spinner on a button stops: a press that was handled to its end made exactly
\* one answerCallbackQuery call, and none makes two; a decision on a message too
\* old to be sent along gets none.  Only a panic leaves a press unanswered, and
\* only one way leads there: "get" of a revoked or denied user whose row cannot be
\* made pending, because it was deleted meanwhile, a statement failed or the
\* shutdown cancelled it.
AnsweredOnce ==
  \A i \in Press :
    /\ press[i].acks <= 1
    /\ press[i].at = "done" =>
         press[i].acks = IF press[i].old /\ press[i].kind \in {"approve", "deny"} THEN 0
                         ELSE 1
    /\ press[i].at = "panicked" =>
         /\ press[i].acks = 0
         /\ press[i].kind = "get" /\ press[i].seen \in {"revoked", "denied"}
         /\ \/ ~RowThere(i)
            \/ used.failures > 0
            \/ process # "up" \/ used.runs > 1

Resting == \A i \in Press : press[i].at \in {"unused", "done", "panicked"}

\* Without failures, lost sends and a shutdown every pending request has been put
\* to the administrator once the handlers are done, with buttons about its row,
\* also when presses of one user, decisions, deletions and the panel's other
\* actions race.
PendingIsAnnounced ==
  (/\ Resting /\ process = "up"
   /\ used = [runs |-> 1, failures |-> 0, sends |-> 0]) =>
    \A u \in Asker : account[u] = "pending" => u \in asked

\* ".env seeds on first run; panel edits DB": a choice made in the panel outlives
\* restarts, failed starts and edits of .env.
ChoiceKept == choice # "unset" => setting = choice

\* A press is handled in the end, be it in a panic, or was confirmed and lost in an
\* exit.
PressTaken ==
  \A i \in Press :
    press[i].at = "telegram" ~> press[i].at \in {"done", "panicked", "lost"}

\* messages.go tells a user who presses again "your request is already under
\* review, wait for the administrator's decision": the administrator was asked.
WaitingIsAnnounced ==
  Resting => \A u \in Asker :
    (account[u] = "pending" /\ u \in told) => u \in asked

==============================================================================
