# Verification of tgproxy-panel

tgproxy-panel is a single-admin web panel and Telegram bot that hands out
personal secrets ("profiles") for a tproxy/MTProxy server.  The truth about who
may use the proxy is a row of an SQLite database; the truth about who can is
`/etc/tproxy-server/profiles.json`, the running `tproxy-server`, and the secret
list of `MTProxy`.  A root shell script, `deploy/apply-profiles.sh`, carries the
former to the latter.  What is hard about the program is keeping the two in line
when handlers overlap, commands fail, requests are cancelled and the process
dies between two statements.  That is what this directory models.

## 1. Inventory

| component | state | operations | correct when |
|---|---|---|---|
| store (`internal/store`) | `users`, `settings`, `audit_log` in SQLite, one connection | create, status change, set/clear profile, delete (a transaction), settings, audit | a row has a secret only while it may be active; audit rows refer to rows that exist |
| service (`internal/service`) | none; each call has local variables | Approve, Request, Issue (+ rollback), Revoke, Deny, Delete, Resend, SetAutoIssue | statuses move only along allowed edges; a success means the host agrees with the database; a failed Issue is undone |
| applier (`internal/applier`) | candidate and backup files | IssueProfile, RevokeProfile: list the active users, write and check a candidate, run the script, wait for health, roll back | only what the database committed reaches the host; the next undisturbed apply repairs whatever went wrong before |
| apply-profiles.sh (`deploy/`) | `profiles.json`, `*.bak`, `mtproxy.secrets`, two systemd units | merge, `-check`, back up, install, verify, restart, restore, synchronise MTProxy | profiles of others are never touched; the file is never invalid; services run what is on disk; a rejected restart is undone |
| mtproxy-exec.sh (`deploy/`) | the running MTProxy's `-S` list | read the secrets file at unit start | MTProxy accepts the secrets of the file |
| httpserver (`internal/httpserver`) | none | one goroutine per request; the request's context is cancelled when the client leaves; user list with filter, search, two sorts and a badge | every request is answered; a page shows what the filter selects, in the order asked for |
| bot (`internal/bot`) | none | one poller, one goroutine per update; panics are recovered | every press is answered once, every request reaches the administrator, updates survive a restart |
| auth (`internal/auth`) | login attempts per address; signed cookies in browsers | Allow, RecordFailure, RecordSuccess; New, Verify | a lock is earned, lasts and ends, with overlapping attempts |
| main (`cmd/tgproxy-panel`) | the process, the first value of `auto_issue` | start, seeding, signal, shutdown in bounded time | a choice made in the panel is kept; no update is left behind by an exit without being delivered again or counted as lost |
| config (`internal/config`) | `.env`, the environment | Load, loadDotEnv, checks, public hostname | the environment wins; a start by hand and one by systemd agree |
| install.sh, Caddy patcher (`deploy/`) | Caddyfile, `apply-profiles.env`, sudoers rule, `.env`, unit | one run of about fifteen steps, repeated at will | the administrator's Caddyfile survives; after a success everything names the same directory and token |
| systemd unit, sudoers rule | process groups, the one root command | restart on failure; candidates/ only | |
| models, secretgen, qrcode, logging, templates | none that changes | formatting, randomness, output | |

How they interact: an HTTP handler or a bot goroutine calls the service; the
service writes the database, then calls the applier on the same context; the
applier reads the database again, writes a candidate, and starts
`sudo apply-profiles.sh <candidate>`, whose exit status it waits for; it then
polls the service the script restarted.  **No lock is held anywhere across these
steps.**  The only serialisation is SQLite's single connection
(`store.go`, `SetMaxOpenConns(1)`), which makes each statement atomic and
nothing larger.

The behaviours that are hard, which `PROJECT.json` lists line by line as
hazards: two applies whose older list is installed last; checks whose row
changes before the write that relies on them; a rollback of two statements on a
context that may be the very thing that failed; a commit whose read-back fails;
crashes and cancellations at any point; two runs of the root script sharing
files, backups and services; file names ordered by a clock; retries that find
"nothing changed"; logins that pass the limiter together; updates that an exit
loses or that are delivered twice; an installer that is killed between two files.

## 2. Modules

```
ProxyProfiles          profiles, names, secrets, uniqueness
 ├── PanelStore        internal/store, the statements that write
 ├── HostApply         deploy/apply-profiles.sh, mtproxy-exec.sh   (HostSpec)
 │    └── ProxyPanel   internal/service + internal/applier, on both (Spec)
 │         └── PanelLifecycle   ProxyPanel implements ...
 │              UserLifecycle   ... the abstract promise (INSTANCE ... WITH)
 └── ProfilesMerge     the two merges of profiles.json, entry by entry
Ranking                sorting and choosing by rank, for ProfilesMerge and UserList
ApplyFiles             names, pruning, rotation of candidates and backups
PanelProcess           cmd/tgproxy-panel, internal/bot
Login                  internal/auth, the login handlers
UserList               the user list: SQL, filter, sorts, badge
ConfigLoad             internal/config
Install                deploy/install.sh

MCHostApply, MCProxyPanel     constants and symmetry for TLC
MCHost                        HostApply, ApplyFiles, ProfilesMerge in one run
MCConsole                     PanelProcess, Login, UserList, ConfigLoad, Install
HostApplyProofs               theorems about HostApply
 └── ProxyPanelProofs         about ProxyPanel, from the same lemmas, and about
      │                       a handler that overlaps no other
      └── PanelLifecycleProofs   about one handler at a time (the refinement)
                              and about two that race
ApplyFilesProofs              theorems about ApplyFiles
ListProofs                    theorems about ProfilesMerge and UserList
 └── DeployProofs             about ConfigLoad and Install, from its induction
PanelProcessProofs            theorems about PanelProcess
LoginProofs                   theorems about Login
```

`MCHost` and `MCConsole` put models that share no variable into one run: a
variable `part` says whose behaviour it is, and the other parts stand still, in
one state, which no fairness condition asks to leave.  The state space is the
sum of the parts', not their product, so nothing is lost or gained by it.

### ProxyProfiles

A profile is `[name, secret]`.  `user_<telegram_id>` is represented by the Telegram
user, because the mapping is injective and `IsPanelManagedProfile` (`^user_\d+$`) is
exactly membership in its range.  A file is the set of its profiles: both readers
refuse repeated names and secrets (`Unique`) and neither depends on the order.
`MergedProfiles` is the script's merge of two such sets, which HostApply uses and
ProfilesMerge relates to the merge of lists.

### PanelStore

One operator per statement of `store.go` that changes a table.  `profile_name`
is NULL exactly when `secret` is and is derived from `telegram_id`, so a row is
`[tg, status, secret]`.  `issued` is a history variable: every profile ever
committed.  `nextId` is AUTOINCREMENT; ids are never reused.

### HostApply

One run of the script per slot; `script[w].pc` is what it does next.

| action | apply-profiles.sh |
|---|---|
| `StartScript` | invocation and argument checks (144-200) |
| `MergeStep` | `merge_profiles`, duplicates, `-check` (202-284) |
| `PortsStep` | every profile's backend must be listening (286-307) |
| `BackupStep` | copy to `$backup_path`, rotation (309-349) |
| `InstallStep` | temporary file and rename (351-367) |
| `VerifyStep` | the MISSING check, which reads the live file again (368-399) |
| `RestartStep`, `RestartRejected`, `RestoreStep` | restart of tproxy-server, restore of this run's backup (401-422) |
| `SyncStep`, `CompareStep`, `WriteStep`, `MtproxyStep`, `MtproxyRestartFails` | `sync_mtproxy_secrets` (424-514) |
| `ScriptDies` | `die`, `set -e`, a kill, before any of these has taken effect |
| `MtproxyComesBack` | not the script: who starts MTProxy after a failed restart |

Steps are cut at every access to something another run can see.  `loaded` and
`mtLoaded` are what the running services read when they started.  A rejected
restart leaves the old process or none: both outcomes are taken.  The backend of
every profile is MTProxy's port, so `PortsStep` refuses when MTProxy is down; that
`ss` and `python3` are installed is taken for granted.  MTProxy is down only after a
restart by the script that failed: crashes of its own, and tproxy-server coming back
without a run of the script, are left out.

Rotation happens with the backup that triggers it and goes by the names of the files,
which HostApply leaves out (ApplyFiles has them): the script keeps the last
`BACKUP_KEEP` names, and the backup just taken need not be among them.  `Unrotated`
therefore lets any backups stay, up to `BACKUP_KEEP`, and any go, the run's own
included.  Only the script's backups count: the panel cannot normally read
`profiles.json`, so `backupProfiles` takes none (`isUnreadableProfiles`).
`alone` and `base` are history variables, used by properties only.

### ProxyPanel

A handler is a pc named after the function it is in and the local variables it
carries to a later step: the row it read (`id`, `tg`, `prev`), the generated
`secret`, the list `cand` read by `desiredProfiles`.  Each statement, command or
wait is one action; the read at the start of a handler is the action that
starts it, since its guards are the early returns, which change nothing.

| code | actions |
|---|---|
| `Request` | `RequestNew`/`RequestAgain`, `CreateStep`, `CreateRead`, `AutoIssueStep`, `SetPendingStep`, `PendingRead`, then `Issue` |
| `Approve`, `Issue` | `Approve`, `IssueWrite`, `IssueRead`, `IssueCheck`, then apply; `RollbackClear`, `RollbackStatus`, `RollbackRead` |
| `Revoke` | `Revoke`, `RevokeWrite`, `RevokeRead`, `RevokeCheck`, then apply |
| `Deny`, `Delete`, `Resend` | `Deny`, `DenyWrite`, `DenyRead`; `Delete`, `DeleteAudit`, `DeleteRow`; `Resend` |
| `apply` | `ApplyList`, `ApplyRun`, the script's steps, `ScriptReturns`, `Healthy`/`Unhealthy` |
| `audit` | `AuditStep` |
| any error | `StepRefused` (no row, failed check), `StepFails`, through `OnError` |
| context, process | `Cancel`, `CancelledStep`, `Crash` |

Points that deserve a word:

* `exec.CommandContext` kills `sudo`'s process on cancellation, but the panel is
  not root and cannot; `Run` then waits for the script and returns an error
  whatever its exit status.  So `ScriptReturns` takes cancelled handlers to the
  failure path, and `CancelledStep` leaves a running script alone.
* A crash ends the unit's whole control group, the script included, and nothing
  is repaired at start-up: `Crash` clears handlers and runs and keeps the rest.
* `rollback` after a failed health check passes a file of `BACKUP_DIR` to the
  script, which takes files of `BACKUP_DIR/candidates` only and refuses it before
  it reads anything.  `Unhealthy` is therefore one failure step; the run
  `unhealthy` shows what it means.
* A secret is 16 random bytes: `IssueWrite` picks one never issued.  When the
  constant set is used up it fails, as `GenerateSecret` may.
* The initial states are those an earlier run of the panel left at rest: users
  in any state, at most one row each, host in line.

### UserLifecycle, PanelLifecycle

`UserLifecycle` is what `internal/models` and the doc comments of the service
promise: each user has a status and, when active, a secret; operations take
effect at once or not at all, along `Ask`, `Grant`, `Refuse`, `Withdraw`,
`Forget`; a secret is never given twice.  Two concessions to the code are named:
`Waste` (an Issue that is undone has used up a secret) and `Strand` (a rollback
that breaks off leaves a row active without a profile).

`PanelLifecycle` is the refinement mapping.  Issue writes the row first and
applies it later; a row that an Issue under way has written is seen as it was
before (`prev`), until the apply succeeded, the row is rolled back, or its
handler is gone.  `KeepsLifecycle` is checked without overlap, with two failures,
cancellations or crashes.  With overlap it does not hold, as `stale_delete` and
`wedged` show.

### ApplyFiles

| code | actions |
|---|---|
| `writeCandidate` with its pruning | `NameCandidate`, `WriteCandidate`, `ListCandidates`, `PruneCandidate`, `ValidateCandidate` |
| `backupProfiles` with its pruning | `BackupProfiles`, `ListPanelBackups`, `PruneBackup`; where `profiles.json` is unreadable there is none (`isUnreadableProfiles`) |
| `apply-profiles.sh` 144-200, 309-367, 401-422 | `ReadCandidate`, `NameBackup`, `CopyBackup`, `ListBackups`, `RotateBackup`, `InstallLive`, `RestartAccepted`, `RestartRefused` with the restore |
| the clock | `ClockTicks`, `ClockSetBack` |

A name is the tuple of the parts it sorts by, so that the order of names is the
order of tuples: a candidate's is its time and `candidateSeq`; a backup of the panel
has seconds, nanoseconds and `backupSeq`, one of the script seconds and perhaps
`.n`.  `profiles.json.<s>.1.bak` sorts before `profiles.json.<s>.bak` although it is
the later one, which the comment at `apply-profiles.sh:337-339` overlooks; with
`BACKUP_KEEP=1` the second backup of a second is rotated away at once.
`SoloRejectionRestores` states that exception: the backup was not the first of its
second and more runs took theirs in that second than are kept.  HostApply says nothing
about names and lets a rotation remove any backup.

### ProfilesMerge

`MergePanelProfiles` (Go, run by the package's tests) and `ScriptMerge` (the
Python in `apply-profiles.sh`, run in production) as operators on sequences of
entries with backends and carrier modes.  `TakeCandidate` starts the script with one
of the lists `desiredProfiles` can write and `MergeAndInstall` merges it into the file,
again and again, so that copied fields could feed back.  While a candidate is there,
`MergesAgree` compares the two merges, and `SetMergeSound` the script's with the merge
of sets in HostApply.  Entries are chosen by rank (`Ranking`), and UserList sorts by
it: what a sort of Go, Python or SQLite returns, in a form that can be proved about.

### PanelProcess

One run of the process after the other; a press of a button goes from Telegram
to the poller's channel to its goroutine, through the statements of its handler
(`at`), and then through the calls that the bot makes for it (`todo`), one at a time,
each of which may be lost.

| code | actions |
|---|---|
| `run` in `main.go` | `StartUp`, `StartFails` (seeding of `auto_issue` in between), `Signal`, `PollerStops`, `ShutdownGivesUp`, `Exit`; `Killed` |
| `bot.go`, the loop | `Poll` (confirms what was fetched before), `Dispatch` |
| `handleGetProxy`, `service.Request` | `GetProxy`, `CreateAccount`, `RequestDecides`, `RequestReopens` |
| `service.Issue` | `IssueWrites`, then `IssueSucceeds` or `IssueBreaks` with the rollback (`RolledBack`) |
| the administrator's buttons | `NotTheAdmin`, `AdminApproves`, `AdminDenies`, `DenyWrites`; `Ignored` |
| a statement that fails | `LookupBreaks`, `CreateBreaks`, `DecideBreaks`, `ReopenBreaks`, `WriteBreaks` |
| sends | `Tell`, `SendFails`, `Finish` |
| the panel meanwhile | `WebBegins`, `WebEnds` with `WebDecides` (approve, deny, revoke, delete), `WebSets` |

Telegram keeps an update until a later poll confirms it: what was fetched last
before an exit is delivered again, what was confirmed and not handled is lost.

The bot's context is the one that the signal cancels, so a statement of a draining
process is not executed (`Executes`) but breaks; before that, breaking is a failure
that is counted.  A statement that breaks may have been executed all the same, since each
`UPDATE` and `INSERT` is followed by the `SELECT` that reads the row back.
`UpdateUserStatus` then returns no user, and `Request` dereferences it: the handler is
`panicked`, `handleUpdate` recovers, and neither an error message nor
`answerCallbackQuery` follows.  The same happens when the panel has deleted the row
between a press's `SELECT` and its `UPDATE`; `row` is the id that was read, or the one
that a button carries, and `RowThere` compares it with the user's present one.

Of Issue there are the row's status before and after the apply and the rollback, not
the profile and the script, which ProxyPanel has; a press of the panel's buttons is one
step.  `told` and `asked` are histories, of who was told to wait and about whose row
the administrator was asked.

### Login

`attempts` is the limiter's map with times as distances from now: `age` of the
window, `lock` left.  `Submit` is `Allow`, `LoginFails`/`LoginSucceeds` come after
bcrypt with `RecordFailure`/`RecordSuccess`, so that attempts of one address
overlap.  A cookie is its expiry and the secret that signed it; `Restart` forgets
the limiter and may change the secret.  `Open`, `FollowRoot`, `FollowLogin` are
`RequireSession` and the redirects.  `failed` is a history of failures with
their ages, which `LockIsEarned` compares with the count.

### UserList

`ListUsers` is the SQL that `store.go` builds (status filter, search, order), `List`
with the second sort of `sort.go`, `Count` the badge's query, `Write` what other
requests do between the two.  `FilterAndSort` and `FilterPending` of `filter.go` are
called by tests only and serve as the reference.  The two search differently, and both
are modelled on letters: `Like` is SQL's `LIKE '%q%'`, where `%` and `_` of the query
are wildcards and only ASCII letters have no case, `LowerContains` is `strings.ToLower`
and `strings.Contains`.  The reference also searches the status, which the SQL does not,
contrary to the comment at `filter.go:42-43`; of the status' word the model has the
first letter.  `PageMirrorsFilter` says where they agree: the page has what the
reference selects by one of the four columns, unless a capital that is not ASCII is
involved, and nothing else, unless the query has a wildcard.  The spaces around a query,
which the handler trims, are left out.  A time is its second and the digits of its
fraction, because SQL compares RFC 3339 texts without trailing zeros.  `overtaken` is a
history: another request wrote between the two queries, so that the badge need not fit
the page.

### ConfigLoad

`ReadPair`, `ReadComment`, `ReadEnds` are the lines of `loadDotEnv`, `CheckAll` is
`loadFromEnv`, `SyncHostname` `syncPublicHostname`.  `LoadBegins` starts the panel
by systemd, whose `EnvironmentFile=` has read the same file before, by hand, or
by hand with a variable exported.  A value is a sequence of pieces: words, of which
`bad` is one its check refuses, quotes and backslashes.  The two readers take them
apart differently.  `unquoteEnvValue` drops one pair of equal quotes around the whole
value and nothing else.  `FromSystemd`, an external definition (systemd's documented
reading of an environment file), is a scanner that goes on over lines: quotes count where
a part of a value begins, a backslash takes what follows literally and joins lines, and
an open quote swallows the lines after it.  `ReadsAlike` says for which values the two
come to the same.  Keys in `Exact` have checks that refuse a quote or a backslash (a
number, a port), the others take any text.  Left out: the escapes of `$` and of the
backtick between double quotes, a comment that ends in a backslash, spaces around a
value.

### Install

One action per step that writes something: Caddy's file (`Backup`, `Patch`,
`Validate`, `CopyPatched`, `RestartCaddy`, `RestoreCaddyfile`, `RestartAgain`),
binary, script and its env file, sudoers rule, `.env`, unit, start.  `StepFails`,
`InstallKilled` and `Reboot` come in between; a kill during `cp` leaves part of
a file.  A Caddyfile is the sequence of its lines, of the kinds the two awk
programs distinguish; `PatchMode` is the choice between a first patch, a
replacement of the managed block and a refusal.  `Pristine` is the shape of the
file tproxy-server installs; whatever a repeated run, a torn copy or an edit makes of
it is computed by the two programs as folds over the lines.

## 3. Runs

| run | question | bounds |
|---|---|---|
| `host` | an apply on the host: two overlapping script runs with a failure; names and pruning; the two merges | script: 2 slots, 2 users, 2 secrets, keep 1, 1 failure; files: 2 applies, keep 1 or 2, 2 ticks a second, 5 ticks, clock set back once; merge: files and candidates of up to 2 entries, 2 backends, 2 carrier modes |
| `console` | the process and the bot, logins, the user list, configuration, installer | see below |
| `race` | two racing handlers and a third, no failure: only committed profiles on the host, no row wedged (active without a profile), the next apply on its own converges | 2 slots, 1 user, 2 rows, 3 starts |
| `sequential` | handlers one at a time with failures: types, convergence, rollback, audit, and that the panel implements `UserLifecycle` | 1 slot, 2 users, 2 rows, 3 starts, 2 faults |
| `replies` | every handler answers, every script run ends; no file yet, no foreign profile, rotation off | 1 slot, 1 user, 2 rows, 2 starts, 2 faults |

The parts of `console`: 1 user who asks, with two presses racing each other and
the panel, or one press of any kind with two runs of the process, a failure and a lost
send, each from a new database, or one press of any kind and a failure from any state
an earlier run left (odd presses, which the first of these leaves out, are those of
another than the administrator, of an unknown button and on a message too old);
1 address, 2 tabs, `MaxAttempts` 2, window 1, cooldown 3, lifetime 2, 1 restart;
tables of up to 2 of 5 rows, and of 3 of three of them, that have equal names, equal
statuses, times in one second and letters that one search finds and the other does not,
4 queries and none, 1 write between the two SELECTs; 11 `.env` files (complete, wrong,
with a key twice, with a line that is none, with quotes and backslashes read alike and
not), 3 starts; 2 directories, 3 runs of the
installer, 2 mishaps, 1 edit of the Caddyfile.

Why the bounds suffice: every hazard listed is a conflict of two actors over one
row or one file, so two slots exhibit it; a third start is needed, and given,
where the question is what a *later* apply does.  Two rows for one user are
needed for delete-and-request-again.  Two faults are needed for "the rollback
fails too", one for everything else.  `BACKUP_KEEP = 1` is the harshest rotation
(one backup of all is left, or none), 0 is "off".  A limit of 2 with two tabs
is the smallest one that can be overshot; the cooldown is longer than the window,
as in the code.  Three runs of the installer are a first one, a failed one and a
repair.  Symmetry is used in safety runs of MCProxyPanel and MCHostApply only, and
permutes slots, users and the panel's secrets; none of them occurs in a
definition.  The script's part uses `HostSpec`'s steps, which accept any valid
candidate at any time; the panel's candidates are a subset of these.

**Violations, each a statement of the repository the code does not keep:**

* `stale_revoke` - `apply` reads the list and runs the script later without a
  lock.  Approve lists user 1 and 2; Revoke of 1 lists 2 and installs; Approve
  installs.  Revoke has returned success, the row is revoked, and the profile is
  back until the next apply.
* `wedged` - three handlers (3 slots, one user, no failure).  Request inserts a
  row; two Approves of it race, the first finds its secret overwritten and begins
  to roll back; Request now reads its new row, active and without a profile.  When
  its own Issue fails, because the first rollback made the row pending, *its*
  rollback restores "active" without a profile.  From then on `desiredProfiles`
  refuses every apply until somebody revokes that user.  Two handlers at a time
  cannot do this, which `race` shows: it takes one to read while another is
  between two statements and a third that started it.
* `nil_user` - `Request` assigns `u, err = UpdateUserStatus(...)` and formats
  `u.ID` on error, where `u` is nil.  The bot's `recover` logs the panic and the
  user gets no reply; `reportError` is never reached.
* `unhealthy` - the rollback after a failed health check cannot succeed (above),
  so the profile stays in `profiles.json` while the database says it was undone.
* `stale_delete` - Delete finds a row revoked; an Approve makes it active before
  the DELETE, which is by id only.  An active user is gone, and the profile is on
  its way to the host.
* `waiting` - a request that fails after its row was inserted leaves the row pending:
  the read-back or the query of `auto_issue` fails, or an automatic Issue is rolled
  back.  The user gets an error, and the administrator is asked by nobody.  Who presses
  again, as the message advises, is told that the request is under review.
* `host_unchanged` - the secrets file is replaced before MTProxy is restarted.
  If that restart fails and the old process goes on, the next apply compares equal,
  skips the restart, and reports success while MTProxy accepts the old secrets.  (Where
  the failed restart leaves no process, `PortsStep` refuses the next apply instead.)

Of the same kind and kept out of the runs: `Deny` can deny a row that became active
meanwhile, Request can reopen one, and an audit entry can be written for a deleted
user.  That no single handler does any of this is part of `KeepsLifecycle` and
`AuditRefersToUsers` in `sequential`: the cause is the overlap.  A Revoke whose apply
fails is committed all the same and cannot be retried, although its message says
"Повторите попытку" (`users.go:244`): `Revoke` then finds a row that is not active.
`SoloApplyConverges` shows that the next apply for anybody repairs it.

## 4. Fairness and liveness

`HostFairness` and `Fairness` are weak fairness of each slot's own steps: the
kernel runs a process, and the Go scheduler a goroutine, that can go on.  Nothing
is assumed of users, of failures or of the toggle.  Commands of the script do
finish (each is local and bounded; the port wait and the health poll have
attempt limits).  `ScriptEnds` then says that no step waits for another run -
there is no lock to wait for - and ends also where the live file has no secret;
`HandlersReply` that an answer comes after cancellation, failure and crash.  The
runs for liveness use no symmetry.

`ProcessFairness`: the panel is started again, by systemd after a failure
(`Restart=on-failure`) and by the operator after a clean exit; the poller polls and stops when told, goroutines run, and ten seconds pass
(`shutdownTimeout`).  HTTP requests need not end, which is what the timeout is for.
`PressTaken` then says that a press is handled in the end, be it in a panic, or was
confirmed to Telegram and lost in an exit; a shutdown that waits for ever would violate it.
`LoginFairness`: time passes, bcrypt ends, browsers follow redirects.  `LockEnds`
says that a client that is locked and keeps trying is let in again: a locked
client's attempts are not counted, so that they cannot extend the lock.  The other
parts have safety properties only.

CHECK_DEADLOCK is on everywhere: the panel can always take the toggle's step, a
host can always start a script, and where a part of a run is at its bounds the MC
module says so with a step of its own (`FilesOver`, `InstallOver`).

## 5. Proofs

### The script

`HostApplyProofs` proves, for every set of slots, users and secrets, every
`BACKUP_KEEP` and any number of failures, from `ProfileAssumption` (panel and
foreign names are disjoint; the foreign profiles found at installation are
valid; None is no file and no set of secrets) and `HostAssumption`:

| theorem | statement |
|---|---|
| `HostTypeCorrect` | `HostSpec => []HostTypeOK` |
| `ForeignKept` | `HostSpec => []ForeignPreserved` |
| `LiveValid` | `HostSpec => []LiveFileValid` |
| `ServicesCurrent` | `HostSpec => []QuiescentServicesCurrent` |
| `HostInvariant` | `HostSpec => [](HostTypeOK /\ HostInv)`, which they rest on |

None of the last three is inductive.  A run installs what it merged earlier, and
restores what it backed up earlier, when the live file may be another one; so
`RunInv` says of every run that its merged file and its backup have the foreign
profiles and no duplicates, and (for the next part) that the merged file contains
its candidate.  `LiveFileValid` needs the former because a restore puts an old
file back under a newer run.  `ServicesCurrent` needs to know why a service that
does not run what is on disk will: `TproxyInv` says some run is about to restart
tproxy-server, or about to verify *and certain to pass* - its candidate's names are
in the live file, for whoever installed last cannot fail the MISSING check,
since nothing else has changed the file.  An earlier run may fail it; then the
later one is the witness.  `MtproxyInv` is the same for MTProxy.  Failures break
this argument, so it is stated for `faults = 0`, where no run reaches `restore`.

The proofs go through lemmas about one run's step (`ScriptKeepsTypes`,
`ScriptKeepsFiles`, `ScriptKeepsServices`, `ScriptKeepsSolo`), stated without the
specification, so that they can serve for any specification in which these steps
occur; each has one step per action.  `OtherRuns` says a step of one run changes
another only by rotating its backup away.

Two properties are about a run that overlapped no other, whatever came before it:

| theorem | statement |
|---|---|
| `SoloSuccess` | `HostSpec => []SoloSuccessMatches` |
| `RejectionRestores` | `HostSpec => []RejectedRestartRestores` |
| `SoloInvariant` | `HostSpec => []SoloInv`, which they rest on |

`SoloInv` says at each step of such a run what it has found and done: that no
other run is under way, that `base` is still the live file until the install, that
the merged file is exactly the foreign profiles and the candidate, that the backup
is `base` or has been rotated away, that MTProxy is up once its port was looked at, and
after each step that writes, what the live file, the process and the secrets file are.
It needs `HostInv` for the foreign profiles of the live file, whoever wrote it last.

Both statements have a limit that is the code's.  A rejected restart puts the old file
back *if the run still has its backup*; when it has one is a question of names, which
`SoloRejectionRestores` answers (below).  A success has the live file, tproxy-server
and the secrets file in line and MTProxy up, and says nothing of the secrets that MTProxy
was started with: `host_unchanged` is the counterexample.

### The panel

`ProxyPanelProofs` proves, for every number of slots, rows, users, secrets,
handlers started and failures, from the same assumptions and
`StoreAssumption`, `PanelAssumption`:

| theorem | statement |
|---|---|
| `PanelTypeCorrect` | `Spec => []TypeOK` |
| `PanelOnlyIssued` | `Spec => []OnlyIssuedOnHost` |
| `PanelForeignKept` | `Spec => []ForeignPreserved` |
| `PanelLiveValid` | `Spec => []LiveFileValid` |
| `PanelInvariant` | `Spec => []PanelInv`, which they rest on |

A step of the panel is a statement of the store (`StoreStatement`), a move of the
handlers and a move on the host (`HostMove`); `NextMoves` shows that once, action
by action.  Each of the three is then shown to keep its part of `PanelInv`:
`StatementKeepsStore` the tables, `MoveKeepsHandlers` the handlers,
`HostMoveKeepsInv` the script's invariant (its lemmas serve unchanged; a crash
clears all runs and keeps the files), `HostMoveKeepsIssued` what is on the host.

`OnlyIssuedOnHost` is about the files and services only and not inductive: what
reaches them was merged, backed up or collected earlier by a run, whose candidate
was listed earlier by a handler, from rows written earlier.  `RowsIssued`,
`HandlerInv` and `RunIssued` say of each of these places that it holds only what
was issued, and `issued` never shrinks.  That a listed row has a secret at all
comes from `desiredProfiles` refusing a list with an active row without one:
without this check, the mutant `ListsUnchecked` shows, a rollback in progress
would put a profile without a secret on the host.  The type of `handler[w].tg`
when `CreateUser` is called is not in `TypeOK` either: `HandlerInv` adds that a
serving handler has a user.

`PanelRowsApart` adds `Spec => []RowsApart`: ids are used once, a user has at most
one row, and no secret is in two rows or in a row and a foreign profile.  It is what
lets the theorems below treat the list of active rows as a set of profiles that no
check can find a duplicate in.

### A handler on its own

The second part of `ProxyPanelProofs` proves, from the same assumptions and with any
number of slots, for a handler that overlaps no other (`alone`, a history variable),
after any history of races, failures, cancellations and crashes (`SoloApplyConverges`
has the limit of `SoloSuccess`, the secrets that MTProxy was started with):

| theorem | statement |
|---|---|
| `SoloApply` | `Spec => []SoloApplyConverges` |
| `SoloRollback` | `Spec => []SoloRollbackRestores` |
| `SoloPanelInvariant` | `Spec => []SoloPanel`, which they rest on |

`SoloPanel` joins the script's `SoloInv` with what such a handler knows: its list
`cand` is still the database's list of active users, the run it started has exactly
this candidate and is alone too, and between the statements of a rollback the row is
as the statements so far made it.  That a run of the script exists only while its
handler waits for it (`SlotInv`) ties one kind of being alone to the other: a
handler that starts while nobody is under way starts its script on a host at rest.

### One handler at a time

`PanelLifecycleProofs` assumes that handlers do not overlap, which is what
`Slot = {w}` says.  The assumption is stated in each theorem and cannot be dropped:
`stale_revoke`, `stale_delete` and `wedged` are counterexamples with more slots.
Rows, users, secrets, handlers, failures, cancellations and crashes are unbounded.

| theorem | statement |
|---|---|
| `SequentialAuditRefs` | `Spec => []AuditRefersToUsers` |
| `SequentialHostMatches` | `Spec => []HostMatchesAtRest` |
| `SequentialKeepsLifecycle` | `Spec => KeepsLifecycle`, the refinement |
| `SequentialInvariant` | `Spec => []SequentialInv(w)`, which they rest on |
| `FaultlessInvariant` | `Spec => []NoFaultInv(w)`, for `SequentialHostMatches` |

`SequentialInv` says of each step of each operation that the row is as the handler
left it: it exists, its status is the one read or written, and it has a secret only
where one was written (`Follows`); and of all rows that a secret is with active rows
only, and that every audit entry has its row.  `NoFaultInv` adds, for `faults = 0`,
that no row is active without a profile, that nothing is rolled back, and that the
host is in line with the rows except between a statement and the end of the apply
that follows it: the list fits, because of `RowsApart`, so the script gets as far as
the file and the services.  It may still exit with an error, and only then, after a
revocation that leaves MTProxy without a secret.

The refinement goes through what `PanelLifecycle` shows of a row: `RowView` and
`NoRowView` compute `StatusOf` and `SecretOf` from the one row a user has,
`DrawnView` the secrets given so far.  Then every action is a step or a stutter:
a statement of an Issue stutters, and its last step is `Grant`, or `Waste`, or
`Strand` (`IssueEnds`); `StatusMoves` handles the statements of the others.

### Two racing handlers

With two slots (`TwoSlots`) and any number of rows, users and handlers started,
`PanelLifecycleProofs` also proves:

| theorem | statement |
|---|---|
| `RacingHandlersWedgeNoRow` | `Spec => []NoWedgedRow` |
| `RaceInvariant` | `Spec => []RaceInv`, which it rests on |

`RaceInv` speaks of `faults = 0`, since a failed rollback is a known way to wedge a
row, and joins three things.  A handler that will put a row back to "active" carries
the profile it read with it (`Carries`).  It works on the row it read or on one that is
gone, but on nobody else's, because ids are not reused (`OwnRow`).  The third is what
`wedged` takes away: a handler that has inserted a row and not read it back may read
"active" of it without a secret if another is rolling it back.  `Spares` says the other
is not.  With two slots nobody else is there to make it: its list is
the database's list, so the check of the list passes, and its run of the script is
alone, so by `SoloInv` it is not refused.  With three handlers this is false, so the
hypothesis cannot be dropped, and the run `wedged` is the counterexample.

### The files of an apply

`ApplyFilesProofs` proves, for any number of applies that overlap as they like, every
`BACKUP_KEEP`, any rate and length of the clock and any number of times it is set back,
from `FilesAssumption`:

| theorem | statement |
|---|---|
| `FilesTypes` | `FilesSpec => []FilesTypeOK` |
| `LossTakesOverlap` | `FilesSpec => []LossNeedsOverlap` |
| `RotationBounds` | `FilesSpec => []BackupsBounded` |
| `BackupsKept` | `FilesSpec => BackupsKeepContent` |
| `RejectionPutsBack` | `FilesSpec => SoloRejectionRestores` |
| `FilesInvariant`, `AloneInvariant`, `BackupInvariant` | `[]FilesInv`, `[]AloneInv`, `[]BackupInv`, which they rest on |

Names come first.  The names of one kind are totally ordered although they have unequal
lengths (`CandidatesOrdered`, `BackupsOrdered`), so how many sort before a name is a
bijection with the first numbers (`NthName`): pruning takes each name it listed once and
leaves as many as are kept, the last ones (`OldestNames`, `OldestLeaveKeep`).

`FilesInv` says numbers are taken in turn and each name there carries one that
has been taken; `AloneInv` that an apply that is alone has the directories to itself.
`BackupsBounded` is not inductive while somebody rotates: `BoundedInv` counts
what no rotation under way is about to remove, and says either some apply
owes a rotation or these are few enough.  `LossNeedsOverlap` needs the order of
names to be the order of time, while the clock goes on: `CandidateInv` says that an
apply that is alone has the last name when it lists the directory, so its own
candidate is not on its list.  `BackupInv` says the same of its backup, with the
exception of backups taken in the same second, which it counts.

### The merges and the user list

`ListProofs` proves, for files and candidates of any length, from `MergeAssumption`, and
for tables and requests of any kind, from `ListAssumption`:

| theorem | statement |
|---|---|
| `SetMergeIsSound` | `MergeSpec => []SetMergeSound` |
| `MergesAreOne` | `MergeSpec => []MergesAgree` |
| `LastMergeDecides` | `MergeSpec => LastMergeWins` |
| `MergeInvariant` | `MergeSpec => []MergeInv`, which they rest on |
| `PageIsTheFilter` | `ListSpec => []PageMirrorsFilter` |
| `PageIsSorted` | `ListSpec => []PageSorted` |
| `ListTypes` | `ListSpec => []ListTypeOK` |
| `ListInvariant` | `ListSpec => []ListInv`, which they rest on |

The merges: `AddAll` shows, by induction over the list, that Go's loop of
`AddProfile` is concatenation when nothing is repeated and an error otherwise, which
is what the script's check after the fact comes to.  With this `MergesAgree` is left
with the fields that are copied, and `SetMergeSound` with names and secrets, where
concatenation becomes union and a repeated name or secret one that the set has
twice.  `SetMergeSound` makes what is proved of HostApply a statement about the
lists.  `LastMergeWins` needs that a merge keeps the foreign entries, in their order
(`ForeignEntries`, `ForeignFirst`), since the template is the first of them.

The list: `RankedSorts` shows that ranking a finite set by a strict total order
lists each element once and in that order.  It is used for SQL's order, a key and
then the id, and for the stable sort by name, a key and then the place, so the keys
have to be ordered well (`KeysSort`).  SQL compares times as texts, and a text may
be the beginning of another one, which nothing would order; but each time ends in
`Z`, which is in no other place of it (`FormattedTimes`), so that two of them are
equal or differ somewhere (`TextsDiffer`).  `OrdersAgree` says that what `sortUsers`
orders, SQL orders the same way, but for times within one second, where SQL compares
the digits of one fraction with the `Z` of another, and rows of equal status, which
one orders by Telegram id and the other by id.  `ListInv` then says the page lists
each row that matches once and in order, and that the badge counts the same table if
it was not `overtaken`.

The searches: a substring is found by `LIKE` with `%q%` whatever `q` is, since a letter
always matches itself (`ContainedIsLike`), and without wildcards in `q` the pattern finds
nothing else, since the position where its first `%` ends is where `q` begins
(`LikeIsContained`).  Lower case is the same on both sides for letters that `FoldsAlike`
names, and what `LIKE` folds `strings.ToLower` does too (`LettersFold`), so each
inclusion of `PageMirrorsFilter` needs one exception only.

### The process and its bot

`PanelProcessProofs` proves, for any set of users and presses and any budgets, from
`ProcessAssumption`:

| theorem | statement |
|---|---|
| `ProcessTypes` | `ProcessSpec => []ProcessTypeOK` |
| `PressesAnsweredOnce` | `ProcessSpec => []AnsweredOnce` |
| `PanelChoiceKept` | `ProcessSpec => ChoiceKept` |
| `PendingReachesAdmin` | `ProcessSpec => []PendingIsAnnounced` |
| `ProcessInvariant`, `AnnouncedInvariant` | `[]ProcessInv`, `[]Announced`, which they rest on |

`ProcessInv` says of each press what is still to be said for it (`PressOK`): while its
handler runs no answer has been given; the calls that are left then end in the answer
and hold no other, and the answers given and those left are the number that is due.  A
decision whose message Telegram no longer has (`old`) is due none: the bot returns
without a word.  A press that `panicked` was given none, and `PanicExcused` says why it
could: it was the "get" of a user whose row was revoked or denied when it was read (`Allowed`),
and that row is gone, or a statement failed, or the process got the signal.
`AnsweredOnce` states this as its exception.  `RowKnown` says that the row of a press is
one that its user has had, so that an id, once gone, does not come back.

`Announced` says, while nothing failed and the panel was started once (`Uneventful`),
that every pending user has been put to the administrator with a button about the present
row, or some press about that row is on its way to do so: it speaks of *some* press
because the one that made the row pending need not be the one that asks.

### The login

`LoginProofs` proves, for every set of addresses, every finite set of tabs, every
limit, window and cooldown with `Cooldown > Window`, and any number of restarts,
from `LoginAssumption`:

| theorem | statement |
|---|---|
| `LoginTypes` | `LoginSpec => []LoginTypeOK` |
| `OvershootIsBounded` | `LoginSpec => []OvershootBounded` |
| `LocksAreEarned` | `LoginSpec => LockIsEarned` |
| `LocksLast` | `LoginSpec => LockHolds` |

The count alone is not inductive: an attempt that was admitted is counted later,
and more may be admitted meanwhile.  `Counted` says that while a window with a full
count lasts the key is locked, and so nobody is admitted, and that the count
together with the attempts still being checked stays below the bound; a lock
outlives the window because `Cooldown > Window`.  `LocksAreEarned` is an action
property and needs to know that what is counted has happened: `Remembered` says
that each of the counted failures, up to the limit, is in the history, no older
than the window.  `LoginInv` joins both with the types; there is one step per
action of the browser, the clock and the restart.

### The start and the installer

`DeployProofs` proves, for any keys, values and `.env` files, from `ConfigAssumption`:

| theorem | statement |
|---|---|
| `EnvironmentOverrides` | `ConfigSpec => []EnvironmentWins` |
| `ReadersAgree` | `ConfigSpec => []SameEitherWay` |
| `ConfigTyped` | `ConfigSpec => []ConfigTypeOK` |
| `ConfigInvariant` | `ConfigSpec => []ConfigInv`, which they rest on |

`ConfigInv` is the invariant of the loop of `loadDotEnv`: a variable that is set is
never overwritten, so of the lines read so far the first with a key counts, while
systemd has taken the last; without repeated keys the two are one line.  That this line
has the same value for both is shown of systemd's scanner piece by piece (`PieceRun`,
over what is read of a value so far) and of a whole value (`AlikeRead`: a value that
`ReadsAlike` is read as `unquoteEnvValue` reads it and leaves nothing open), then line
by line (`LineRun`, `FileRun`, `SystemdReads`: no line of such a file swallows the next).

For any directories, tokens, Caddyfiles and number of runs, failures, kills and
edits, from `InstallAssumption` and, for the Caddyfile, `SitesAssumption`:

| theorem | statement |
|---|---|
| `InstallKeepsCaddyfile` | `InstallSpec => []CaddyfileKept` |
| `KeptInvariant` | `InstallSpec => []KeptInv`, which it rests on |
| `InstallAgrees` | `InstallSpec => []InstalledAgrees` |
| `InstallKeepsCaddyUp` | `InstallSpec => []CaddyStaysUp` |
| `InstallTyped` | `InstallSpec => []InstallTypeOK` |
| `InstallInvariant` | `InstallSpec => []InstallInv`, which they rest on |

`InstallInv` says what each step has left for the next: from the patch on the file
that is validated, copied and served carries this run's route, the files written so
far name this run's directory and token, a run that succeeded leaves all of them in
line until the next one, and Caddy is down only through a mishap that is counted.
The route in the patched file is what the two awk programs write, a fold over lines.
The library's induction theorems cannot be used here (they take an operator as a
parameter), so the induction is done by hand: every set of numbers that is not empty
has a least one (`HasLeast`, from the library's theorem that strict inclusion of
finite sets is well-founded, which is stated without such a parameter), hence a
property of prefixes that survives each line holds of the whole (`PrefixInduction`).
`FoldExists` shows by the same induction that
the function exists which the definition of the community modules' fold chooses.  These
lemmas are in ListProofs, which needs them for its loops and sorts;
`UpdateCarries` and `FreshCarries` are then the loop invariants of the awk programs.

`KeptInv` is about the Caddyfile.  As others leave it (`kept`) the file is either
`Pristine`, of tproxy-server's shape and without the panel's markers, or `Spoilt`: a
copy was cut while the patched site was open, or the end marker is gone.  The file in
use, each backup and each file that passed `caddy validate` is `kept` or a single
patch of a Pristine `kept`.  The argument has four parts.  The first patch puts the
block between two pieces that do not depend on the token (`FreshShape`, a loop
invariant over the depth of braces), so the second replaces it by what the first
would have written (`UpdateOfPatched`).  A patched file that is cut off is Pristine
again when the cut is before the begin marker, and Spoilt after it (`TornPatch`).  A
Spoilt file is patched to one whose braces do not match (`SpoiltStays`), so the run
ends at `caddy validate`; that is why the invariant says at "validate" that the file is
a patch of `kept` or not valid.  A line before the file stays before the patched one
(`FreshPrepends`), which keeps the two in step over an edit.

### The assumptions

All are ASSUMEs of the modules, which TLC evaluates in the runs.

| name | says |
|---|---|
| `ProfileAssumption` | panel and foreign names are disjoint, foreign profiles are valid, None is no secret, no set of secrets and no file |
| `StoreAssumption`, `PanelAssumption`, `HostAssumption` | bounds are natural numbers, there is room for a row, None is no row |
| `FilesAssumption` | applies are finitely many positive numbers, keeps and bounds natural numbers, a second has at least one tick and the clock reaches one |
| `MergeAssumption` | the panel's backend and carrier mode are among them; None is no backend, carrier mode or list of entries |
| `ListAssumption` | a table is a finite set of rows with distinct ids and Telegram ids; queries are sequences of letters |
| `ProcessAssumption` | the administrator is not among those who ask; bounds are natural numbers |
| `LoginAssumption` | limit and lifetime are positive, `Cooldown > Window`, tabs are finitely many, Absent is no record of attempts |
| `ConfigAssumption` | some key is required, none is both required and optional, keys with an exact check are keys, Unset is no value, `.env` is a sequence of lines |
| `InstallAssumption` | a Caddyfile is a sequence of lines; Nothing is no Caddyfile, token or `.env`; bounds are natural numbers |
| `SitesAssumption` | the Caddyfiles others put in place have no marker of the panel, and their reverse_proxy, if any, is one and in the last block of the file |

`SitesAssumption` is the shape of `docs/reference/tproxy-server-Caddyfile`, and it is
needed: where other sites follow tproxy-server's in the file, a `cp` that is cut
between two of them leaves a file whose braces match and which has the panel's block,
and the next run accepts that file, without the sites that were cut off, as its own.

That a marker is outside the set it marks the absence from is what nil, NULL, a
missing key and a missing file are in the code.

### Only model-checked

* The conjunctions of types in `MCHost` and `MCConsole`; the types in them, of
  HostApply, ApplyFiles, Login, PanelProcess, UserList, ConfigLoad and Install, are
  proved one by one, and those of ProfilesMerge are in `MergeInv`.
* Liveness: `HandlersReply`, `ScriptEnds`, `PressTaken` and `LockEnds` need fairness
  and ENABLED, which the prover does not handle.

## 6. Not modelled, and why

* Contents of messages, pages, QR codes and logs, display names beyond their order,
  the list of backups in the settings, `/start`: no state depends on them.
* File ownership and modes, the ports of the installer; the hardening in the unit.
* `RemoveProfile`, `WriteProfiles` and `ListAuditLog`, which nothing in production
  calls.  `MergePanelProfiles`, `FilterAndSort` and `FilterPending` are called by
  tests only and modelled as references.  `latestBackup`: the script refuses its
  result (run `unhealthy`).
* The pattern `^user_\d+$` in Python accepts other digits and a final newline,
  the one in Go does not; names come from `telegram_id` and have neither.
* The attempts of the health check one by one: it passes or it does not.
* MTProxy's unit and env file: the unit is taken to exist; the env file's secret
  appears only in the initial state.  Crashes of MTProxy or tproxy-server that no run
  of the script caused; a host without `ss`, where the script cannot see a port.
* Listed as hazards with a note and not covered by a property: the order of two rows
  with times in one second (`PageSorted` exempts it), an audit entry for a user deleted
  meanwhile (`AuditRefersToUsers` is for one handler at a time), a failed login that was
  admitted before a lock and removes it (`LockHolds` exempts it), the store that is
  closed under a request after the shutdown's ten seconds.
* In the installer: prompts, detection of ports and paths, accounts, the MTProxy
  wrapper, two installers at once, edits while one runs.
* `-hash-password`.
* A panel whose listener failed (`main.go:155`) while the process stays up, and
  links that were sent for a profile that a rollback takes back
  (`request.go:41`): listed as hazards, without a property.

## 7. Plan

Order: what decides who has access first, then what the panel promises as a
whole, then the smaller state machines.

1. *Done*: the script, the store, the service and the applier; the refinement of
   `UserLifecycle`; files, merges, process, bot, login, list, configuration,
   installer; the safety invariants of the script, the panel and the limiter
   proved.
2. *Done*: what a run or a handler on its own achieves; for handlers that do not
   overlap, the host at rest, the audit log and the step of the refinement; the
   process and its bot, the start and the installer.
3. *Done*: two handlers that race; the files of an apply, the merges, the user
   list and the Caddyfile.
4. `ProxyAccess`: the abstract promise of the host, "the set of secrets accepted is
   that of some committed list"; HostApply implements it when runs do not overlap.
5. The health check's attempts against a service that another apply restarts, and
   a listener that fails, if they can be given properties worth checking.
