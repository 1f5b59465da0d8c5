------------------------------- MODULE MCConsole -------------------------------
(***************************************************************************)
(* The models of the panel around its service checked in one run: the      *)
(* process and its bot, the login, the user list, the configuration and    *)
(* the installer.  They share no variable; a behaviour is one of part's,   *)
(* the other four stand still, in states that no fairness asks to leave.   *)
(***************************************************************************)
EXTENDS PanelProcess, Login, UserList, ConfigLoad, Install

CONSTANTS bot, login_form, user_list, env_file, installer

VARIABLE part

\* One press about a row that an earlier run left.
MCEarlier == [presses |-> 1, odd |-> TRUE, runs |-> 1, failures |-> 1, sends |-> 0]

\* Two presses race each other and the panel, or one meets a failure, a restart
\* and a lost send.
MCBudgets ==
  {[presses |-> 2, odd |-> FALSE, runs |-> 1, failures |-> 0, sends |-> 0],
   [presses |-> 1, odd |-> TRUE, runs |-> 2, failures |-> 1, sends |-> 1], MCEarlier}

\* The second press comes after an Issue that failed.
MCFailure ==
  {[presses |-> 2, odd |-> FALSE, runs |-> 1, failures |-> 1, sends |-> 0]}

At(sec, frac) == [sec |-> sec, frac |-> frac]

\* Rows with equal names and equal statuses, with and without a username, with
\* times in one second, and with what one search finds and the other does not.
MCRow(id, tg, username, name, status, requested, issued, text) ==
  [id |-> id, telegram_id |-> tg, username |-> username, name |-> name,
   status |-> status, requested_at |-> requested, issued_at |-> issued,
   text |-> [c \in Searched |-> IF c \in DOMAIN text THEN text[c] ELSE <<>>]]

MCRows ==
  {MCRow(1, 7, 0, 2, "pending", At(1, <<>>), Null, [first_name |-> <<"YA">>]),
   MCRow(2, 5, 2, 1, "active", At(1, <<5>>), At(2, <<>>),
         [username |-> <<"d", "_">>, first_name |-> <<"A", "1">>]),
   MCRow(3, 6, 1, 2, "pending", At(1, <<1, 2>>), Null, [username |-> <<"p">>]),
   MCRow(4, 4, 3, 1, "denied", At(2, <<>>), Null,
         [telegram_id |-> <<"1">>, username |-> <<"d", "a">>, last_name |-> <<"ya">>]),
   MCRow(5, 8, 0, 3, "active", At(1, <<1>>), At(2, <<1>>), [last_name |-> <<"ya">>])}

MCQueries == {<<"p">>, <<"d", "_">>, <<"ya">>, <<"A", "1">>}

MCTables ==
  {t \in SUBSET MCRows : Cardinality(t) <= 2}
    \cup {t \in SUBSET MCRows : Cardinality(t) = 3 /\ \A r \in t : r.id \notin {2, 4}}

MCLater == At(4, <<>>)

Pair(k, v) == [kind |-> "pair", key |-> k, value |-> v]

Comment == [kind |-> "comment", key |-> "port", value |-> <<>>]

Junk == [kind |-> "junk", key |-> "port", value |-> <<>>]

\* Complete ones, ones with errors, a key given twice, a line that is none; quotes
\* that both readers drop or keep, and what systemd reads differently: a backslash,
\* quotes inside and values that go on in the next line.
MCFiles ==
  {<<Pair("port", <<"good">>), Pair("token", <<"good">>), Comment,
     Pair("log", <<"better">>)>>,
   <<Pair("port", <<"good">>), Pair("token", <<"bad">>), Pair("log", <<"better">>)>>,
   <<Pair("port", <<"bad">>), Pair("token", <<"good">>), Pair("port", <<"good">>)>>,
   <<Pair("token", <<"good">>), Pair("port", <<"better">>), Pair("token", <<"better">>)>>,
   <<Pair("port", <<>>), Pair("log", <<"bad">>)>>,
   <<Comment, Pair("token", <<"good">>), Junk, Pair("port", <<"good">>)>>,
   <<Pair("log", <<"dq", "dq">>), Pair("port", <<"dq", "good", "dq">>),
     Pair("token", <<"sq", "good", "dq", "bs", "sq">>)>>,
   <<Pair("port", <<"good">>), Pair("token", <<"good", "bs", "better">>),
     Pair("log", <<"good", "dq">>)>>,
   <<Pair("token", <<"dq", "good", "bs", "better", "dq", "good">>),
     Pair("port", <<"good", "bs">>)>>,
   <<Pair("port", <<"good">>), Pair("token", <<"dq", "good">>),
     Pair("log", <<"better", "dq">>)>>,
   <<Pair("port", <<"good">>), Pair("token", <<"good", "bs">>), Comment,
     Pair("log", <<"better">>)>>}

\* docs/reference/tproxy-server-Caddyfile: global options, then a site with one
\* reverse_proxy and handle_errors.
MCSites ==
  {<<L("open"), L("text"), L("close"), L("open"), L("text"),
     L("proxy"), L("open"), L("text"), L("close"), L("close"),
     L("errors"), L("text"), L("close"), L("close")>>}

------------------------------------------------------------------------------
ProcessStill ==
  /\ process = "up" /\ poller = "polling" /\ web = "idle" /\ gaveUp = FALSE
  /\ setting = "on" /\ choice = "unset" /\ account = [u \in Asker |-> "none"]
  /\ rows = [u \in Asker |-> 0]
  /\ press = [i \in Press |-> NotPressed]
  /\ told = {} /\ asked = {}
  /\ budget = (CHOOSE b \in Budgets : TRUE)
  /\ used = [runs |-> 0, failures |-> 0, sends |-> 0]

LoginStill ==
  LET k == CHOOSE c \in Client : TRUE
  IN tab = [t \in Tab |-> [at |-> "rest", client |-> k]] /\ LoginInit

ListStill ==
  /\ table = {} /\ request = NoRequest /\ page = <<>> /\ badge = 0
  /\ listAt = "idle" /\ listed = {} /\ overtaken = FALSE /\ writes = 0

ConfigStill ==
  /\ dotenv = <<>> /\ hostname = ""
  /\ startedBy = "shell" /\ environ = NothingSet /\ exported = NothingSet
  /\ lineNo = 1 /\ loading = "stopped" /\ settings = Unset
  /\ loaded = [w \in Ways |-> Unset] /\ loads = 0

InstallStill ==
  /\ caddyfile = <<>> /\ caddy = <<>> /\ kept = <<>>
  /\ applyEnv = Nothing /\ grant = Nothing /\ unit = Nothing /\ enabled = FALSE
  /\ dotenvs = [d \in Dir |-> Nothing] /\ panel = Nothing
  /\ install = NoInstall /\ outcome = "none"
  /\ installs = 0 /\ mishaps = 0 /\ edits = 0

MCInit ==
  \/ /\ part = bot /\ ProcessInit
     /\ setting # "unset" => budget = MCEarlier
     /\ LoginStill /\ ListStill /\ ConfigStill /\ InstallStill
  \/ /\ part = login_form /\ LoginInit
     /\ ProcessStill /\ ListStill /\ ConfigStill /\ InstallStill
  \/ /\ part = user_list /\ ListInit
     /\ ProcessStill /\ LoginStill /\ ConfigStill /\ InstallStill
  \/ /\ part = env_file /\ ConfigInit
     /\ ProcessStill /\ LoginStill /\ ListStill /\ InstallStill
  \/ /\ part = installer /\ InstallInit
     /\ ProcessStill /\ LoginStill /\ ListStill /\ ConfigStill

\* The installer at its bounds has nothing left to do.
InstallOver ==
  /\ install.at = "none"
  /\ installs = MaxInstalls /\ mishaps = MaxFaults /\ edits = MaxEdits
  /\ UNCHANGED installVars

MCNext ==
  \/ /\ part = bot /\ ProcessNext
     /\ UNCHANGED <<part, loginVars, listVars, configVars, installVars>>
  \/ /\ part = login_form /\ LoginNext
     /\ UNCHANGED <<part, processVars, listVars, configVars, installVars>>
  \/ /\ part = user_list /\ ListNext
     /\ UNCHANGED <<part, processVars, loginVars, configVars, installVars>>
  \/ /\ part = env_file /\ ConfigNext
     /\ UNCHANGED <<part, processVars, loginVars, listVars, installVars>>
  \/ /\ part = installer /\ (InstallNext \/ InstallOver)
     /\ UNCHANGED <<part, processVars, loginVars, listVars, configVars>>

MCVars == <<part, processVars, loginVars, listVars, configVars, installVars>>

MCSpec == MCInit /\ [][MCNext]_MCVars /\ ProcessFairness /\ LoginFairness

\* Every variable of the five parts keeps to the values the code can give it.
TypesOK ==
  ProcessTypeOK /\ LoginTypeOK /\ ListTypeOK /\ ConfigTypeOK /\ InstallTypeOK
==============================================================================
