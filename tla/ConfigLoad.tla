------------------------------ MODULE ConfigLoad ------------------------------
(***************************************************************************)
(* internal/config: how a start of the panel gets its settings out of the  *)
(* environment, the .env file and tproxy-server's config.json.             *)
(*                                                                         *)
(* systemd reads the same .env (EnvironmentFile=) before the panel does,   *)
(* so a start by hand and a start by systemd take different ways to what   *)
(* should be the same configuration.                                       *)
(***************************************************************************)
EXTENDS Naturals, Sequences, SequencesExt

CONSTANTS
  Required, Optional,  \* keys; an optional one has a default
  Exact,               \* keys whose check refuses quotes and backslashes
  Files,               \* the .env files an administrator writes
  MaxLoads,            \* bound: starts in one behaviour
  Unset                \* a variable that is not in the environment

Key == Required \cup Optional

\* "bad": what every key's check refuses; "dq", "sq", "bs": quotes, double and single,
\* and a backslash.  The spaces around a value, which both readers drop, are left out.
Word == {"good", "better", "bad"}

Mark == {"dq", "sq", "bs"}

\* In a value that goes on in the next line there may also be the line's end and
\* what is there: a key and its "=", or a whole line.
Piece == Word \cup Mark \cup {"nl", "name", "line"}

Value == Seq(Piece)

\* "junk": no KEY=VALUE, or no key.
Line == [kind : {"pair", "comment", "junk"}, key : Key, value : Seq(Word \cup Mark)]

ASSUME ConfigAssumption ==
  /\ Required # {} /\ Required \cap Optional = {} /\ Exact \subseteq Key /\ Unset \notin Value
  /\ Files \subseteq Seq(Line) /\ MaxLoads \in Nat

VARIABLES
  dotenv,      \* .env
  hostname,    \* public_hostname of config.json, "" where there is none
  startedBy,   \* "systemd", "shell" or, with variables exported, "exported"
  environ,     \* the environment of the process
  exported,    \* history: the environment it was started with
  lineNo,      \* of loadDotEnv
  loading,     \* "stopped", "reading", "checking", "syncing" or "running"
  settings,    \* the Config, Unset while there is none
  loaded,      \* history: the last Config of each way to start, for this .env
  loads        \* starts so far

filesVars == <<dotenv, hostname>>
loadVars == <<startedBy, environ, exported, lineNo, loading, settings>>
configVars == <<filesVars, loadVars, loaded, loads>>

Ways == {"systemd", "shell"}

NothingSet == [k \in Key |-> Unset]

ConfigInit ==
  /\ dotenv \in Files /\ hostname \in {"", "host"}
  /\ startedBy = "shell" /\ environ = NothingSet /\ exported = NothingSet
  /\ lineNo = 1 /\ loading = "stopped" /\ settings = Unset
  /\ loaded = [w \in Ways |-> Unset] /\ loads = 0

------------------------------------------------------------------------------
(* EnvironmentFile=: how systemd reads the file.                           *)

\* Where systemd is in a value, and what it has of it.
Place == {"before", "value", "escape", "double", "double_escape", "single"}

Reading == [at : Place, text : Value]

NothingRead == [at |-> "before", text |-> <<>>]

AfterText ==
  [before |-> "value", value |-> "value", escape |-> "value",
   double |-> "double", double_escape |-> "double", single |-> "single"]

\* Quotes count where a value or a part of one begins, a backslash takes what
\* follows literally; between double quotes it stays, before most characters.
SystemdPiece(s, p) ==
  LET Goes(at) == [s EXCEPT !.at = at]
      Takes(text) == [at |-> AfterText[s.at], text |-> s.text \o text]
  IN CASE s.at = "before" /\ p = "dq" -> Goes("double")
       [] s.at = "before" /\ p = "sq" -> Goes("single")
       [] s.at = "double" /\ p = "dq" -> Goes("before")
       [] s.at = "single" /\ p = "sq" -> Goes("before")
       [] s.at \in {"before", "value"} /\ p = "bs" -> Goes("escape")
       [] s.at = "double" /\ p = "bs" -> Goes("double_escape")
       [] s.at = "double_escape" /\ p \notin {"dq", "bs"} -> Takes(<<"bs", p>>)
       [] OTHER -> Takes(<<p>>)

\* A line's end after a backslash is dropped, between quotes it is part of the value.
SystemdLineEnd(s) ==
  CASE s.at = "escape" -> [s EXCEPT !.at = "value"]
    [] s.at = "double_escape" -> [s EXCEPT !.at = "double"]
    [] s.at \in {"double", "single"} -> [s EXCEPT !.text = Append(@, "nl")]
    [] OTHER -> s

Environment == [Key -> Value \cup {Unset}]

\* open: the last line's value goes on in the next line.
FileReading == [env : Environment, key : Key, open : BOOLEAN, value : Reading]

\* The last of several assignments counts; lines that are none are skipped.
SystemdLine(st, line) ==
  LET pieces == IF ~st.open THEN line.value
                ELSE IF line.kind = "pair" THEN <<"name">> \o line.value
                ELSE <<"line">>
      key == IF st.open THEN st.key ELSE line.key
      value == FoldLeft(SystemdPiece, IF st.open THEN st.value ELSE NothingRead, pieces)
  IN IF ~st.open /\ line.kind # "pair" THEN st
     ELSE [env |-> [st.env EXCEPT ![key] = value.text], key |-> key,
           open |-> value.at \notin {"before", "value"},
           value |-> SystemdLineEnd(value)]

NothingOpen ==
  [env |-> NothingSet, key |-> CHOOSE k \in Key : TRUE, open |-> FALSE,
   value |-> NothingRead]

FromSystemd == FoldLeft(SystemdLine, NothingOpen, dotenv).env

------------------------------------------------------------------------------
(* Load.                                                                   *)

Begins(way, env) ==
  /\ loading = "stopped" /\ loads < MaxLoads
  /\ loads' = loads + 1
  /\ startedBy' = way /\ environ' = env /\ exported' = env
  /\ lineNo' = 1 /\ loading' = "reading" /\ settings' = Unset
  /\ UNCHANGED <<filesVars, loaded>>

LoadBegins ==
  \/ Begins("systemd", FromSystemd)
  \/ Begins("shell", NothingSet)
  \/ \E k \in Key, v \in {<<>>, <<"better">>, <<"bad">>} :
       Begins("exported", [NothingSet EXCEPT ![k] = v])

CurrentLine == dotenv[lineNo]

\* One pair of quotes around all of a value is dropped, whatever is between them.
unquoteEnvValue(v) ==
  IF Len(v) >= 2 /\ v[1] \in {"dq", "sq"} /\ v[Len(v)] = v[1]
    THEN SubSeq(v, 2, Len(v) - 1)
  ELSE v

ValueRead == unquoteEnvValue(CurrentLine.value)

\* Mutant: the file always wins.
ReadsOver ==
  /\ loading = "reading" /\ lineNo <= Len(dotenv) /\ CurrentLine.kind = "pair"
  /\ environ' = [environ EXCEPT ![CurrentLine.key] = ValueRead]
  /\ lineNo' = lineNo + 1
  /\ UNCHANGED <<filesVars, startedBy, exported, loading, settings,
                 loaded, loads>>

\* A variable is set unless it is in the environment, blank or not.
ReadPair ==
  /\ loading = "reading" /\ lineNo <= Len(dotenv) /\ CurrentLine.kind = "pair"
  /\ environ' = [environ EXCEPT ![CurrentLine.key] =
                   IF @ = Unset THEN ValueRead ELSE @]
  /\ lineNo' = lineNo + 1
  /\ UNCHANGED <<filesVars, startedBy, exported, loading, settings,
                 loaded, loads>>

\* Mutant: a comment ends the file.
CommentEnds ==
  /\ loading = "reading" /\ lineNo <= Len(dotenv) /\ CurrentLine.kind = "comment"
  /\ lineNo' = Len(dotenv) + 1
  /\ UNCHANGED <<filesVars, startedBy, environ, exported, loading,
                 settings, loaded, loads>>

ReadComment ==
  /\ loading = "reading" /\ lineNo <= Len(dotenv) /\ CurrentLine.kind = "comment"
  /\ lineNo' = lineNo + 1
  /\ UNCHANGED <<filesVars, startedBy, environ, exported, loading,
                 settings, loaded, loads>>

Leaves(at) ==
  /\ loading' = at
  /\ UNCHANGED <<filesVars, startedBy, environ, exported, lineNo, settings, loads>>

\* The end of the file, or a line that ends the start.
ReadEnds ==
  /\ loading = "reading"
  /\ \/ lineNo > Len(dotenv) /\ Leaves("checking")
     \/ lineNo <= Len(dotenv) /\ CurrentLine.kind = "junk" /\ Leaves("stopped")
  /\ UNCHANGED loaded

Missing(k) == environ[k] \in {Unset, <<>>}

\* The require functions and optionalAbsPath, logFormat.
Accepts(k, v) ==
  IF k \in Exact THEN v \in {<<"good">>, <<"better">>} ELSE "bad" \notin ToSet(v)

Refused(k) == IF Missing(k) THEN k \in Required ELSE ~Accepts(k, environ[k])

Default == <<"default">>

\* loadFromEnv collects all errors.
CheckAll ==
  /\ loading = "checking"
  /\ Leaves(IF \E k \in Key : Refused(k) THEN "stopped" ELSE "syncing")
  /\ UNCHANGED loaded

\* syncPublicHostname: config.json decides, whatever TPROXY_HOSTNAME says.
SyncHostname ==
  /\ loading = "syncing"
  /\ IF hostname = ""
       THEN loading' = "stopped" /\ UNCHANGED <<settings, loaded>>
       ELSE /\ loading' = "running"
            /\ settings' = [k \in Key |->
                 IF Missing(k) THEN Default ELSE environ[k]]
            /\ loaded' = IF startedBy \in Ways
                           THEN [loaded EXCEPT ![startedBy] = settings'] ELSE loaded
  /\ UNCHANGED <<filesVars, startedBy, environ, exported, lineNo, loads>>

------------------------------------------------------------------------------
(* The administrator.                                                      *)

ProcessEnds ==
  /\ loading = "running"
  /\ loading' = "stopped" /\ settings' = Unset
  /\ UNCHANGED <<filesVars, startedBy, environ, exported, lineNo,
                 loaded, loads>>

Edit ==
  /\ loading = "stopped"
  /\ dotenv' \in Files /\ hostname' \in {"", "host"}
  /\ environ' = NothingSet /\ exported' = NothingSet
  /\ loaded' = [w \in Ways |-> Unset]
  /\ UNCHANGED <<startedBy, lineNo, loading, settings, loads>>

ConfigNext ==
  \/ LoadBegins \/ ReadPair \/ ReadComment \/ ReadEnds \/ CheckAll \/ SyncHostname
  \/ ProcessEnds \/ Edit

ConfigSpec == ConfigInit /\ [][ConfigNext]_configVars

------------------------------------------------------------------------------
(* Properties.                                                             *)

\* A variable has a value or is not set, and a running panel has a Config.
ConfigTypeOK ==
  /\ \A k \in Key : environ[k] = Unset \/ environ[k] \in Value
  /\ loading = "reading" => lineNo \in 1 .. Len(dotenv) + 1
  /\ loading = "running" =>
       \A k \in Required : settings[k] # <<>> /\ Accepts(k, settings[k])

\* "Process environment still overrides file values": also over several lines
\* for one key, and when the exported value is blank.
EnvironmentWins ==
  (loading = "running" /\ startedBy = "exported") =>
    \A k \in Key :
      exported[k] # Unset =>
        settings[k] = IF exported[k] = <<>> THEN Default ELSE exported[k]

PairsOf(k) == {i \in DOMAIN dotenv : dotenv[i].kind = "pair" /\ dotenv[i].key = k}

Repeated == \E k \in Key : \E i, j \in PairsOf(k) : i # j

Quoted(v, mark, without) ==
  /\ Len(v) >= 2 /\ v[1] = mark /\ v[Len(v)] = mark
  /\ \A i \in 2 .. Len(v) - 1 : v[i] \notin without

\* A value that begins with no quote and has no backslash, or that is between quotes
\* and has none of them inside, nor, between double ones, a backslash.
ReadsAlike(v) ==
  \/ v = <<>>
  \/ v[1] \notin {"dq", "sq"} /\ "bs" \notin ToSet(v)
  \/ Quoted(v, "sq", {"sq"})
  \/ Quoted(v, "dq", {"dq", "bs"})

\* The two readers of .env agree: started by hand or by systemd the panel has the
\* same settings, unless a key is there twice, where loadDotEnv takes the first
\* value and systemd the last, or a value's quotes or backslashes mean more to
\* systemd than one pair of quotes around it, to its following lines even.
SameEitherWay ==
  (/\ loaded["systemd"] # Unset /\ loaded["shell"] # Unset
   /\ ~Repeated /\ \A k \in Key : \A i \in PairsOf(k) : ReadsAlike(dotenv[i].value)) =>
    loaded["systemd"] = loaded["shell"]
==============================================================================
