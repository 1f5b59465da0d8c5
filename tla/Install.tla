-------------------------------- MODULE Install --------------------------------
(***************************************************************************)
(* deploy/install.sh: what a run of the installer changes, in which order, *)
(* and what is left when it ends at any of its steps.                      *)
(*                                                                         *)
(* A run makes up a new PANEL_PATH_TOKEN, patches it into Caddy's          *)
(* configuration and restarts Caddy long before it writes the .env with    *)
(* that token and restarts the panel.  INSTALL_DIR reaches four files:     *)
(* apply-profiles.env, the sudoers rule, .env and the unit.                *)
(*                                                                         *)
(* Prompts, the other settings, accounts and the MTProxy wrapper are left  *)
(* out; one administrator runs one installer at a time and edits files     *)
(* between runs only.                                                      *)
(***************************************************************************)
EXTENDS Integers, Sequences, SequencesExt

CONSTANTS
  Dir,         \* the directories the administrator may install to
  Sites,       \* Caddyfiles as tproxy-server leaves them
  MaxInstalls, MaxFaults, MaxEdits,  \* bounds: in one behaviour
  Nothing

\* What a line of the Caddyfile is: "route" stands for the three lines of the
\* panel's handle block, "wrap" for "handle {", "proxy" for the reverse_proxy of
\* tproxy-server, "errors" for "handle_errors {", "open" for other lines that end
\* in a brace and "text" for other lines.
Part ==
  {"begin", "route", "end", "wrap", "proxy", "errors", "open", "close", "text"}

CaddyLine == [part : Part, token : 0 .. MaxInstalls]

ASSUME InstallAssumption ==
  /\ Sites \subseteq Seq(CaddyLine)
  /\ MaxInstalls \in Nat /\ MaxFaults \in Nat /\ MaxEdits \in Nat
  /\ Nothing \notin Seq(CaddyLine) /\ Nothing \notin Nat
  /\ Nothing \notin [dir : Dir, token : Nat]

VARIABLES
  caddyfile,   \* /etc/caddy/Caddyfile
  caddy,       \* what Caddy serves, Nothing while it is down
  applyEnv,    \* the directory in apply-profiles.env
  grant,       \* the directory in the sudoers rule
  dotenvs,     \* the token in the .env of each directory
  unit,        \* the directory in the unit
  enabled,     \* the unit is started at boot
  panel,       \* directory and token of the running panel
  install,     \* the run of the installer
  kept,        \* history: the Caddyfile as others left it
  outcome,     \* history: how the last run ended
  installs, mishaps, edits

caddyVars == <<caddyfile, caddy, kept>>
panelVars == <<applyEnv, grant, dotenvs, unit, enabled, panel>>
boundVars == <<installs, mishaps, edits>>
installVars == <<caddyVars, panelVars, boundVars, install, outcome>>

InstallStep ==
  {"none", "backup", "patch", "validate", "copy", "restart", "restore", "again",
   "binary", "script", "sudoers", "env", "unit", "start"}

\* saved: the backup of this run, patched: its temporary file.
NoInstall ==
  [at |-> "none", dir |-> Nothing, token |-> 0, saved |-> <<>>, patched |-> <<>>]

InstallInit ==
  /\ caddyfile \in Sites /\ caddy = caddyfile /\ kept = caddyfile
  /\ applyEnv = Nothing /\ grant = Nothing /\ unit = Nothing /\ enabled = FALSE
  /\ dotenvs = [d \in Dir |-> Nothing] /\ panel = Nothing
  /\ install = NoInstall /\ outcome = "none"
  /\ installs = 0 /\ mishaps = 0 /\ edits = 0

------------------------------------------------------------------------------
(* The patch: two awk programs.                                            *)

L(part) == [part |-> part, token |-> 0]

ManagedBlock(token) ==
  <<L("begin"), [part |-> "route", token |-> token], L("end")>>

Has(file, part) == \E i \in DOMAIN file : file[i].part = part

Nesting(line) ==
  CASE line.part \in {"wrap", "proxy", "errors", "open"} -> 1
    [] line.part = "close" -> -1
    [] OTHER -> 0

\* The block goes before the reverse_proxy, which is wrapped up to the brace that
\* ends it.
FreshPatch(file, token) ==
  LET Awk(st, line) ==
        CASE st.depth = 0 /\ line.part = "proxy" ->
               [lines |-> st.lines \o ManagedBlock(token) \o <<L("wrap"), line>>,
                depth |-> 1]
          [] st.depth # 0 /\ st.depth + Nesting(line) = 0 ->
               [lines |-> st.lines \o <<line, L("close")>>, depth |-> 0]
          [] st.depth # 0 /\ st.depth + Nesting(line) # 0 ->
               [lines |-> Append(st.lines, line),
                depth |-> st.depth + Nesting(line)]
          [] OTHER -> [st EXCEPT !.lines = Append(@, line)]
  IN FoldLeft(Awk, [lines |-> <<>>, depth |-> 0], file).lines

\* What is between the markers is replaced; without an end marker, all the rest.
UpdatePatch(file, token) ==
  LET Awk(st, line) ==
        CASE line.part = "begin" ->
               [lines |-> st.lines \o ManagedBlock(token), skip |-> TRUE]
          [] line.part = "end" -> [st EXCEPT !.skip = FALSE]
          [] OTHER ->
               [st EXCEPT !.lines = IF st.skip THEN @ ELSE Append(@, line)]
  IN FoldLeft(Awk, [lines |-> <<>>, skip |-> FALSE], file).lines

\* Mutant: the structure is looked at before the markers.
ModeByShape(file) ==
  CASE Has(file, "proxy") /\ Has(file, "errors") -> "fresh"
    [] Has(file, "begin") -> "update"
    [] OTHER -> "neither"

PatchMode(file) ==
  CASE Has(file, "begin") -> "update"
    [] ~Has(file, "begin") /\ Has(file, "proxy") /\ Has(file, "errors") -> "fresh"
    [] OTHER -> "neither"

\* Braces opened and not closed.
OpenBraces(file) == FoldLeft(LAMBDA n, line : n + Nesting(line), 0, file)

\* caddy validate: braces match.
Valid(file) ==
  /\ \A n \in DOMAIN file : OpenBraces(SubSeq(file, 1, n)) >= 0
  /\ OpenBraces(file) = 0

\* As tproxy-server has it: not patched, and the one reverse_proxy is in the last
\* block of the file, which the last line ends.
Pristine(file) ==
  /\ ~Has(file, "begin") /\ ~Has(file, "end")
  /\ \A i \in DOMAIN file :
       file[i].part = "proxy" =>
         /\ \A j \in DOMAIN file : file[j].part = "proxy" => j = i
         /\ \A n \in i - 1 .. Len(file) - 1 : OpenBraces(SubSeq(file, 1, n)) >= 1

ASSUME SitesAssumption == \A site \in Sites : Pristine(site)

------------------------------------------------------------------------------
(* The steps up to Caddy's restart.                                        *)

GoesOn(at) == install' = [install EXCEPT !.at = at]

Ends(how) == install' = NoInstall /\ outcome' = how

InstallBegins ==
  /\ install.at = "none" /\ installs < MaxInstalls
  /\ installs' = installs + 1
  /\ \E d \in Dir :
       install' = [NoInstall EXCEPT !.at = "backup", !.dir = d, !.token = installs']
  /\ UNCHANGED <<caddyVars, panelVars, outcome, mishaps, edits>>

Backup ==
  /\ install.at = "backup"
  /\ install' = [install EXCEPT !.at = "patch", !.saved = caddyfile]
  /\ UNCHANGED <<caddyVars, panelVars, boundVars, outcome>>

Patch ==
  /\ install.at = "patch"
  /\ LET token == install.token
         mode == PatchMode(caddyfile)
         patched == IF mode = "fresh" THEN FreshPatch(caddyfile, token)
                    ELSE UpdatePatch(caddyfile, token)
     IN IF mode = "neither" THEN Ends("refused")
        ELSE /\ install' = [install EXCEPT !.at = "validate", !.patched = patched]
             /\ UNCHANGED outcome
  /\ UNCHANGED <<caddyVars, panelVars, boundVars>>

\* Mutant: the result of caddy validate is not looked at.
ValidatesNothing ==
  /\ install.at = "validate"
  /\ GoesOn("copy")
  /\ UNCHANGED <<caddyVars, panelVars, boundVars, outcome>>

Validate ==
  /\ install.at = "validate"
  /\ IF Valid(install.patched) THEN GoesOn("copy") /\ UNCHANGED outcome
     ELSE Ends("refused")
  /\ UNCHANGED <<caddyVars, panelVars, boundVars>>

CopyPatched ==
  /\ install.at = "copy"
  /\ caddyfile' = install.patched
  /\ GoesOn("restart")
  /\ UNCHANGED <<caddy, kept, panelVars, boundVars, outcome>>

\* Caddy fails to start with a file it cannot read, or for another reason.
CaddyRestarts(done, failed) ==
  \/ /\ Valid(caddyfile)
     /\ caddy' = caddyfile
     /\ done
     /\ UNCHANGED mishaps
  \/ /\ caddy' = Nothing
     /\ failed
     /\ IF Valid(caddyfile) THEN mishaps < MaxFaults /\ mishaps' = mishaps + 1
        ELSE UNCHANGED mishaps

RestartCaddy ==
  /\ install.at = "restart"
  /\ CaddyRestarts(GoesOn("binary"), GoesOn("restore"))
  /\ UNCHANGED <<caddyfile, kept, panelVars, installs, edits, outcome>>

RestoreCaddyfile ==
  /\ install.at = "restore"
  /\ caddyfile' = install.saved
  /\ GoesOn("again")
  /\ UNCHANGED <<caddy, kept, panelVars, boundVars, outcome>>

RestartAgain ==
  /\ install.at = "again"
  /\ CaddyRestarts(Ends("restored"), Ends("restored"))
  /\ UNCHANGED <<caddyfile, kept, panelVars, installs, edits>>

------------------------------------------------------------------------------
(* The steps after it.                                                     *)

\* Accounts, the binary and the password hash.
GetBinary ==
  /\ install.at = "binary"
  /\ GoesOn("script")
  /\ UNCHANGED <<caddyVars, panelVars, boundVars, outcome>>

InstallScript ==
  /\ install.at = "script"
  /\ applyEnv' = install.dir
  /\ GoesOn("sudoers")
  /\ UNCHANGED <<caddyVars, grant, dotenvs, unit, enabled, panel, boundVars, outcome>>

InstallSudoers ==
  /\ install.at = "sudoers"
  /\ grant' = install.dir
  /\ GoesOn("env")
  /\ UNCHANGED <<caddyVars, applyEnv, dotenvs, unit, enabled, panel, boundVars, outcome>>

WriteDotenv ==
  /\ install.at = "env"
  /\ dotenvs' = [dotenvs EXCEPT ![install.dir] = install.token]
  /\ GoesOn("unit")
  /\ UNCHANGED <<caddyVars, applyEnv, grant, unit, enabled, panel, boundVars, outcome>>

InstallUnit ==
  /\ install.at = "unit"
  /\ unit' = install.dir
  /\ GoesOn("start")
  /\ UNCHANGED <<caddyVars, applyEnv, grant, dotenvs, enabled, panel, boundVars, outcome>>

\* The unit's panel with the .env of its directory.
Started == [dir |-> unit, token |-> dotenvs[unit]]

\* Mutant: systemctl enable --now.
EnablesNow ==
  /\ install.at = "start"
  /\ enabled' = TRUE
  /\ panel' = IF panel = Nothing THEN Started ELSE panel
  /\ Ends("ok")
  /\ UNCHANGED <<caddyVars, applyEnv, grant, dotenvs, unit, boundVars>>

StartPanel ==
  /\ install.at = "start"
  /\ enabled' = TRUE
  /\ panel' = Started
  /\ Ends("ok")
  /\ UNCHANGED <<caddyVars, applyEnv, grant, dotenvs, unit, boundVars>>

------------------------------------------------------------------------------
(* What goes wrong, and the administrator.                                 *)

Mishap == mishaps < MaxFaults /\ mishaps' = mishaps + 1

\* A command fails and with it the run (set -e); a panel that does not become
\* active is left as it is.
StepFails ==
  /\ install.at \notin {"none", "restart", "again"}
  /\ Mishap
  /\ Ends("failed")
  /\ IF install.at = "start" THEN enabled' = TRUE /\ panel' = Nothing
     ELSE UNCHANGED <<enabled, panel>>
  /\ UNCHANGED <<caddyVars, applyEnv, grant, dotenvs, unit, installs, edits>>

\* cp writes the file in place.
Torn(file) ==
  \E n \in 0 .. Len(file) - 1 :
    caddyfile' = SubSeq(file, 1, n) /\ kept' = caddyfile'

Interrupted ==
  IF install.at \in {"copy", "restore"}
    THEN Torn(IF install.at = "copy" THEN install.patched ELSE install.saved)
    ELSE UNCHANGED <<caddyfile, kept>>

InstallKilled ==
  /\ install.at # "none"
  /\ Mishap
  /\ Interrupted
  /\ Ends("killed")
  /\ UNCHANGED <<caddy, panelVars, installs, edits>>

\* The services come up with their files.
Reboot ==
  /\ Mishap
  /\ Interrupted
  /\ IF install.at = "none" THEN UNCHANGED <<install, outcome>> ELSE Ends("killed")
  /\ caddy' = IF Valid(caddyfile') THEN caddyfile' ELSE Nothing
  /\ panel' = IF enabled /\ dotenvs[unit] # Nothing THEN Started ELSE Nothing
  /\ UNCHANGED <<applyEnv, grant, dotenvs, unit, enabled, installs, edits>>

\* A line is added, or the end marker deleted, or all is put back by hand.
EditCaddyfile ==
  /\ install.at = "none" /\ edits < MaxEdits
  /\ edits' = edits + 1
  /\ outcome' = "edited"
  /\ \/ /\ caddyfile' = <<L("text")>> \o caddyfile
        /\ kept' = <<L("text")>> \o kept
     \/ \E i \in DOMAIN caddyfile :
          /\ caddyfile[i].part = "end"
          /\ caddyfile' = RemoveAt(caddyfile, i) /\ kept' = caddyfile'
     \/ caddyfile' \in Sites /\ kept' = caddyfile'
  /\ UNCHANGED <<caddy, panelVars, install, installs, mishaps>>

InstallNext ==
  \/ InstallBegins \/ Backup \/ Patch \/ Validate \/ CopyPatched
  \/ RestartCaddy \/ RestoreCaddyfile \/ RestartAgain
  \/ GetBinary \/ InstallScript \/ InstallSudoers \/ WriteDotenv
  \/ InstallUnit \/ StartPanel
  \/ StepFails \/ InstallKilled \/ Reboot \/ EditCaddyfile

InstallSpec == InstallInit /\ [][InstallNext]_installVars

------------------------------------------------------------------------------
(* Properties.                                                             *)

\* Files and processes hold directories, tokens and lines.
InstallTypeOK ==
  /\ {caddyfile, kept, install.saved, install.patched} \subseteq Seq(CaddyLine)
  /\ caddy = Nothing \/ caddy \in Seq(CaddyLine)
  /\ {applyEnv, grant, unit, install.dir} \subseteq Dir \cup {Nothing}
  /\ dotenvs \in [Dir -> (1 .. installs) \cup {Nothing}]
  /\ panel = Nothing \/ panel \in [dir : Dir, token : 1 .. installs]
  /\ install.at \in InstallStep /\ install.token \in 0 .. installs

\* The Caddyfile is the administrator's, or that one patched a single time, after
\* any number of runs, failures and edits; one that is torn or has lost its end
\* marker is left alone.
CaddyfileKept ==
  \/ caddyfile = kept
  \/ ~Has(kept, "begin")
       /\ \E token \in 1 .. installs : caddyfile = FreshPatch(kept, token)

\* After a run that succeeds Caddy passes the running panel's path on to it, and
\* its directory is the one the script, the sudoers rule and the unit name,
\* whatever earlier runs left behind and also after a reboot.
InstalledAgrees ==
  (outcome = "ok" /\ install.at = "none") =>
    /\ panel # Nothing
    /\ applyEnv = panel.dir /\ grant = panel.dir /\ unit = panel.dir
    /\ caddy # Nothing => [part |-> "route", token |-> panel.token] \in ToSet(caddy)

\* Caddy was working before a run: unless it fails to start with a valid file, or
\* a run is killed, it works after it, and also in between.
CaddyStaysUp == caddy = Nothing => mishaps > 0
==============================================================================
