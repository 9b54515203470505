------------------------------ MODULE Installer ------------------------------
(***************************************************************************)
(* `sqllens claude-desktop install` (installers/claude_desktop.py): one run  *)
(* writes sqllens.toml, on Windows a launcher, and an entry of Claude        *)
(* Desktop's own configuration, in that order, and undoes the first two      *)
(* when a later step fails.                                                  *)
(*                                                                         *)
(* A step below is one access to the disk, since the process may be killed   *)
(* between two of them and Claude Desktop may rewrite its configuration at   *)
(* any time.  Runs follow each other: they find what the last one left.      *)
(* A file is known by the options it was generated from; `Hand` stands for   *)
(* any other content.  Texts are compared as Path.read_text gives them, up   *)
(* to line ends.                                                             *)
(***************************************************************************)
EXTENDS Integers, FiniteSets

CONSTANTS
    Options,     \* InstallOptions of one working directory; each has a server name of its own
    LauncherOf,  \* the launcher written for one: directory and executable, no option
    Hand,        \* content that no run generated
    NoFile,
    MaxInstalls, \* bound on the runs
    MaxEdits     \* bound on Claude Desktop's own edits

ASSUME InstallerAssumption ==
    /\ IsFiniteSet(Options)
    /\ Hand \notin Options /\ NoFile \notin Options \cup {Hand}
    /\ LauncherOf \in [Options -> {LauncherOf[o] : o \in Options}]
    /\ {Hand, NoFile} \cap {LauncherOf[o] : o \in Options} = {}
    /\ MaxInstalls \in Nat /\ MaxEdits \in Nat

VARIABLES
    windows,   \* is_windows(platform_name)
    toml,      \* working_dir/sqllens.toml
    cmd,       \* working_dir/run-sqllens.cmd
    config,    \* claude_desktop_config.json
    backups,   \* the contents of the .bak files
    install,   \* the run: its step and its locals
    previous,  \* history: the run before, how it ended and what it had found
    installs, edits

disk == <<toml, cmd, config, backups>>
installVars == <<windows, disk, install, previous, installs, edits>>

Texts == Options \cup {Hand, NoFile}
Launchers == {LauncherOf[o] : o \in Options} \cup {Hand, NoFile}
Entries == {"absent", "stale", "fresh"}

\* What the configuration can be.  `broken`: no JSON, no object, or an object
\* whose mcpServers is none.  `rest` is everything the installer does not own.
Docs == [kind : {"missing", "broken", "object"}, servers : [Options -> Entries], rest : 0 .. 1]
EmptyDoc == [kind |-> "object", servers |-> [o \in Options |-> "absent"], rest |-> 0]

\* One that an older installer, or the user, gave an entry of this name.
StaleDoc(opt) == [kind |-> "object", rest |-> 1,
                  servers |-> [o \in Options |-> IF o = opt THEN "stale" ELSE "absent"]]

Over == {"idle", "done", "previewed", "failed", "refused", "killed"}
Steps == Over \cup {"plan", "read_toml", "write_toml", "read_cmd", "write_cmd", "validate",
                    "backup", "write_json", "revert_cmd", "revert_toml"}

\* `toml`, `cmd`: existing_toml, existing_cmd_bytes; `ends`: the error under way
\* while the reverts run, `at` the step that raised it; `warned`: a revert failed;
\* `raced`: Claude Desktop wrote between the backup and the replacement.
Runs == [step : Steps, opt : Options, dry : BOOLEAN, force : BOOLEAN, before : Docs,
         toml : Texts, cmd : Launchers, cmdWritten : BOOLEAN, warned : BOOLEAN, raced : BOOLEAN,
         ends : {"failed", "refused"}, at : Steps, foundToml : Texts, foundCmd : Launchers]

Summary(run) == [step |-> run.step, opt |-> run.opt, toml |-> run.foundToml, cmd |-> run.foundCmd]

InstallerInit ==
    /\ windows \in BOOLEAN
    /\ toml \in {Hand, NoFile} /\ cmd \in IF windows THEN {Hand, NoFile} ELSE {NoFile}
    /\ config \in {EmptyDoc} \cup {[EmptyDoc EXCEPT !.kind = k] : k \in {"missing", "broken"}}
                  \cup {StaleDoc(o) : o \in Options}
    /\ backups = {}
    /\ \E o \in Options : install =
          [step |-> "idle", opt |-> o, dry |-> FALSE, force |-> FALSE, before |-> EmptyDoc,
           toml |-> NoFile, cmd |-> NoFile, cmdWritten |-> FALSE, warned |-> FALSE,
           raced |-> FALSE, ends |-> "failed", at |-> "idle", foundToml |-> NoFile,
           foundCmd |-> NoFile]
    /\ previous = Summary(install)
    /\ installs = 0 /\ edits = 0

-----------------------------------------------------------------------------
\* Mutant of Replaced: the file is truncated and written in place, and a part of it
\* is content like any other.
ReplacedInPlace(old, new) == {old, new, Hand}

\* atomic_write_bytes replaces a file in one rename: whoever dies on the way
\* leaves the old content or the new one.
Replaced(old, new) == {old, new}

\* generate_cmd_launcher
Launcher == LauncherOf[install.opt]

Goto(s) == install' = [install EXCEPT !.step = s]

\* An error that needs no revert, or gets none.
Raise == install' = [install EXCEPT !.step = "failed", !.at = install.step]

\* An error raised after a file was written: the reverts run first.
RaiseUndoing(s, e) == install' = [install EXCEPT !.step = s, !.ends = e, !.at = install.step]

\* resolve_options and the part of run_install that only computes; an option that
\* cannot be resolved ends the run here.
StartInstall(o, dry, force) ==
    /\ install.step \in Over /\ installs < MaxInstalls
    /\ installs' = installs + 1
    /\ \E s \in {"plan", "failed"} :
          install' = [install EXCEPT !.step = s, !.opt = o, !.dry = dry, !.force = force,
                         !.cmdWritten = FALSE, !.warned = FALSE, !.raced = FALSE, !.at = "idle",
                         !.foundToml = toml, !.foundCmd = cmd]
    /\ previous' = Summary(install)
    /\ UNCHANGED <<windows, disk, edits>>

\* merge_into_mcp_servers
Merged(doc) == [doc EXCEPT !.servers = [@ EXCEPT ![install.opt] = "fresh"]]

\* _read_existing_config and the plan.  A preview needs no installed Claude Desktop.
PlanInstall ==
    /\ install.step = "plan"
    /\ LET before == IF install.dry /\ config.kind = "missing" THEN EmptyDoc ELSE config IN
       \/ /\ before.kind = "object"
          /\ install' = [install EXCEPT !.before = before,
                            !.step = IF install.dry THEN "previewed" ELSE "read_toml"]
       \/ Raise     \* missing, unreadable, broken, or a symlink
    /\ UNCHANGED <<windows, disk, previous, installs, edits>>

AfterToml == IF windows THEN "read_cmd" ELSE "validate"

\* Mutant of ReadToml: a file with other content is kept, and the run goes on.
ReadTomlKeeping ==
    /\ install.step = "read_toml"
    /\ \/ install' = [install EXCEPT !.toml = toml,
                         !.step = IF toml \in {NoFile, install.opt} \/ install.force
                                  THEN "write_toml" ELSE AfterToml]
       \/ Raise
    /\ UNCHANGED <<windows, disk, previous, installs, edits>>

\* mkdir, then what is there; without --force other content is kept.
ReadToml ==
    /\ install.step = "read_toml"
    /\ \/ install' = [install EXCEPT !.toml = toml, !.at = "read_toml",
                         !.step = CASE toml = install.opt -> AfterToml
                                    [] toml = NoFile \/ install.force -> "write_toml"
                                    [] OTHER -> "refused"]
       \/ Raise
    /\ UNCHANGED <<windows, disk, previous, installs, edits>>

WriteToml ==
    /\ install.step = "write_toml"
    /\ \/ toml' = install.opt /\ Goto(AfterToml)
       \/ toml' = toml /\ RaiseUndoing("revert_toml", "failed")
    /\ UNCHANGED <<windows, cmd, config, backups, previous, installs, edits>>

\* A launcher that cannot be read ends the run as it stands: _read_bytes_or_none
\* raises outside the try that reverts the TOML.  The launcher of another install
\* is as good as this one's if both name one executable.
ReadCmd ==
    /\ install.step = "read_cmd"
    /\ \/ /\ cmd = Launcher
          /\ install' = [install EXCEPT !.cmd = cmd, !.step = "validate"]
       \/ /\ cmd # Launcher /\ (cmd = NoFile \/ install.force)
          /\ install' = [install EXCEPT !.cmd = cmd, !.step = "write_cmd"]
       \/ /\ cmd \notin {NoFile, Launcher} /\ ~install.force
          /\ RaiseUndoing("revert_toml", "refused")
       \/ Raise
    /\ UNCHANGED <<windows, disk, previous, installs, edits>>

WriteCmd ==
    /\ install.step = "write_cmd"
    /\ \/ /\ cmd' = Launcher
          /\ install' = [install EXCEPT !.cmdWritten = TRUE, !.step = "validate"]
       \/ cmd' = cmd /\ RaiseUndoing("revert_cmd", "failed")
    /\ UNCHANGED <<windows, toml, config, backups, previous, installs, edits>>

\* Mutant of Validate: only the TOML is reverted.
ValidateRevertingToml ==
    /\ install.step = "validate"
    /\ \/ Goto(IF Merged(install.before) = install.before THEN "done" ELSE "backup")
       \/ install' = [install EXCEPT !.step = "revert_toml", !.ends = "failed", !.at = "validate",
                          !.cmdWritten = FALSE]
    /\ UNCHANGED <<windows, disk, previous, installs, edits>>

\* validate_toml loads the file as `serve` will; the entry is left alone when the
\* merge would change nothing.
Validate ==
    /\ install.step = "validate"
    /\ \/ Goto(IF Merged(install.before) = install.before THEN "done" ELSE "backup")
       \/ RaiseUndoing("revert_toml", "failed")
    /\ UNCHANGED <<windows, disk, previous, installs, edits>>

\* make_backup_path names a backup by the second: it overwrites one of the same stamp.
BackupsAfter(doc) == {(backups \ lost) \cup {doc} : lost \in {{}} \cup {{b} : b \in backups}}

\* Mutant of Backup: the configuration as it was read for the plan is saved.
BackupOfPlan ==
    /\ install.step = "backup"
    /\ \/ /\ config.kind # "missing"
          /\ backups' \in BackupsAfter(install.before) /\ Goto("write_json")
       \/ backups' = backups /\ Raise
    /\ UNCHANGED <<windows, toml, cmd, config, previous, installs, edits>>

\* The backup is what is on the disk now, not what the plan was made from.
Backup ==
    /\ install.step = "backup"
    /\ \/ /\ config.kind # "missing"
          /\ backups' \in BackupsAfter(config) /\ Goto("write_json")
       \/ backups' = backups /\ Raise
    /\ UNCHANGED <<windows, toml, cmd, config, previous, installs, edits>>

WriteJson ==
    /\ install.step = "write_json"
    /\ \/ config' = Merged(install.before) /\ Goto("done")
       \/ config' = config /\ Raise
    /\ UNCHANGED <<windows, toml, cmd, backups, previous, installs, edits>>

\* After a failed validation the TOML is reverted first, after a failed launcher
\* the launcher.
AfterRevertCmd == IF install.at = "validate" THEN install.ends ELSE "revert_toml"
AfterRevertToml ==
    IF install.at = "validate" /\ install.cmdWritten THEN "revert_cmd" ELSE install.ends

\* _revert_cmd_bytes: best effort, a failure is only printed.
RevertCmd ==
    /\ install.step = "revert_cmd"
    /\ \/ /\ cmd' = install.cmd
          /\ Goto(AfterRevertCmd)
       \/ /\ cmd' = cmd
          /\ install' = [install EXCEPT !.step = AfterRevertCmd, !.warned = TRUE]
    /\ UNCHANGED <<windows, toml, config, backups, previous, installs, edits>>

RevertToml ==
    /\ install.step = "revert_toml"
    /\ \/ /\ toml' = install.toml
          /\ Goto(AfterRevertToml)
       \/ /\ toml' = toml
          /\ install' = [install EXCEPT !.step = AfterRevertToml, !.warned = TRUE]
    /\ UNCHANGED <<windows, cmd, config, backups, previous, installs, edits>>

\* The process dies.  In the middle of a write either content is left.
KillInstall ==
    /\ install.step \notin Over
    /\ toml' \in CASE install.step = "write_toml"  -> Replaced(toml, install.opt)
                   [] install.step = "revert_toml" -> Replaced(toml, install.toml)
                   [] OTHER -> {toml}
    /\ cmd' \in CASE install.step = "write_cmd"  -> Replaced(cmd, Launcher)
                  [] install.step = "revert_cmd" -> Replaced(cmd, install.cmd)
                  [] OTHER -> {cmd}
    /\ config' \in IF install.step = "write_json" THEN {config, Merged(install.before)} ELSE {config}
    /\ Goto("killed")
    /\ UNCHANGED <<windows, backups, previous, installs, edits>>

\* Claude Desktop writes its configuration, or is installed.
DesktopEdits ==
    /\ edits < MaxEdits /\ config.kind # "broken"
    /\ config' = IF config.kind = "missing" THEN EmptyDoc ELSE [config EXCEPT !.rest = 1 - @]
    /\ edits' = edits + 1
    /\ install' = [install EXCEPT !.raced = @ \/ install.step = "write_json"]
    /\ UNCHANGED <<windows, toml, cmd, backups, previous, installs>>

InstallStep ==
    \/ PlanInstall \/ ReadToml \/ WriteToml \/ ReadCmd \/ WriteCmd \/ Validate
    \/ Backup \/ WriteJson \/ RevertCmd \/ RevertToml \/ KillInstall

-----------------------------------------------------------------------------
InstallerTypeOK ==
    /\ windows \in BOOLEAN
    /\ toml \in Texts /\ cmd \in Launchers
    /\ config \in Docs /\ backups \subseteq Docs
    /\ install \in Runs
    /\ previous \in [step : Steps, opt : Options, toml : Texts, cmd : Launchers]
    /\ installs \in 0 .. MaxInstalls /\ edits \in 0 .. MaxEdits

\* An install that ends in an error leaves the TOML and the launcher as it found
\* them, unless it has printed that a revert failed (run_install: "TOML and .cmd
\* failures revert their respective writes").  Three errors are not reverted by the
\* code and are set apart: the two of the JSON step, which come after the
\* validation, and a launcher that cannot be read.
FailedInstallUndone ==
    /\ install.step \in {"failed", "refused"} /\ ~install.warned
    /\ install.at \notin {"read_cmd", "backup", "write_json"} \/ install.step = "refused"
    => toml = install.foundToml /\ cmd = install.foundCmd

\* Claude Desktop is pointed at a server only when the files the entry names are on
\* the disk with the content it was made for, whatever failed, was kept or was
\* killed before.
EntriesPointAtTheirFiles ==
    [][\A o \in Options :
          config.servers[o] # "fresh" /\ config'.servers[o] = "fresh"
          => toml = o /\ (windows => cmd = LauncherOf[o])]_installVars

\* Every version of the user's configuration that a run replaces is in a backup,
\* edits made after the plan included; what is written between the backup and the
\* rename cannot be (`raced`).
ReplacedConfigIsBackedUp ==
    [][config' # config /\ install.step = "write_json" /\ ~install.raced /\ edits' = edits
       => config \in backups]_installVars

\* A run that was killed half way can be repeated with the same options: it does
\* not take its own files for somebody else's and ask for --force.
KilledRunCanBeRepeated ==
    /\ install.step = "refused" /\ previous.step = "killed" /\ previous.opt = install.opt
    => \/ previous.toml \notin {NoFile, install.opt}
       \/ previous.cmd \notin {NoFile, Launcher}
=============================================================================
