--------------------------- MODULE CommandsProofs ---------------------------
(***************************************************************************)
(* Proofs about the commands, for any number of host messages, golden cases, *)
(* files and environments: the lifespan adapter leaves the session manager   *)
(* once and tells the truth, a server is not open by accident, and a green   *)
(* verification verified.                                                    *)
(*                                                                         *)
(* The four parts share no variable, so each has an inductive invariant of   *)
(* its own, kept by its own steps; a last lemma says that a step of Commands *)
(* is a step of one part that leaves the others alone.                       *)
(***************************************************************************)
EXTENDS Commands, FiniteSetTheorems, TLAPS

-----------------------------------------------------------------------------
(* The parts of a step. *)

DeployAction ==
    \/ \E force \in BOOLEAN : InitCommand(force)
    \/ \E checks \in SUBSET ProbeSet : ValidateCommand(checks)
    \/ \E preflight \in BOOLEAN : ServeCommand(preflight)
    \/ Embed \/ DeployStep \/ StopServing \/ OperatorChanges

InstallAction ==
    \/ \E o \in Options, dry, force \in BOOLEAN : StartInstall(o, dry, force)
    \/ InstallStep \/ DesktopEdits

LEMMA StepsOfTheParts ==
    [Next]_vars =>
        /\ [InstallAction]_installVars
        /\ [HostStep \/ LifespanStep]_lifeVars
        /\ [VerifyStep]_verifyVars
        /\ [DeployAction]_deployVars
        /\ [\E t \in Turns : MemoryStep(t)]_memoryVars
  BY DEF Next, vars, Install, Deploy, Host, Recall, Verify, DeployAction, InstallAction

-----------------------------------------------------------------------------
(* The installer. *)

Untouched == {"plan", "read_toml", "write_toml"}
Written == {"read_cmd", "write_cmd", "validate", "backup", "write_json"}
Reverting == {"revert_cmd", "revert_toml"}

\* What the run has read is what it found, and what it has written is its own.
FilesInv ==
    /\ install.step # "idle" =>
          /\ toml \in {install.foundToml, install.opt}
          /\ cmd \in {install.foundCmd, LauncherOf[install.opt]}
    /\ install.step \in Untouched =>
          toml = install.foundToml /\ cmd = install.foundCmd /\ ~install.cmdWritten
    /\ install.step \in {"write_toml", "read_cmd", "write_cmd", "validate"} =>
          install.toml = install.foundToml
    /\ install.step \in Written => toml = install.opt
    /\ install.step \in {"read_cmd", "write_cmd"} =>
          windows /\ cmd = install.foundCmd /\ ~install.cmdWritten
    /\ install.step = "write_cmd" => install.cmd = install.foundCmd
    /\ install.step \in {"validate", "backup", "write_json"} /\ windows => cmd = LauncherOf[install.opt]
    /\ install.step = "validate" =>
          IF install.cmdWritten THEN install.cmd = install.foundCmd ELSE cmd = install.foundCmd

\* What a revert has still to do.
RevertInv ==
    /\ install.step = "revert_toml" =>
          /\ install.toml = install.foundToml
          /\ cmd = install.foundCmd \/ (install.at = "validate" /\ install.cmdWritten)
          /\ install.cmdWritten => install.cmd = install.foundCmd
    /\ install.step = "revert_cmd" =>
          /\ install.cmd = install.foundCmd
          /\ IF install.at = "validate" THEN toml = install.foundToml \/ install.warned
             ELSE install.toml = install.foundToml /\ cmd = install.foundCmd
    /\ install.step \in Reverting /\ install.cmdWritten => install.at = "validate"
    /\ FailedInstallUndone

\* The entries are those of the plan.
ConfigInv ==
    /\ install.step \in Written \cup {"read_toml", "write_toml"} =>
          install.before.servers = config.servers /\ config.kind = "object"
    /\ install.step = "write_json" /\ ~install.raced => config \in backups

\* What the run found is what the killed run before had found, or its own files.
RepeatInv ==
    /\ previous.step = "killed" =>
          /\ install.foundToml \in {previous.toml, previous.opt}
          /\ install.foundCmd \in {previous.cmd, LauncherOf[previous.opt]}
    /\ install.step = "refused" =>
          \/ install.foundToml \notin {NoFile, install.opt}
          \/ install.foundCmd \notin {NoFile, LauncherOf[install.opt]}
    /\ install.step \in Reverting /\ install.ends = "refused" =>
          install.foundCmd \notin {NoFile, LauncherOf[install.opt]}

InstallerInv == InstallerTypeOK /\ FilesInv /\ RevertInv /\ ConfigInv /\ RepeatInv

LEMMA InstallerStarts == InstallerInit => InstallerInv
  <1> SUFFICES ASSUME InstallerInit PROVE InstallerInv
    OBVIOUS
  <1>1. EmptyDoc \in Docs
    BY DEF EmptyDoc, Docs, Entries
  <1>2. config \in Docs
    <2>1. \A k \in {"missing", "broken"} : [EmptyDoc EXCEPT !.kind = k] \in Docs
      BY DEF EmptyDoc, Docs, Entries
    <2>2. \A o \in Options : StaleDoc(o) \in Docs
      BY DEF StaleDoc, Docs, Entries
    <2>3. config \in {EmptyDoc} \cup {[EmptyDoc EXCEPT !.kind = k] : k \in {"missing", "broken"}}
                    \cup {StaleDoc(o) : o \in Options}
      BY DEF InstallerInit
    <2> QED
      BY <1>1, <2>1, <2>2, <2>3
  <1>3. PICK o \in Options : install =
          [step |-> "idle", opt |-> o, dry |-> FALSE, force |-> FALSE, before |-> EmptyDoc,
           toml |-> NoFile, cmd |-> NoFile, cmdWritten |-> FALSE, warned |-> FALSE,
           raced |-> FALSE, ends |-> "failed", at |-> "idle", foundToml |-> NoFile,
           foundCmd |-> NoFile]
    BY DEF InstallerInit
  <1>4. install \in Runs /\ install.step = "idle"
    BY <1>1, <1>3 DEF Runs, Steps, Over, Texts, Launchers
  <1>5. previous \in [step : Steps, opt : Options, toml : Texts, cmd : Launchers]
        /\ previous.step = "idle"
    BY <1>4 DEF InstallerInit, Summary, Runs
  <1>6. InstallerTypeOK
    <2>1. windows \in BOOLEAN /\ toml \in Texts /\ cmd \in Launchers /\ backups = {}
      BY DEF InstallerInit, Texts, Launchers
    <2>2. installs = 0 /\ edits = 0
      BY DEF InstallerInit
    <2>3. installs \in 0 .. MaxInstalls /\ edits \in 0 .. MaxEdits
      BY <2>2, InstallerAssumption
    <2> QED
      BY <1>2, <1>4, <1>5, <2>1, <2>3 DEF InstallerTypeOK
  <1>7. FilesInv /\ RevertInv /\ ConfigInv /\ RepeatInv
    BY <1>4, <1>5 DEF FilesInv, RevertInv, ConfigInv, RepeatInv, FailedInstallUndone, Untouched,
                      Written, Reverting
  <1> QED
    BY <1>6, <1>7 DEF InstallerInv

\* What no step after the start changes.
SameFinds ==
    /\ previous' = previous /\ windows' = windows /\ install'.opt = install.opt
    /\ install'.foundToml = install.foundToml /\ install'.foundCmd = install.foundCmd

SameReads == install'.toml = install.toml /\ install'.cmd = install.cmd

SameMarks ==
    /\ install'.cmdWritten = install.cmdWritten /\ install'.warned = install.warned
    /\ install'.raced = install.raced /\ install'.before = install.before

LEMMA Moves ==
    ASSUME InstallerInv, NEW s \in Steps, Goto(s), UNCHANGED <<windows, previous>>
    PROVE  /\ install' \in Runs /\ install'.step = s /\ SameFinds /\ SameReads /\ SameMarks
           /\ install'.at = install.at /\ install'.ends = install.ends
  <1>1. install \in Runs
    BY DEF InstallerInv, InstallerTypeOK
  <1>2. install' = [install EXCEPT !.step = s]
    BY DEF Goto
  <1>3. install' \in Runs
    BY <1>1, <1>2 DEF Runs
  <1> QED
    BY <1>1, <1>2, <1>3 DEF Runs, SameFinds, SameReads, SameMarks

LEMMA Raises ==
    ASSUME InstallerInv, Raise, UNCHANGED <<windows, previous>>
    PROVE  /\ install' \in Runs /\ install'.step = "failed" /\ SameFinds /\ SameReads /\ SameMarks
           /\ install'.at = install.step
  <1>1. install \in Runs
    BY DEF InstallerInv, InstallerTypeOK
  <1>2. install' = [install EXCEPT !.step = "failed", !.at = install.step]
    BY DEF Raise
  <1>3. install' \in Runs
    BY <1>1, <1>2 DEF Runs, Steps, Over
  <1> QED
    BY <1>1, <1>2, <1>3 DEF Runs, SameFinds, SameReads, SameMarks

LEMMA RaisesUndoing ==
    ASSUME InstallerInv, NEW s \in Reverting, NEW e \in {"failed", "refused"},
           RaiseUndoing(s, e), UNCHANGED <<windows, previous>>
    PROVE  /\ install' \in Runs /\ install'.step = s /\ SameFinds /\ SameReads /\ SameMarks
           /\ install'.at = install.step /\ install'.ends = e
  <1>1. install \in Runs
    BY DEF InstallerInv, InstallerTypeOK
  <1>2. install' = [install EXCEPT !.step = s, !.ends = e, !.at = install.step]
    BY DEF RaiseUndoing
  <1>3. install' \in Runs
    BY <1>1, <1>2 DEF Runs, Steps, Over, Reverting
  <1> QED
    BY <1>1, <1>2, <1>3 DEF Runs, SameFinds, SameReads, SameMarks

LEMMA StartInstallKeeps ==
    ASSUME InstallerInv, NEW o \in Options, NEW dry \in BOOLEAN, NEW force \in BOOLEAN,
           StartInstall(o, dry, force)
    PROVE  InstallerInv'
  <1>1. PICK s \in {"plan", "failed"} :
          install' = [install EXCEPT !.step = s, !.opt = o, !.dry = dry, !.force = force,
                         !.cmdWritten = FALSE, !.warned = FALSE, !.raced = FALSE, !.at = "idle",
                         !.foundToml = toml, !.foundCmd = cmd]
    BY DEF StartInstall
  <1>2. /\ UNCHANGED <<windows, toml, cmd, config, backups, edits>>
        /\ installs < MaxInstalls /\ installs' = installs + 1
        /\ previous' = Summary(install) /\ install.step \in Over
    BY DEF StartInstall, disk
  <1>3. /\ install \in Runs /\ toml \in Texts /\ cmd \in Launchers
        /\ previous \in [step : Steps, opt : Options, toml : Texts, cmd : Launchers]
    BY DEF InstallerInv, InstallerTypeOK
  <1>4. install' \in Runs
    <2>1. s \in Steps /\ "idle" \in Steps
      BY DEF Steps, Over
    <2>2. install' = [step |-> s, opt |-> o, dry |-> dry, force |-> force,
                      before |-> install.before, toml |-> install.toml, cmd |-> install.cmd,
                      cmdWritten |-> FALSE, warned |-> FALSE, raced |-> FALSE,
                      ends |-> install.ends, at |-> "idle", foundToml |-> toml, foundCmd |-> cmd]
      BY <1>1, <1>3 DEF Runs
    <2>3. /\ install.before \in Docs /\ install.toml \in Texts /\ install.cmd \in Launchers
          /\ install.ends \in {"failed", "refused"}
      BY <1>3 DEF Runs
    <2> QED
      BY <1>3, <2>1, <2>2, <2>3 DEF Runs
  <1>5. /\ install'.step = s /\ install'.opt = o /\ install'.foundToml = toml
        /\ install'.foundCmd = cmd /\ install'.at = "idle" /\ ~install'.cmdWritten
    BY <1>1, <1>3 DEF Runs
  <1>6. /\ previous' \in [step : Steps, opt : Options, toml : Texts, cmd : Launchers]
        /\ previous'.step = install.step /\ previous'.opt = install.opt
        /\ previous'.toml = install.foundToml /\ previous'.cmd = install.foundCmd
    BY <1>2, <1>3 DEF Summary, Runs
  <1>7. installs' \in 0 .. MaxInstalls
    BY <1>2, InstallerAssumption DEF InstallerInv, InstallerTypeOK
  <1>8. InstallerTypeOK'
    BY <1>2, <1>4, <1>6, <1>7 DEF InstallerInv, InstallerTypeOK
  <1>9. FilesInv' /\ RevertInv' /\ ConfigInv'
    BY <1>2, <1>5 DEF FilesInv, RevertInv, ConfigInv, FailedInstallUndone, Untouched, Written,
                      Reverting
  <1>10. RepeatInv'
    <2>1. install.step = "killed" =>
            /\ toml \in {install.foundToml, install.opt}
            /\ cmd \in {install.foundCmd, LauncherOf[install.opt]}
      BY DEF InstallerInv, FilesInv
    <2> QED
      BY <1>1, <1>2, <1>5, <1>6, <2>1 DEF RepeatInv, Reverting
  <1> QED
    BY <1>8, <1>9, <1>10 DEF InstallerInv

LEMMA PlanKeeps ==
    ASSUME InstallerInv, PlanInstall
    PROVE  InstallerInv'
  <1>1. /\ UNCHANGED <<windows, toml, cmd, config, backups, previous, installs, edits>>
        /\ install.step = "plan" /\ install \in Runs /\ config \in Docs
    BY DEF PlanInstall, disk, InstallerInv, InstallerTypeOK
  <1>2. toml = install.foundToml /\ cmd = install.foundCmd /\ ~install.cmdWritten
    BY <1>1 DEF InstallerInv, FilesInv, Untouched
  <1>3. CASE Raise
    <2>1. /\ install' \in Runs /\ install'.step = "failed" /\ SameFinds
          /\ install'.at = "plan"
      BY <1>1, <1>3, Raises
    <2> QED
      BY <1>1, <1>2, <2>1
      DEF SameFinds, InstallerInv, InstallerTypeOK, FilesInv, RevertInv, ConfigInv, RepeatInv,
          FailedInstallUndone, Untouched, Written, Reverting
  <1>4. ASSUME NEW before, before = IF install.dry /\ config.kind = "missing" THEN EmptyDoc ELSE config,
               before.kind = "object",
               install' = [install EXCEPT !.before = before,
                             !.step = IF install.dry THEN "previewed" ELSE "read_toml"]
        PROVE  InstallerInv'
    <2>1. before \in Docs /\ (~install.dry => before = config /\ config.kind = "object")
      <3>1. EmptyDoc \in Docs
        BY DEF EmptyDoc, Docs, Entries
      <3> QED
        BY <1>1, <1>4, <3>1
    <2>2. install' \in Runs
      BY <1>1, <1>4, <2>1 DEF Runs, Steps, Over
    <2>3. /\ install'.step = IF install.dry THEN "previewed" ELSE "read_toml"
          /\ install'.before = before /\ SameFinds /\ install'.cmdWritten = install.cmdWritten
      BY <1>1, <1>4 DEF Runs, SameFinds
    <2> QED
      BY <1>1, <1>2, <2>1, <2>2, <2>3
      DEF SameFinds, InstallerInv, InstallerTypeOK, FilesInv, RevertInv, ConfigInv, RepeatInv,
          FailedInstallUndone, Untouched, Written, Reverting
  <1> QED
    BY <1>3, <1>4 DEF PlanInstall

LEMMA ReadTomlKeeps ==
    ASSUME InstallerInv, ReadToml
    PROVE  InstallerInv'
  <1>1. /\ UNCHANGED <<windows, toml, cmd, config, backups, previous, installs, edits>>
        /\ install.step = "read_toml" /\ install \in Runs /\ toml \in Texts
    BY DEF ReadToml, disk, InstallerInv, InstallerTypeOK
  <1>2. toml = install.foundToml /\ cmd = install.foundCmd /\ ~install.cmdWritten
    BY <1>1 DEF InstallerInv, FilesInv, Untouched
  <1>3. CASE Raise
    <2>1. /\ install' \in Runs /\ install'.step = "failed" /\ SameFinds
          /\ install'.at = "read_toml"
      BY <1>1, <1>3, Raises
    <2> QED
      BY <1>1, <1>2, <2>1
      DEF SameFinds, InstallerInv, InstallerTypeOK, FilesInv, RevertInv, ConfigInv, RepeatInv,
          FailedInstallUndone, Untouched, Written, Reverting
  <1>4. ASSUME NEW s \in Steps,
               s = CASE toml = install.opt -> AfterToml
                     [] toml = NoFile \/ install.force -> "write_toml"
                     [] OTHER -> "refused",
               install' = [install EXCEPT !.toml = toml, !.at = "read_toml", !.step = s]
        PROVE  InstallerInv'
    <2>1. install' \in Runs
      BY <1>1, <1>4 DEF Runs, Steps, Over
    <2>2. /\ install'.step = s /\ install'.toml = toml /\ install'.at = "read_toml"
          /\ SameFinds /\ SameMarks
      BY <1>1, <1>4 DEF Runs, SameFinds, SameMarks
    <2>3. \/ toml = install.opt /\ s = "read_cmd" /\ windows
          \/ toml = install.opt /\ s = "validate" /\ ~windows
          \/ s = "write_toml"
          \/ s = "refused" /\ toml \notin {NoFile, install.opt}
      BY <1>4 DEF AfterToml
    <2> QED
      BY <1>1, <1>2, <2>1, <2>2, <2>3
      DEF SameFinds, SameMarks, InstallerInv, InstallerTypeOK, FilesInv, RevertInv, ConfigInv,
          RepeatInv, FailedInstallUndone, Untouched, Written, Reverting
  <1>5. (CASE toml = install.opt -> AfterToml
           [] toml = NoFile \/ install.force -> "write_toml"
           [] OTHER -> "refused") \in Steps
    BY DEF AfterToml, Steps, Over
  <1> QED
    BY <1>3, <1>4, <1>5 DEF ReadToml

LEMMA WriteTomlKeeps ==
    ASSUME InstallerInv, WriteToml
    PROVE  InstallerInv'
  <1>1. /\ UNCHANGED <<windows, cmd, config, backups, previous, installs, edits>>
        /\ install.step = "write_toml" /\ install \in Runs
    BY DEF WriteToml, InstallerInv, InstallerTypeOK
  <1>2. /\ toml = install.foundToml /\ cmd = install.foundCmd /\ ~install.cmdWritten
        /\ install.toml = install.foundToml
    BY <1>1 DEF InstallerInv, FilesInv, Untouched
  <1>3. CASE toml' = install.opt /\ Goto(AfterToml)
    <2>1. AfterToml \in Steps /\ (AfterToml = IF windows THEN "read_cmd" ELSE "validate")
      BY DEF AfterToml, Steps
    <2>2. /\ install' \in Runs /\ install'.step = (IF windows THEN "read_cmd" ELSE "validate")
          /\ SameFinds /\ SameReads /\ SameMarks
      BY <1>1, <1>3, <2>1, Moves
    <2>3. toml' = install.opt /\ install.opt \in Texts
      BY <1>1, <1>3 DEF Runs, Texts
    <2> QED
      BY <1>1, <1>2, <2>2, <2>3
      DEF SameFinds, SameReads, SameMarks, InstallerInv, InstallerTypeOK, FilesInv, RevertInv,
          ConfigInv, RepeatInv, FailedInstallUndone, Untouched, Written, Reverting
  <1>4. CASE toml' = toml /\ RaiseUndoing("revert_toml", "failed")
    <2>1. /\ install' \in Runs /\ install'.step = "revert_toml" /\ install'.at = "write_toml"
          /\ install'.ends = "failed" /\ SameFinds /\ SameReads /\ SameMarks
      BY <1>1, <1>4, RaisesUndoing DEF Reverting
    <2> QED
      BY <1>1, <1>2, <1>4, <2>1
      DEF SameFinds, SameReads, SameMarks, InstallerInv, InstallerTypeOK, FilesInv, RevertInv,
          ConfigInv, RepeatInv, FailedInstallUndone, Untouched, Written, Reverting
  <1> QED
    BY <1>3, <1>4 DEF WriteToml

LEMMA ReadCmdKeeps ==
    ASSUME InstallerInv, ReadCmd
    PROVE  InstallerInv'
  <1>1. /\ UNCHANGED <<windows, toml, cmd, config, backups, previous, installs, edits>>
        /\ install.step = "read_cmd" /\ install \in Runs /\ cmd \in Launchers
    BY DEF Launcher, ReadCmd, disk, InstallerInv, InstallerTypeOK
  <1>2. /\ toml = install.opt /\ cmd = install.foundCmd /\ ~install.cmdWritten
        /\ install.toml = install.foundToml /\ windows
    BY <1>1 DEF InstallerInv, FilesInv, Written
  <1>3. ASSUME NEW s \in {"validate", "write_cmd"}, s = "validate" => cmd = LauncherOf[install.opt],
               install' = [install EXCEPT !.cmd = cmd, !.step = s]
        PROVE  InstallerInv'
    <2>1. install' \in Runs
      BY <1>1, <1>3 DEF Runs, Steps
    <2>2. /\ install'.step = s /\ install'.cmd = cmd /\ install'.toml = install.toml
          /\ SameFinds /\ SameMarks
      BY <1>1, <1>3 DEF Runs, SameFinds, SameMarks
    <2> QED
      BY <1>1, <1>2, <1>3, <2>1, <2>2
      DEF SameFinds, SameMarks, InstallerInv, InstallerTypeOK, FilesInv, RevertInv, ConfigInv,
          RepeatInv, FailedInstallUndone, Untouched, Written, Reverting
  <1>4. CASE cmd \notin {NoFile, LauncherOf[install.opt]} /\ RaiseUndoing("revert_toml", "refused")
    <2>1. /\ install' \in Runs /\ install'.step = "revert_toml" /\ install'.at = "read_cmd"
          /\ SameFinds /\ SameReads /\ SameMarks
      BY <1>1, <1>4, RaisesUndoing DEF Reverting
    <2> QED
      BY <1>1, <1>2, <1>4, <2>1
      DEF SameFinds, SameReads, SameMarks, InstallerInv, InstallerTypeOK, FilesInv, RevertInv,
          ConfigInv, RepeatInv, FailedInstallUndone, Untouched, Written, Reverting
  <1>5. CASE Raise
    <2>1. /\ install' \in Runs /\ install'.step = "failed" /\ SameFinds
          /\ install'.at = "read_cmd"
      BY <1>1, <1>5, Raises
    <2> QED
      BY <1>1, <1>2, <2>1
      DEF SameFinds, InstallerInv, InstallerTypeOK, FilesInv, RevertInv, ConfigInv, RepeatInv,
          FailedInstallUndone, Untouched, Written, Reverting
  <1> QED
    BY <1>3, <1>4, <1>5 DEF Launcher, ReadCmd

LEMMA WriteCmdKeeps ==
    ASSUME InstallerInv, WriteCmd
    PROVE  InstallerInv'
  <1>1. /\ UNCHANGED <<windows, toml, config, backups, previous, installs, edits>>
        /\ install.step = "write_cmd" /\ install \in Runs
    BY DEF Launcher, WriteCmd, InstallerInv, InstallerTypeOK
  <1>2. /\ toml = install.opt /\ cmd = install.foundCmd /\ ~install.cmdWritten
        /\ install.toml = install.foundToml /\ install.cmd = install.foundCmd /\ windows
    BY <1>1 DEF InstallerInv, FilesInv, Written
  <1>3. CASE cmd' = LauncherOf[install.opt] /\ install' = [install EXCEPT !.cmdWritten = TRUE, !.step = "validate"]
    <2>1. install' \in Runs /\ cmd' \in Launchers
      BY <1>1, <1>3 DEF Runs, Steps, Launchers
    <2>2. /\ install'.step = "validate" /\ install'.cmdWritten /\ SameReads /\ SameFinds
          /\ install'.before = install.before
      BY <1>1, <1>3 DEF Runs, SameFinds, SameReads
    <2> QED
      BY <1>1, <1>2, <1>3, <2>1, <2>2
      DEF SameFinds, SameReads, InstallerInv, InstallerTypeOK, FilesInv, RevertInv, ConfigInv,
          RepeatInv, FailedInstallUndone, Untouched, Written, Reverting
  <1>4. CASE cmd' = cmd /\ RaiseUndoing("revert_cmd", "failed")
    <2>1. /\ install' \in Runs /\ install'.step = "revert_cmd" /\ install'.at = "write_cmd"
          /\ install'.ends = "failed" /\ SameFinds /\ SameReads /\ SameMarks
      BY <1>1, <1>4, RaisesUndoing DEF Reverting
    <2> QED
      BY <1>1, <1>2, <1>4, <2>1
      DEF SameFinds, SameReads, SameMarks, InstallerInv, InstallerTypeOK, FilesInv, RevertInv,
          ConfigInv, RepeatInv, FailedInstallUndone, Untouched, Written, Reverting
  <1> QED
    BY <1>3, <1>4 DEF Launcher, WriteCmd

LEMMA ValidateKeeps ==
    ASSUME InstallerInv, Validate
    PROVE  InstallerInv'
  <1>1. /\ UNCHANGED <<windows, toml, cmd, config, backups, previous, installs, edits>>
        /\ install.step = "validate" /\ install \in Runs
    BY DEF Validate, disk, InstallerInv, InstallerTypeOK
  <1>2. /\ toml = install.opt /\ install.toml = install.foundToml
        /\ windows => cmd = LauncherOf[install.opt]
        /\ IF install.cmdWritten THEN install.cmd = install.foundCmd ELSE cmd = install.foundCmd
    BY <1>1 DEF InstallerInv, FilesInv, Written
  <1>3. ASSUME NEW s \in {"done", "backup"}, Goto(s)
        PROVE  InstallerInv'
    <2>1. /\ install' \in Runs /\ install'.step = s /\ SameFinds /\ SameReads /\ SameMarks
      BY <1>1, <1>3, Moves DEF Steps, Over
    <2> QED
      BY <1>1, <1>2, <2>1
      DEF SameFinds, SameReads, SameMarks, InstallerInv, InstallerTypeOK, FilesInv, RevertInv,
          ConfigInv, RepeatInv, FailedInstallUndone, Untouched, Written, Reverting
  <1>4. CASE RaiseUndoing("revert_toml", "failed")
    <2>1. /\ install' \in Runs /\ install'.step = "revert_toml" /\ install'.at = "validate"
          /\ install'.ends = "failed" /\ SameFinds /\ SameReads /\ SameMarks
      BY <1>1, <1>4, RaisesUndoing DEF Reverting
    <2> QED
      BY <1>1, <1>2, <2>1
      DEF SameFinds, SameReads, SameMarks, InstallerInv, InstallerTypeOK, FilesInv, RevertInv,
          ConfigInv, RepeatInv, FailedInstallUndone, Untouched, Written, Reverting
  <1> QED
    BY <1>3, <1>4 DEF Validate

LEMMA BackupKeeps ==
    ASSUME InstallerInv, Backup
    PROVE  InstallerInv'
  <1>1. /\ UNCHANGED <<windows, toml, cmd, config, previous, installs, edits>>
        /\ install.step = "backup" /\ install \in Runs /\ config \in Docs
    BY DEF Backup, InstallerInv, InstallerTypeOK
  <1>2. toml = install.opt /\ (windows => cmd = LauncherOf[install.opt])
    BY <1>1 DEF InstallerInv, FilesInv, Written
  <1>3. CASE backups' \in BackupsAfter(config) /\ Goto("write_json")
    <2>0. config \in backups' /\ backups' \subseteq backups \cup {config}
      BY <1>3 DEF BackupsAfter
    <2>1. /\ install' \in Runs /\ install'.step = "write_json" /\ SameFinds /\ SameReads /\ SameMarks
      BY <1>1, <1>3, Moves DEF Steps
    <2> QED
      BY <1>1, <1>2, <2>0, <2>1
      DEF SameFinds, SameReads, SameMarks, InstallerInv, InstallerTypeOK, FilesInv, RevertInv,
          ConfigInv, RepeatInv, FailedInstallUndone, Untouched, Written, Reverting
  <1>4. CASE backups' = backups /\ Raise
    <2>1. /\ install' \in Runs /\ install'.step = "failed" /\ SameFinds
          /\ install'.at = "backup"
      BY <1>1, <1>4, Raises
    <2> QED
      BY <1>1, <1>2, <1>4, <2>1
      DEF SameFinds, InstallerInv, InstallerTypeOK, FilesInv, RevertInv, ConfigInv, RepeatInv,
          FailedInstallUndone, Untouched, Written, Reverting
  <1> QED
    BY <1>3, <1>4 DEF Backup

LEMMA MergedDoc ==
    ASSUME NEW doc \in Docs, install.opt \in Options
    PROVE  /\ Merged(doc) \in Docs
           /\ \A o \in Options : Merged(doc).servers[o] =
                 IF o = install.opt THEN "fresh" ELSE doc.servers[o]
  <1> DEFINE servers == [doc.servers EXCEPT ![install.opt] = "fresh"]
  <1>1. doc.servers \in [Options -> Entries]
    BY DEF Docs
  <1>2. /\ servers \in [Options -> Entries]
        /\ \A o \in Options : servers[o] = IF o = install.opt THEN "fresh" ELSE doc.servers[o]
    BY <1>1 DEF Entries
  <1>3. Merged(doc) = [doc EXCEPT !.servers = servers]
    BY DEF Merged
  <1> HIDE DEF servers
  <1> QED
    BY <1>2, <1>3 DEF Docs

LEMMA WriteJsonKeeps ==
    ASSUME InstallerInv, WriteJson
    PROVE  InstallerInv'
  <1>1. /\ UNCHANGED <<windows, toml, cmd, backups, previous, installs, edits>>
        /\ install.step = "write_json" /\ install \in Runs
    BY DEF WriteJson, InstallerInv, InstallerTypeOK
  <1>2. toml = install.opt /\ (windows => cmd = LauncherOf[install.opt])
    BY <1>1 DEF InstallerInv, FilesInv, Written
  <1>3. CASE config' = Merged(install.before) /\ Goto("done")
    <2>1. install' \in Runs /\ install'.step = "done" /\ SameFinds
      BY <1>1, <1>3, Moves DEF Steps, Over
    <2>2. config' \in Docs
      BY <1>1, <1>3, MergedDoc DEF Runs
    <2> QED
      BY <1>1, <1>2, <2>1, <2>2
      DEF SameFinds, InstallerInv, InstallerTypeOK, FilesInv, RevertInv, ConfigInv, RepeatInv,
          FailedInstallUndone, Untouched, Written, Reverting
  <1>4. CASE config' = config /\ Raise
    <2>1. /\ install' \in Runs /\ install'.step = "failed" /\ SameFinds
          /\ install'.at = "write_json"
      BY <1>1, <1>4, Raises
    <2> QED
      BY <1>1, <1>2, <1>4, <2>1
      DEF SameFinds, InstallerInv, InstallerTypeOK, FilesInv, RevertInv, ConfigInv, RepeatInv,
          FailedInstallUndone, Untouched, Written, Reverting
  <1> QED
    BY <1>3, <1>4 DEF WriteJson

\* A revert leaves what the run found, or is warned of.
LEMMA RevertTomlKeeps ==
    ASSUME InstallerInv, RevertToml
    PROVE  InstallerInv'
  <1>1. /\ UNCHANGED <<windows, cmd, config, backups, previous, installs, edits>>
        /\ install.step = "revert_toml" /\ install \in Runs
        /\ toml \in {install.foundToml, install.opt} /\ cmd \in {install.foundCmd, LauncherOf[install.opt]}
    BY DEF RevertToml, InstallerInv, InstallerTypeOK, FilesInv
  <1>2. /\ install.toml = install.foundToml
        /\ cmd = install.foundCmd \/ (install.at = "validate" /\ install.cmdWritten)
        /\ install.cmdWritten => install.cmd = install.foundCmd /\ install.at = "validate"
        /\ install.ends = "refused" => install.foundCmd \notin {NoFile, LauncherOf[install.opt]}
    BY <1>1 DEF InstallerInv, RevertInv, RepeatInv, Reverting
  <1>3. PICK s \in {"revert_cmd", "failed", "refused"} :
          /\ s = AfterRevertToml
          /\ s = "revert_cmd" => install.at = "validate" /\ install.cmdWritten
          /\ s # "revert_cmd" => s = install.ends /\ cmd = install.foundCmd
    BY <1>1, <1>2 DEF AfterRevertToml, Runs
  <1>4. CASE toml' = install.toml /\ Goto(s)
    <2>1. /\ install' \in Runs /\ install'.step = s /\ SameFinds /\ SameReads /\ SameMarks
          /\ install'.at = install.at /\ install'.ends = install.ends
      BY <1>1, <1>4, Moves DEF Steps, Over
    <2>2. toml' = install.foundToml /\ toml' \in Texts
      BY <1>1, <1>2, <1>4 DEF Runs
    <2> QED
      BY <1>1, <1>2, <1>3, <2>1, <2>2
      DEF SameFinds, SameReads, SameMarks, InstallerInv, InstallerTypeOK, FilesInv, RevertInv,
          ConfigInv, RepeatInv, FailedInstallUndone, Untouched, Written, Reverting
  <1>5. CASE toml' = toml /\ install' = [install EXCEPT !.step = s, !.warned = TRUE]
    <2>1. install' \in Runs
      BY <1>1, <1>5 DEF Runs, Steps, Over
    <2>2. /\ install'.step = s /\ install'.warned /\ SameFinds /\ SameReads
          /\ install'.cmdWritten = install.cmdWritten
          /\ install'.at = install.at /\ install'.ends = install.ends
      BY <1>1, <1>5 DEF Runs, SameFinds, SameReads
    <2> QED
      BY <1>1, <1>2, <1>3, <1>5, <2>1, <2>2
      DEF SameFinds, SameReads, InstallerInv, InstallerTypeOK, FilesInv, RevertInv,
          ConfigInv, RepeatInv, FailedInstallUndone, Untouched, Written, Reverting
  <1> QED
    BY <1>3, <1>4, <1>5 DEF RevertToml

LEMMA RevertCmdKeeps ==
    ASSUME InstallerInv, RevertCmd
    PROVE  InstallerInv'
  <1>1. /\ UNCHANGED <<windows, toml, config, backups, previous, installs, edits>>
        /\ install.step = "revert_cmd" /\ install \in Runs
        /\ toml \in {install.foundToml, install.opt} /\ cmd \in {install.foundCmd, LauncherOf[install.opt]}
    BY DEF RevertCmd, InstallerInv, InstallerTypeOK, FilesInv
  <1>2. /\ install.cmd = install.foundCmd
        /\ IF install.at = "validate" THEN toml = install.foundToml \/ install.warned
           ELSE install.toml = install.foundToml /\ cmd = install.foundCmd
        /\ install.cmdWritten => install.at = "validate"
        /\ install.ends = "refused" => install.foundCmd \notin {NoFile, LauncherOf[install.opt]}
    BY <1>1 DEF InstallerInv, RevertInv, RepeatInv, Reverting
  <1>3. PICK s \in {"revert_toml", "failed", "refused"} :
          /\ s = AfterRevertCmd
          /\ s = "revert_toml" <=> install.at # "validate"
          /\ s # "revert_toml" => s = install.ends
    BY <1>1, <1>2 DEF AfterRevertCmd, Runs
  <1>4. CASE cmd' = install.cmd /\ Goto(s)
    <2>1. /\ install' \in Runs /\ install'.step = s /\ SameFinds /\ SameReads /\ SameMarks
          /\ install'.at = install.at /\ install'.ends = install.ends
      BY <1>1, <1>4, Moves DEF Steps, Over
    <2>2. cmd' = install.foundCmd /\ cmd' \in Launchers
      BY <1>1, <1>2, <1>4 DEF Runs
    <2> QED
      BY <1>1, <1>2, <1>3, <2>1, <2>2
      DEF SameFinds, SameReads, SameMarks, InstallerInv, InstallerTypeOK, FilesInv, RevertInv,
          ConfigInv, RepeatInv, FailedInstallUndone, Untouched, Written, Reverting
  <1>5. CASE cmd' = cmd /\ install' = [install EXCEPT !.step = s, !.warned = TRUE]
    <2>1. install' \in Runs
      BY <1>1, <1>5 DEF Runs, Steps, Over
    <2>2. /\ install'.step = s /\ install'.warned /\ SameFinds /\ SameReads
          /\ install'.cmdWritten = install.cmdWritten
          /\ install'.at = install.at /\ install'.ends = install.ends
      BY <1>1, <1>5 DEF Runs, SameFinds, SameReads
    <2> QED
      BY <1>1, <1>2, <1>3, <1>5, <2>1, <2>2
      DEF SameFinds, SameReads, InstallerInv, InstallerTypeOK, FilesInv, RevertInv,
          ConfigInv, RepeatInv, FailedInstallUndone, Untouched, Written, Reverting
  <1> QED
    BY <1>3, <1>4, <1>5 DEF RevertCmd

LEMMA KillKeeps ==
    ASSUME InstallerInv, KillInstall
    PROVE  InstallerInv'
  <1>1. /\ UNCHANGED <<windows, backups, previous, installs, edits>> /\ install.step \notin Over
        /\ install \in Runs /\ toml \in Texts /\ cmd \in Launchers /\ config \in Docs
        /\ toml \in {install.foundToml, install.opt} /\ cmd \in {install.foundCmd, LauncherOf[install.opt]}
    BY DEF KillInstall, InstallerInv, InstallerTypeOK, FilesInv, Over
  <1>2. toml' \in {toml, install.foundToml, install.opt}
    <2>1. install.step = "revert_toml" => install.toml = install.foundToml
      BY DEF InstallerInv, RevertInv
    <2> QED
      BY <2>1 DEF KillInstall, Replaced, Launcher
  <1>3. cmd' \in {cmd, install.foundCmd, LauncherOf[install.opt]}
    <2>1. install.step = "revert_cmd" => install.cmd = install.foundCmd
      BY DEF InstallerInv, RevertInv
    <2> QED
      BY <2>1 DEF KillInstall, Replaced, Launcher
  <1>4. config' \in Docs
    BY <1>1, MergedDoc DEF KillInstall, Runs
  <1>5. install' \in Runs /\ install'.step = "killed" /\ SameFinds
    BY <1>1, Moves DEF KillInstall, Steps, Over
  <1>6. toml' \in Texts /\ cmd' \in Launchers
    BY <1>1, <1>2, <1>3 DEF Runs, Texts, Launchers
  <1> QED
    BY <1>1, <1>2, <1>3, <1>4, <1>5, <1>6
    DEF SameFinds, InstallerInv, InstallerTypeOK, FilesInv, RevertInv, ConfigInv, RepeatInv,
        FailedInstallUndone, Untouched, Written, Reverting

LEMMA EditKeeps ==
    ASSUME InstallerInv, DesktopEdits
    PROVE  InstallerInv'
  <1>1. /\ UNCHANGED <<windows, toml, cmd, backups, previous, installs>>
        /\ edits < MaxEdits /\ edits' = edits + 1
        /\ install' = [install EXCEPT !.raced = @ \/ install.step = "write_json"]
        /\ install \in Runs /\ config \in Docs
    BY DEF DesktopEdits, InstallerInv, InstallerTypeOK
  <1>2. install' \in Runs
    BY <1>1 DEF Runs
  <1>3. /\ install'.step = install.step /\ SameFinds /\ SameReads
        /\ install'.cmdWritten = install.cmdWritten /\ install'.warned = install.warned
        /\ install'.before = install.before /\ install'.at = install.at
        /\ install'.ends = install.ends
        /\ install'.step = "write_json" => install'.raced
    BY <1>1 DEF Runs, SameFinds, SameReads
  <1>4. edits' \in 0 .. MaxEdits
    BY <1>1, InstallerAssumption DEF InstallerInv, InstallerTypeOK
  <1>5. /\ config' \in Docs
        /\ config.kind = "object" => config'.kind = "object" /\ config'.servers = config.servers
    <2>1. CASE config.kind = "missing"
      BY <2>1 DEF DesktopEdits, EmptyDoc, Docs, Entries
    <2>2. CASE config.kind # "missing"
      <3>1. config' = [config EXCEPT !.rest = 1 - config.rest] /\ config.rest \in 0 .. 1
        BY <1>1, <2>2 DEF DesktopEdits, Docs
      <3>2. 1 - config.rest \in 0 .. 1
        BY <3>1
      <3> QED
        BY <1>1, <3>1, <3>2 DEF Docs
    <2> QED
      BY <2>1, <2>2
  <1>6. InstallerTypeOK'
    BY <1>1, <1>2, <1>3, <1>4, <1>5 DEF SameFinds, InstallerInv, InstallerTypeOK
  <1>7. FilesInv' /\ RevertInv'
    BY <1>1, <1>3
    DEF SameFinds, SameReads, InstallerInv, FilesInv, RevertInv, FailedInstallUndone, Untouched,
        Written, Reverting
  <1>8. ConfigInv' /\ RepeatInv'
    BY <1>1, <1>3, <1>5
    DEF SameFinds, InstallerInv, ConfigInv, RepeatInv, Untouched, Written, Reverting
  <1> QED
    BY <1>6, <1>7, <1>8 DEF InstallerInv

LEMMA InstallerKeeps == InstallerInv /\ [InstallAction]_installVars => InstallerInv'
  <1> SUFFICES ASSUME InstallerInv, [InstallAction]_installVars
               PROVE  InstallerInv'
    OBVIOUS
  <1>1. CASE UNCHANGED installVars
    <2>1. UNCHANGED <<windows, toml, cmd, config, backups, install, previous, installs, edits>>
      BY <1>1 DEF installVars, disk
    <2> QED
      BY <2>1 DEF InstallerInv, InstallerTypeOK, FilesInv, RevertInv, ConfigInv, RepeatInv,
                  FailedInstallUndone
  <1> QED
    BY <1>1, StartInstallKeeps, EditKeeps, PlanKeeps, ReadTomlKeeps, WriteTomlKeeps, ReadCmdKeeps,
       WriteCmdKeeps, ValidateKeeps, BackupKeeps, WriteJsonKeeps, RevertCmdKeeps, RevertTomlKeeps,
       KillKeeps
    DEF InstallAction, InstallStep

LEMMA InstallerInvariant == Spec => []InstallerInv
  <1>1. Init => InstallerInv
    BY InstallerStarts DEF Init
  <1>2. InstallerInv /\ [Next]_vars => InstallerInv'
    BY InstallerKeeps, StepsOfTheParts
  <1> QED
    BY <1>1, <1>2, PTL DEF Spec

\* Whatever fails, is refused or is killed, in however many runs: an install that
\* ends in an error before its JSON step has put back what it had written
\* (_revert_toml, _revert_cmd_bytes).
THEOREM FailedInstallsAreUndone == Spec => []FailedInstallUndone
  <1>1. InstallerInv => FailedInstallUndone
    BY DEF InstallerInv, RevertInv
  <1> QED
    BY <1>1, InstallerInvariant, PTL

\* A run repeated after a kill does not mistake its own half for somebody else's
\* file: each file is the one found or the one wanted (atomic_write_bytes).
THEOREM KilledRunsCanBeRepeated == Spec => []KilledRunCanBeRepeated
  <1>1. InstallerInv => KilledRunCanBeRepeated
    BY DEF InstallerInv, RepeatInv, KilledRunCanBeRepeated, Launcher
  <1> QED
    BY <1>1, InstallerInvariant, PTL

\* No entry of Claude Desktop's configuration is added before the files it names
\* are as it needs them.
THEOREM EntriesComeLast == Spec => EntriesPointAtTheirFiles
  <1> DEFINE Step == \A o \in Options :
                        config.servers[o] # "fresh" /\ config'.servers[o] = "fresh"
                        => toml = o /\ (windows => cmd = LauncherOf[o])
  <1>1. ASSUME InstallerInv, [InstallAction]_installVars
        PROVE  [Step]_installVars
    <2>1. ASSUME config' = Merged(install.before), install.step = "write_json"
          PROVE  Step
      <3>1. /\ install.opt \in Options /\ install.before \in Docs /\ toml = install.opt
            /\ windows => cmd = LauncherOf[install.opt]
            /\ install.before.servers = config.servers
        BY <1>1, <2>1 DEF InstallerInv, InstallerTypeOK, Runs, FilesInv, ConfigInv, Written
      <3> QED
        BY <2>1, <3>1, MergedDoc
    <2>2. CASE DesktopEdits
      <3>1. config'.servers = config.servers \/ \A o \in Options : config'.servers[o] = "absent"
        <4>1. CASE config.kind = "missing"
          BY <2>2, <4>1 DEF DesktopEdits, EmptyDoc
        <4>2. CASE config.kind # "missing"
          BY <1>1, <2>2, <4>2 DEF DesktopEdits, InstallerInv, InstallerTypeOK, Docs
        <4> QED
          BY <4>1, <4>2
      <3> QED
        BY <3>1
    <2>3. CASE config' = config
      BY <2>3
    <2>4. \/ config' = config \/ DesktopEdits
          \/ config' = Merged(install.before) /\ install.step = "write_json"
          \/ UNCHANGED installVars
      BY <1>1 DEF InstallAction, InstallStep, StartInstall, PlanInstall, ReadToml, WriteToml, ReadCmd,
                  WriteCmd, Validate, Backup, WriteJson, RevertToml, RevertCmd, KillInstall, disk
    <2> QED
      BY <2>1, <2>2, <2>3, <2>4
  <1>2. InstallerInv /\ [Next]_vars => [Step]_installVars
    BY <1>1, StepsOfTheParts
  <1> QED
    BY <1>2, InstallerInvariant, PTL DEF Spec, EntriesPointAtTheirFiles

\* The user's configuration is in a backup when a run replaces it.
THEOREM ReplacedIsBackedUp == Spec => ReplacedConfigIsBackedUp
  <1> DEFINE Step == config' # config /\ install.step = "write_json" /\ ~install.raced
                        /\ edits' = edits
                     => config \in backups
  <1>1. InstallerInv => [Step]_installVars
    BY DEF InstallerInv, ConfigInv
  <1> QED
    BY <1>1, InstallerInvariant, PTL DEF Spec, ReplacedConfigIsBackedUp

-----------------------------------------------------------------------------
(* The lifespan adapter. *)

\* How the manager, the flags and the counters hang together: the manager is
\* entered between the one completed __aenter__ and the one __aexit__, a finalized
\* instance has none, and an instance that failed to start never starts.
LifespanInv ==
    /\ manager \in {"none", "entering", "entered"}
    /\ started \in BOOLEAN /\ finalized \in BOOLEAN /\ broken \in BOOLEAN
    /\ ready \in BOOLEAN
    /\ enters \in Int /\ exits \in Int
    /\ manager = "entering" <=> at = "entering"
    /\ enters = IF started THEN 1 ELSE 0
    /\ exits = IF manager = "entered" THEN enters - 1 ELSE enters
    /\ manager = "entered" => started
    /\ manager = "entering" => ~started
    /\ finalized => manager = "none"
    /\ broken => finalized /\ ~started
    /\ at = "warming" => manager = "entered"
    /\ at = "exiting" => manager = "none"
    /\ at = "receiving" => manager = "entered" /\ ready /\ answer = "startup.complete"
    /\ answer = "shutdown.complete" /\ at = "closed" => manager = "none"
    /\ ready => started

LEMMA LifespanStarts == LifespanInit => LifespanInv
  <1> SUFFICES ASSUME LifespanInit PROVE LifespanInv
    OBVIOUS
  <1>1. ~started /\ ~finalized /\ ~broken /\ ~ready
    BY DEF LifespanInit
  <1>2. started \in BOOLEAN /\ finalized \in BOOLEAN /\ broken \in BOOLEAN /\ ready \in BOOLEAN
    BY DEF LifespanInit
  <1> QED
    BY <1>1, <1>2 DEF LifespanInit, LifespanInv

LEMMA LifespanKeeps ==
    LifespanInv /\ [HostStep \/ LifespanStep]_lifeVars => LifespanInv'
  <1> SUFFICES ASSUME LifespanInv, [HostStep \/ LifespanStep]_lifeVars
               PROVE  LifespanInv'
    OBVIOUS
  <1>1. CASE Startup
    BY <1>1 DEF LifespanInv, Startup, Deliver, Reply, Await
  <1>2. CASE Shutdown
    <2>1. CASE finalized
      BY <1>2, <2>1 DEF LifespanInv, Shutdown, Deliver, Reply
    <2>2. CASE ~finalized /\ manager # "none"
      BY <1>2, <2>2 DEF LifespanInv, Shutdown, Deliver, Await
    <2>3. CASE ~finalized /\ manager = "none"
      BY <1>2, <2>3 DEF LifespanInv, Shutdown, Deliver, Reply
    <2> QED
      BY <2>1, <2>2, <2>3 DEF LifespanInv
  <1>3. CASE CloseScope
    BY <1>3 DEF LifespanInv, CloseScope
  <1>4. CASE Request
    BY <1>4 DEF LifespanInv, Request, Built
  <1>5. CASE EnterEnds
    <2>1. CASE manager' = "entered"
      BY <1>5, <2>1 DEF LifespanInv, EnterEnds, Await
    <2>2. CASE manager' = "none" /\ Reply("startup.failed")
      BY <1>5, <2>2 DEF LifespanInv, EnterEnds, Reply
    <2>3. CASE manager' = "none" /\ Cut
      BY <1>5, <2>3 DEF LifespanInv, EnterEnds, Cut
    <2> QED
      BY <1>5, <2>1, <2>2, <2>3 DEF EnterEnds
  <1>6. CASE WarmUpEnds
    BY <1>6 DEF LifespanInv, WarmUpEnds, Reply, Cut
  <1>7. CASE ExitEnds
    BY <1>7 DEF LifespanInv, ExitEnds, Reply, Cut
  <1>8. CASE UNCHANGED lifeVars
    BY <1>8 DEF LifespanInv, lifeVars
  <1> QED
    BY <1>1, <1>2, <1>3, <1>4, <1>5, <1>6, <1>7, <1>8 DEF HostStep, LifespanStep

LEMMA LifespanInvariant == Spec => []LifespanInv
  <1>1. Init => LifespanInv
    BY LifespanStarts DEF Init
  <1>2. LifespanInv /\ [Next]_vars => LifespanInv'
    BY LifespanKeeps, StepsOfTheParts
  <1> QED
    BY <1>1, <1>2, PTL DEF Spec

\* FastMCP's session manager is left at most once, and never one whose __aenter__
\* failed, whatever the host sends, however often (_SessionManagerLifespan).
THEOREM ManagerIsLeftOnce == Spec => []ManagerLeftOnce
  <1>1. LifespanInv => ManagerLeftOnce
    BY DEF LifespanInv, ManagerLeftOnce
  <1> QED
    BY <1>1, LifespanInvariant, PTL

\* What the host and /readyz are told is so.
THEOREM AcknowledgementsAreTrue == Spec => []AcksAreTrue
  <1>1. LifespanInv => AcksAreTrue
    BY DEF LifespanInv, AcksAreTrue
  <1> QED
    BY <1>1, LifespanInvariant, PTL

-----------------------------------------------------------------------------
(* The opening of the memory. *)

TurnRecords ==
    [at : OnThread \cup {"running", "ending", "over"}, search : {"none", "found", "failed"},
     told : {"nothing", "answer", "memory unavailable"}]

\* A client stays; an open that succeeded, or failed and was not followed by one
\* that succeeded, has left its mark.
MemoryInv ==
    /\ client \in BOOLEAN /\ openError \in BOOLEAN /\ opened \in BOOLEAN
    /\ turn \in [Turns -> TurnRecords]
    /\ client => opened
    /\ \A t \in Turns :
          /\ turn[t].at \in {"opened", "cleared"} => opened
          /\ turn[t].search = "found" => client
          /\ turn[t].search = "failed" => opened \/ openError
          /\ turn[t].at = "ending" => turn[t].search # "found"
          /\ turn[t].at \in OnThread => turn[t].search = "none"
    /\ OpenErrorIsTrue

LEMMA MemoryStarts == MemoryOpenInit => MemoryInv
  <1> SUFFICES ASSUME MemoryOpenInit PROVE MemoryInv
    OBVIOUS
  <1>1. client \in BOOLEAN /\ openError \in BOOLEAN /\ opened \in BOOLEAN /\ ~client
    BY DEF MemoryOpenInit
  <1>2. /\ turn \in [Turns -> TurnRecords]
        /\ \A t \in Turns : turn[t].at = "running" /\ turn[t].search = "none"
    BY DEF MemoryOpenInit, TurnRecords
  <1> QED
    BY <1>1, <1>2 DEF MemoryInv, OpenErrorIsTrue, OnThread

\* One turn moves, the others stay.
LEMMA TurnMoves ==
    ASSUME MemoryInv, NEW t \in Turns, NEW r \in TurnRecords,
           turn' = [turn EXCEPT ![t] = r],
           client' \in BOOLEAN, openError' \in BOOLEAN, opened' \in BOOLEAN,
           client => client', opened => opened', openError => openError' \/ opened',
           client' => opened',
           r.at \in {"opened", "cleared"} => opened',
           r.search = "found" => client',
           r.search = "failed" => opened' \/ openError',
           r.at = "ending" => r.search # "found",
           r.at \in OnThread => r.search = "none",
           r.at = "over" => /\ r.search = "found" => r.told = "answer"
                            /\ r.search = "failed" /\ ~opened' => r.told = "memory unavailable"
    PROVE  MemoryInv'
  <1>1. turn' \in [Turns -> TurnRecords]
    BY DEF MemoryInv
  <1>2. turn'[t] = r /\ \A u \in Turns \ {t} : turn'[u] = turn[u]
    BY DEF MemoryInv
  <1> QED
    BY <1>1, <1>2 DEF MemoryInv, OpenErrorIsTrue

LEMMA MemoryKeeps == MemoryInv /\ [\E t \in Turns : MemoryStep(t)]_memoryVars => MemoryInv'
  <1> SUFFICES ASSUME MemoryInv, [\E t \in Turns : MemoryStep(t)]_memoryVars
               PROVE  MemoryInv'
    OBVIOUS
  <1>1. ASSUME NEW t \in Turns, MemoryStep(t)
        PROVE  MemoryInv'
    <2> DEFINE Goes_(place) == [turn[t] EXCEPT !.at = place]
               Found_(how) == [turn[t] EXCEPT !.at = "running", !.search = how]
               Over_(what) == [turn[t] EXCEPT !.at = "over", !.told = what]
    <2>1. turn[t] \in TurnRecords
      BY DEF MemoryInv
    <2>2. CASE SearchStarts(t)
      <3>1. UNCHANGED <<client, openError, opened>> /\ turn[t].at = "running" /\ turn[t].search = "none"
        BY <2>2 DEF SearchStarts
      <3>2. CASE client
        <4>1. turn' = [turn EXCEPT ![t] = Found_("found")]
          BY <2>2, <3>2 DEF SearchStarts, SearchEnds
        <4> QED
          BY <2>1, <3>1, <3>2, <4>1, TurnMoves DEF TurnRecords, MemoryInv, OnThread
      <3>3. CASE ~client
        <4>1. turn' = [turn EXCEPT ![t] = Goes_("opening")]
          BY <2>2, <3>3 DEF SearchStarts, Goes
        <4> QED
          BY <2>1, <3>1, <4>1, TurnMoves DEF TurnRecords, MemoryInv, OnThread
      <3> QED
        BY <3>2, <3>3
    <2>3. CASE OpenEnds(t)
      <3>1. UNCHANGED <<client, openError>> /\ turn[t].at = "opening" /\ turn[t].search = "none"
        BY <2>3 DEF OpenEnds, MemoryInv, OnThread
      <3>2. CASE Goes(t, "opened") /\ opened' = TRUE
        <4>1. turn' = [turn EXCEPT ![t] = Goes_("opened")] /\ opened' \in BOOLEAN /\ opened'
          BY <3>2 DEF Goes
        <4> QED
          BY <2>1, <3>1, <4>1, TurnMoves DEF TurnRecords, MemoryInv, OnThread
      <3>3. CASE Goes(t, "raised") /\ UNCHANGED opened
        <4>1. turn' = [turn EXCEPT ![t] = Goes_("raised")] /\ UNCHANGED opened
          BY <3>3 DEF Goes
        <4> QED
          BY <2>1, <3>1, <4>1, TurnMoves DEF TurnRecords, MemoryInv, OnThread
      <3> QED
        BY <2>3, <3>2, <3>3 DEF OpenEnds
    <2>4. CASE ErrorCleared(t)
      <3>1. /\ UNCHANGED <<client, opened>> /\ turn[t].at = "opened" /\ turn[t].search = "none"
            /\ opened /\ openError' \in BOOLEAN
        BY <2>4 DEF ErrorCleared, MemoryInv, OnThread
      <3>2. turn' = [turn EXCEPT ![t] = Goes_("cleared")]
        BY <2>4 DEF ErrorCleared, Goes
      <3> QED
        BY <2>1, <3>1, <3>2, TurnMoves DEF TurnRecords, MemoryInv, OnThread
    <2>5. CASE ClientSet(t)
      <3>1. /\ UNCHANGED <<openError, opened>> /\ opened /\ client' \in BOOLEAN /\ client'
        BY <2>5 DEF ClientSet, MemoryInv
      <3>2. turn' = [turn EXCEPT ![t] = Found_("found")]
        BY <2>5 DEF ClientSet, SearchEnds
      <3> QED
        BY <2>1, <3>1, <3>2, TurnMoves DEF TurnRecords, MemoryInv, OnThread
    <2>6. CASE ErrorSet(t)
      <3>1. /\ UNCHANGED <<client, opened>> /\ openError' \in BOOLEAN /\ openError'
        BY <2>6 DEF ErrorSet
      <3>2. turn' = [turn EXCEPT ![t] = Found_("failed")]
        BY <2>6 DEF ErrorSet, SearchEnds
      <3> QED
        BY <2>1, <3>1, <3>2, TurnMoves DEF TurnRecords, MemoryInv, OnThread
    <2>7. CASE TurnEnds(t)
      <3>1. UNCHANGED <<client, openError, opened>> /\ turn[t].at = "running"
        BY <2>7 DEF TurnEnds
      <3>2. CASE client
        <4>1. turn' = [turn EXCEPT ![t] = Over_("answer")]
          BY <2>7, <3>2 DEF TurnEnds, Told
        <4> QED
          BY <2>1, <3>1, <3>2, <4>1, TurnMoves DEF TurnRecords, MemoryInv, OnThread
      <3>3. CASE ~client
        <4>1. turn' = [turn EXCEPT ![t] = Goes_("ending")]
          BY <2>7, <3>3 DEF TurnEnds, Goes
        <4> QED
          BY <2>1, <3>1, <3>3, <4>1, TurnMoves DEF TurnRecords, MemoryInv, OnThread
      <3> QED
        BY <3>2, <3>3
    <2>8. CASE ErrorRead(t)
      <3>1. /\ UNCHANGED <<client, openError, opened>>
            /\ turn[t].search # "found" /\ (turn[t].search = "failed" => opened \/ openError)
        BY <2>8 DEF ErrorRead, MemoryInv
      <3>2. turn' = [turn EXCEPT ![t] = Over_(IF openError THEN "memory unavailable" ELSE "answer")]
        BY <2>8 DEF ErrorRead, Told
      <3> QED
        BY ZenonT(30), <2>1, <3>1, <3>2, TurnMoves DEF TurnRecords, MemoryInv, OnThread
    <2> QED
      BY <1>1, <2>2, <2>3, <2>4, <2>5, <2>6, <2>7, <2>8 DEF MemoryStep
  <1>2. CASE UNCHANGED memoryVars
    BY <1>2 DEF MemoryInv, memoryVars, OpenErrorIsTrue
  <1> QED
    BY <1>1, <1>2

\* Whichever thread opens the memory, and however its steps fall between another's:
\* a turn that found the memory open is not told that it is unavailable, and one
\* that could not open it is told so unless another open succeeded (open_error).
THEOREM OpenErrorHolds == Spec => []OpenErrorIsTrue
  <1>1. Init => MemoryInv
    BY MemoryStarts DEF Init
  <1>2. MemoryInv /\ [Next]_vars => MemoryInv'
    BY MemoryKeeps, StepsOfTheParts
  <1>3. MemoryInv => OpenErrorIsTrue
    BY DEF MemoryInv
  <1> QED
    BY <1>1, <1>2, <1>3, PTL DEF Spec

-----------------------------------------------------------------------------
(* The golden set. *)

\* Every case that passed was answered by the expected statement.
VerifyInv ==
    /\ verify \in [step : {"start", "asking", "over"}, cases : 0 .. MaxCases,
                   tolerance : Tolerances \cup {None, NaN}, exit : {0, 1, 2, 130}]
    /\ results \in Seq(Verdicts) /\ answers \in Seq(Sqls) /\ Len(answers) = Len(results)
    /\ \A i \in 1 .. Len(results) : results[i] = "PASS" => answers[i] = "same"
    /\ GreenMeansVerified

LEMMA VerifyStarts == VerifyInit => VerifyInv
  BY VerificationAssumption DEF VerifyInit, VerifyInv, GreenMeansVerified

\* There are no more passing cases than agreeing answers, and no more of these
\* than cases.
LEMMA PassedAgree ==
    ASSUME VerifyInv
    PROVE  /\ Count("PASS") \in Nat /\ Cardinality(Agreeing) \in Nat
           /\ Count("PASS") <= Cardinality(Agreeing)
           /\ Cardinality(Agreeing) <= Len(results)
           /\ Agreeing = {} => Count("PASS") = 0
  <1> DEFINE Passed == {i \in DOMAIN results : results[i] = "PASS"}
  <1>1. Passed \subseteq Agreeing /\ Agreeing \subseteq 1 .. Len(results)
    BY DEF VerifyInv, Agreeing
  <1>2. IsFiniteSet(1 .. Len(results)) /\ Cardinality(1 .. Len(results)) = Len(results)
    <2>1. Len(results) \in Nat
      BY DEF VerifyInv
    <2> QED
      BY SMTT(30), <2>1, FS_Interval
  <1>3. /\ IsFiniteSet(Agreeing) /\ Cardinality(Agreeing) <= Len(results)
        /\ IsFiniteSet(Passed) /\ Cardinality(Passed) <= Cardinality(Agreeing)
    BY <1>1, <1>2, FS_Subset
  <1>4. Cardinality(Passed) \in Nat /\ Cardinality(Agreeing) \in Nat
    BY <1>3, FS_CardinalityType
  <1>5. Agreeing = {} => Cardinality(Passed) = 0
    BY <1>1, FS_EmptySet
  <1> QED
    BY <1>3, <1>4, <1>5 DEF Count

LEMMA VerifyKeeps == VerifyInv /\ [VerifyStep]_verifyVars => VerifyInv'
  <1> SUFFICES ASSUME VerifyInv, [VerifyStep]_verifyVars
               PROVE  VerifyInv'
    OBVIOUS
  <1>1. CASE LoadGolden
    <2>1. CASE verify' = [verify EXCEPT !.step = "asking"]
      BY <1>1, <2>1 DEF VerifyInv, LoadGolden, GreenMeansVerified
    <2>2. ASSUME NEW code \in {1, 2}, Exit(code)
          PROVE  VerifyInv'
      <3>1. verify' = [verify EXCEPT !.step = "over", !.exit = code] /\ UNCHANGED <<results, answers>>
        BY <1>1, <2>2 DEF LoadGolden, Exit
      <3>2. verify'.exit # 0
        BY <3>1 DEF VerifyInv
      <3> QED
        BY <3>1, <3>2 DEF VerifyInv, GreenMeansVerified
    <2> QED
      BY <1>1, <2>1, <2>2 DEF LoadGolden
  <1>2. CASE AskCase
    <2>1. PICK sql \in Sqls, fails \in BOOLEAN :
              /\ results' = Append(results, IF fails THEN "ERROR" ELSE Verdict(sql))
              /\ answers' = Append(answers, IF fails THEN "none" ELSE sql)
      BY <1>2 DEF AskCase
    <2>2. /\ (IF fails THEN "ERROR" ELSE Verdict(sql)) \in Verdicts
          /\ (IF fails THEN "none" ELSE sql) \in Sqls
          /\ (IF fails THEN "ERROR" ELSE Verdict(sql)) = "PASS" =>
                (IF fails THEN "none" ELSE sql) = "same"
      BY DEF Verdict, Verdicts, Sqls
    <2>3. results' \in Seq(Verdicts) /\ answers' \in Seq(Sqls) /\ Len(answers') = Len(results')
      BY <2>1, <2>2 DEF VerifyInv
    <2>4. \A i \in 1 .. Len(results') : results'[i] = "PASS" => answers'[i] = "same"
      BY <2>1, <2>2 DEF VerifyInv
    <2>5. verify' = verify /\ verify.step = "asking"
      BY <1>2 DEF AskCase
    <2> QED
      BY <2>3, <2>4, <2>5 DEF VerifyInv, GreenMeansVerified
  <1>3. CASE Report
    <2>1. /\ verify' = [verify EXCEPT !.step = "over", !.exit = ExitCode]
          /\ results' = results /\ answers' = answers /\ Len(results) = verify.cases
      BY <1>3 DEF Report, Exit
    <2>2. ExitCode \in {0, 1}
      BY DEF ExitCode
    <2>3. GreenMeansVerified'
      <3>1. CASE ExitCode = 1
        BY <2>1, <3>1 DEF GreenMeansVerified, VerifyInv
      <3>2. CASE ExitCode = 0
        <4>1. /\ Len(results) # 0
              /\ verify.tolerance = None => Count("PASS") = Len(results)
              /\ verify.tolerance # None =>
                    /\ Count("PASS") # 0 /\ verify.tolerance # NaN
                    /\ ~(Count("PASS") * Whole < verify.tolerance * Len(results))
          BY <3>2 DEF ExitCode
        <4>2. verify.tolerance # None => verify.tolerance * Len(results) \in Int
          <5>1. verify.tolerance # None => verify.tolerance \in Int
            <6>1. verify.tolerance \in Tolerances \cup {None, NaN}
              BY DEF VerifyInv
            <6>2. \A t \in Tolerances : t \in Int
              BY VerificationAssumption DEF Whole
            <6> QED
              BY <6>1, <6>2 DEF NaN
          <5>2. Len(results) \in Int
            BY DEF VerifyInv
          <5> QED
            BY <5>1, <5>2
        <4>3. verify.tolerance # None =>
                 /\ verify.tolerance # NaN
                 /\ Cardinality(Agreeing) * Whole >= verify.tolerance * Len(results)
          BY <4>1, <4>2, PassedAgree DEF Whole
        <4>4. verify.tolerance = None => Cardinality(Agreeing) = Len(results)
          BY <4>1, PassedAgree DEF VerifyInv
        <4>5. Agreeing # {}
          BY <4>1, PassedAgree DEF VerifyInv
        <4>6. Agreeing' = Agreeing
          BY <2>1 DEF Agreeing
        <4>7. verify'.tolerance = verify.tolerance /\ verify'.cases = Len(results)
          BY <2>1 DEF VerifyInv
        <4> QED
          BY <2>1, <4>3, <4>4, <4>5, <4>6, <4>7 DEF GreenMeansVerified, VerifyInv
      <3> QED
        BY <2>2, <3>1, <3>2
    <2> QED
      BY <2>1, <2>2, <2>3 DEF VerifyInv
  <1>4. CASE Interrupt
    <2>1. verify' = [verify EXCEPT !.step = "over", !.exit = 130] /\ UNCHANGED <<results, answers>>
      BY <1>4 DEF Interrupt, Exit
    <2>2. verify'.exit # 0
      BY <2>1 DEF VerifyInv
    <2> QED
      BY <2>1, <2>2 DEF VerifyInv, GreenMeansVerified
  <1>5. CASE UNCHANGED verifyVars
    BY <1>5 DEF VerifyInv, verifyVars, GreenMeansVerified, Agreeing
  <1> QED
    BY <1>1, <1>2, <1>3, <1>4, <1>5 DEF VerifyStep

\* A verification that exits with 0 has put every case of the golden set, and the
\* agent's SQL was the expected one as often as was asked for (_exit_for_report).
THEOREM GreenIsVerified == Spec => []GreenMeansVerified
  <1>1. Init => VerifyInv
    BY VerifyStarts DEF Init
  <1>2. VerifyInv /\ [Next]_vars => VerifyInv'
    BY VerifyKeeps, StepsOfTheParts
  <1>3. VerifyInv => GreenMeansVerified
    BY DEF VerifyInv
  <1> QED
    BY <1>1, <1>2, <1>3, PTL DEF Spec

-----------------------------------------------------------------------------
(* The server. *)

Fields == {"cmd", "step", "cfg", "todo", "exit", "auth", "full"}
Under == {"load", "guard", "probe", "serving"}

\* What is left of all the probes.
QueueTails == {Probes, <<"llm", "memory", "auth">>, <<"memory", "auth">>, <<"auth">>, <<>>}

BindAllowed(c) == PolicyViolated(c) => c.insecure
DatabasePasses(c) == IF c.readOnly THEN db = "database" ELSE db # "unreachable"
StorePasses == storeDir \in {"missing", "writable"}

\* A configuration, a database and a store that `serve` starts with.
Servable ==
    LET c == Effective(file, env)
    IN  Loadable(file, env) /\ c.key /\ BindAllowed(c) /\ DatabasePasses(c) /\ StorePasses

DeployInv ==
    /\ proc = [f \in Fields |-> proc[f]]
    /\ file \in Files /\ env \in Environs
    /\ cleared \in BOOLEAN /\ proc.full \in BOOLEAN
    /\ proc.step \in Under => proc.cmd \in {"validate", "serve", "embed"}
    /\ proc.step \in {"guard", "probe", "serving"} =>
          AuthAccepted(proc.cfg) /\ proc.cfg.mode \in {"none", "bearer", "jwt"}
    /\ proc.step \in {"probe", "serving"} =>
          /\ BindAllowed(proc.cfg)
          /\ proc.cmd = "embed" => (OpenBind(proc.cfg) => proc.cfg.insecure)
    /\ proc.step = "serving" /\ OverHttp => proc.auth = Authenticator(proc.cfg)

\* What a `validate` under way has found, and what it has cleared, still holds.
ClearedInv ==
    /\ cleared => Servable
    /\ (cleared \/ proc.full) /\ proc.step \in {"guard", "probe"} =>
          Loadable(file, env) /\ proc.cfg = Effective(file, env)
    /\ proc.step \in Under /\ (proc.full \/ proc.cmd = "serve") => proc.todo \in QueueTails
    /\ proc.full /\ proc.step \in {"load", "guard"} => proc.todo = Probes
    /\ proc.full /\ proc.step = "probe" =>
          /\ proc.todo # Probes => DatabasePasses(proc.cfg)
          /\ proc.todo \in {<<"auth">>, <<>>} => StorePasses
    /\ ValidatedServes

LEMMA ModeOfEffective ==
    ASSUME NEW f \in Files, NEW e \in Environs
    PROVE  Effective(f, e).mode \in {"none", "bearer", "jwt"}
  <1>1. f \in FileType
    BY DeploymentAssumption
  <1>2. f.mode \in {"none", "bearer", "jwt"}
    BY <1>1 DEF FileType
  <1> QED
    BY <1>2 DEF Effective, NoConfig

LEMMA DeployStarts == DeployInit => DeployInv /\ ClearedInv
  <1> SUFFICES ASSUME DeployInit PROVE DeployInv /\ ClearedInv
    OBVIOUS
  <1>1. /\ proc.step = "new" /\ proc.full = FALSE /\ cleared = FALSE
        /\ file \in Files /\ env \in Environs
    BY DEF DeployInit
  <1>2. proc = [f \in Fields |-> proc[f]]
    BY DEF DeployInit, Fields
  <1>3. DeployInv
    BY <1>1, <1>2 DEF DeployInv, Under
  <1>4. ClearedInv
    BY <1>1 DEF ClearedInv, Under, ValidatedServes
  <1> QED
    BY <1>3, <1>4

\* A command begins.
LEMMA BeginKeeps ==
    ASSUME DeployInv, ClearedInv, NEW cmd_ \in {"validate", "serve", "embed"}, NEW todo_,
           cmd_ = "serve" => todo_ \in QueueTails,
           Begin(cmd_, todo_)
    PROVE  DeployInv' /\ ClearedInv'
  <1>1. proc' = [proc EXCEPT !.cmd = cmd_, !.step = "load", !.cfg = NoConfig, !.todo = todo_,
                             !.exit = 0, !.auth = "none", !.full = (todo_ = Probes)]
    BY DEF Begin
  <1>2. /\ proc'.cmd = cmd_ /\ proc'.step = "load" /\ proc'.todo = todo_
        /\ proc'.full = (todo_ = Probes)
        /\ proc' = [f \in Fields |-> proc'[f]]
    BY <1>1 DEF DeployInv, Fields
  <1>3. UNCHANGED <<file, env, db, storeDir, cleared>>
    BY DEF Begin, infra
  <1>4. DeployInv'
    BY <1>2, <1>3 DEF DeployInv, Under
  <1>5. Servable' <=> Servable
    BY <1>3 DEF Servable, DatabasePasses, StorePasses
  <1>6. ClearedInv'
    BY <1>2, <1>3, <1>5 DEF ClearedInv, Under, QueueTails, ValidatedServes
  <1> QED
    BY <1>4, <1>6

\* A command ends before it serves; if it is `serve`, nothing was cleared.
LEMMA EndKeeps ==
    ASSUME DeployInv, ClearedInv, NEW code, End(code),
           UNCHANGED <<file, env, cleared>>, cleared => Servable',
           proc.cmd = "serve" /\ code = 2 => ~cleared
    PROVE  DeployInv' /\ ClearedInv'
  <1>1. /\ proc'.cmd = proc.cmd /\ proc'.step = "ended" /\ proc'.full = FALSE /\ proc'.exit = code
        /\ proc' = [f \in Fields |-> proc'[f]]
    BY DEF End, DeployInv, Fields
  <1>2. DeployInv'
    BY <1>1 DEF DeployInv, Under
  <1>3. ClearedInv'
    BY <1>1 DEF ClearedInv, Under, ValidatedServes
  <1> QED
    BY <1>2, <1>3

LEMMA InitCommandKeeps ==
    ASSUME DeployInv, ClearedInv, NEW force \in BOOLEAN, InitCommand(force)
    PROVE  DeployInv' /\ ClearedInv'
  <1>1. /\ proc'.cmd = "init" /\ proc'.step = "ended" /\ proc'.full = proc.full
        /\ proc' = [f \in Fields |-> proc'[f]]
    BY DEF InitCommand, DeployInv, Fields
  <1>2. /\ file' \in Files /\ cleared' \in BOOLEAN
        /\ env' = env /\ db' = db /\ storeDir' = storeDir
        /\ cleared' => cleared /\ file' = file
    <2>1. /\ file \in Files /\ Sample \in Files /\ cleared \in BOOLEAN
      BY DeploymentAssumption DEF DeployInv
    <2>2. UNCHANGED <<env, db, storeDir>>
      BY DEF InitCommand, infra
    <2>3. (file' = Sample /\ cleared' \in BOOLEAN /\ ~cleared') \/ UNCHANGED <<file, cleared>>
      BY DEF InitCommand
    <2> QED
      BY <2>1, <2>2, <2>3
  <1>3. DeployInv'
    BY <1>1, <1>2 DEF DeployInv, Under
  <1>4. cleared' => Servable'
    BY <1>2 DEF ClearedInv, Servable, DatabasePasses, StorePasses
  <1>5. ClearedInv'
    BY <1>1, <1>4 DEF ClearedInv, Under, ValidatedServes
  <1> QED
    BY <1>3, <1>5

LEMMA LoadConfigKeeps ==
    ASSUME DeployInv, ClearedInv, LoadConfig
    PROVE  DeployInv' /\ ClearedInv'
  <1>1. UNCHANGED <<file, env, db, storeDir, cleared>> /\ proc.step = "load"
    BY DEF LoadConfig, infra
  <1>2. CASE ~Loadable(file, env)
    <2>1. End(2)
      BY <1>2 DEF LoadConfig
    <2>2. proc.cmd = "serve" => ~cleared
      BY <1>2 DEF ClearedInv, Servable
    <2>3. cleared => Servable'
      BY <1>1 DEF ClearedInv, Servable, DatabasePasses, StorePasses
    <2> QED
      BY <1>1, <2>1, <2>2, <2>3, EndKeeps
  <1>3. CASE Loadable(file, env)
    <2>1. proc' = [proc EXCEPT !.step = "guard", !.cfg = Effective(file, env)]
      BY <1>3 DEF LoadConfig
    <2>2. /\ proc'.cmd = proc.cmd /\ proc'.step = "guard" /\ proc'.todo = proc.todo
          /\ proc'.full = proc.full /\ proc'.cfg = Effective(file, env)
          /\ proc' = [f \in Fields |-> proc'[f]]
      BY <2>1 DEF DeployInv, Fields
    <2>3. AuthAccepted(proc'.cfg) /\ proc'.cfg.mode \in {"none", "bearer", "jwt"}
      BY <1>3, <2>2, ModeOfEffective DEF DeployInv, Loadable
    <2>4. DeployInv'
      BY <1>1, <2>2, <2>3 DEF DeployInv, Under
    <2>5. (Servable' <=> Servable) /\ Loadable(file, env)'
      BY <1>1, <1>3 DEF Servable, DatabasePasses, StorePasses
    <2>6. Effective(file, env)' = Effective(file, env)
      BY <1>1
    <2>7. ClearedInv'
      BY <1>1, <2>2, <2>5, <2>6 DEF ClearedInv, Under, ValidatedServes
    <2> QED
      BY <2>4, <2>7
  <1> QED
    BY <1>2, <1>3

LEMMA GuardKeeps ==
    ASSUME DeployInv, ClearedInv, Guard
    PROVE  DeployInv' /\ ClearedInv'
  <1>1. UNCHANGED <<file, env, db, storeDir, cleared>> /\ proc.step = "guard"
    BY DEF Guard, infra
  <1>2. proc.cmd \in {"validate", "serve", "embed"}
    BY <1>1 DEF DeployInv, Under
  <1>3. CASE Refused
    <2>1. End(2)
      BY <1>3 DEF Guard
    <2>2. proc.cmd = "serve" => ~cleared
      BY <1>1, <1>3 DEF ClearedInv, Servable, Refused, BindAllowed
    <2>3. cleared => Servable'
      BY <1>1 DEF ClearedInv, Servable, DatabasePasses, StorePasses
    <2> QED
      BY <1>1, <2>1, <2>2, <2>3, EndKeeps
  <1>4. CASE ~Refused
    <2>1. proc' = [proc EXCEPT !.step = "probe"]
      BY <1>4 DEF Guard
    <2>2. /\ proc'.cmd = proc.cmd /\ proc'.step = "probe" /\ proc'.todo = proc.todo
          /\ proc'.full = proc.full /\ proc'.cfg = proc.cfg
          /\ proc' = [f \in Fields |-> proc'[f]]
      BY <2>1 DEF DeployInv, Fields
    <2>3. BindAllowed(proc.cfg) /\ (proc.cmd = "embed" => (OpenBind(proc.cfg) => proc.cfg.insecure))
      BY <1>2, <1>4 DEF Refused, BindAllowed, PolicyViolated
    <2>4. DeployInv'
      BY <1>1, <2>2, <2>3 DEF DeployInv, Under
    <2>5. (Servable' <=> Servable) /\ (Loadable(file, env)' <=> Loadable(file, env))
          /\ Effective(file, env)' = Effective(file, env)
      BY <1>1 DEF Servable, DatabasePasses, StorePasses
    <2>6. proc.full => proc.todo = Probes /\ proc.todo \notin {<<"auth">>, <<>>}
      BY <1>1 DEF ClearedInv, Probes
    <2>7. ClearedInv'
      BY <1>1, <2>2, <2>5, <2>6 DEF ClearedInv, Under, ValidatedServes, Probes
    <2> QED
      BY <2>4, <2>7
  <1> QED
    BY <1>3, <1>4

LEMMA ProbeNames == ProbeSet = {"database", "llm", "memory", "auth"}
  <1>1. Probes[1] = "database" /\ Probes[2] = "llm" /\ Probes[3] = "memory" /\ Probes[4] = "auth"
    BY DEF Probes
  <1>2. DOMAIN Probes = 1 .. 4
    BY DEF Probes
  <1> QED
    BY <1>1, <1>2 DEF ProbeSet, ToSet

\* The probes that are left are a suffix of all of them.
LEMMA SuffixStep ==
    ASSUME NEW todo_ \in QueueTails, todo_ # <<>>
    PROVE  /\ Tail(todo_) \in QueueTails /\ Tail(todo_) # Probes
           /\ Head(todo_) \in ProbeSet
           /\ Head(todo_) # "database" => todo_ # Probes
           /\ Tail(todo_) \in {<<"auth">>, <<>>} =>
                 Head(todo_) = "memory" \/ todo_ \in {<<"auth">>, <<>>}
  <1>1. CASE todo_ = Probes
    <2>1. Head(todo_) = "database" /\ Tail(todo_) = <<"llm", "memory", "auth">>
      BY <1>1 DEF Probes
    <2>2. Len(Tail(todo_)) = 3 /\ Len(Probes) = 4 /\ Len(<<"auth">>) = 1 /\ Len(<<>>) = 0
      BY <2>1 DEF Probes
    <2> QED
      BY <1>1, <2>1, <2>2, ProbeNames DEF QueueTails
  <1>2. CASE todo_ = <<"llm", "memory", "auth">>
    <2>1. Head(todo_) = "llm" /\ Tail(todo_) = <<"memory", "auth">>
      BY <1>2
    <2>2. /\ Len(todo_) = 3 /\ Len(Tail(todo_)) = 2
          /\ Len(Probes) = 4 /\ Len(<<"auth">>) = 1 /\ Len(<<>>) = 0
      BY <1>2, <2>1 DEF Probes
    <2> QED
      BY <1>2, <2>1, <2>2, ProbeNames DEF QueueTails
  <1>3. CASE todo_ = <<"memory", "auth">>
    <2>1. Head(todo_) = "memory" /\ Tail(todo_) = <<"auth">>
      BY <1>3
    <2>2. Len(todo_) = 2 /\ Len(Tail(todo_)) = 1 /\ Len(Probes) = 4
      BY <1>3, <2>1 DEF Probes
    <2> QED
      BY <1>3, <2>1, <2>2, ProbeNames DEF QueueTails
  <1>4. CASE todo_ = <<"auth">>
    <2>1. Head(todo_) = "auth" /\ Tail(todo_) = <<>>
      BY <1>4
    <2>2. Len(todo_) = 1 /\ Len(Tail(todo_)) = 0 /\ Len(Probes) = 4
      BY <1>4, <2>1 DEF Probes
    <2> QED
      BY <1>4, <2>1, <2>2, ProbeNames DEF QueueTails
  <1> QED
    BY <1>1, <1>2, <1>3, <1>4 DEF QueueTails

LEMMA ProbeKeeps ==
    ASSUME DeployInv, ClearedInv, Probe
    PROVE  DeployInv' /\ ClearedInv'
  <1> DEFINE p == Head(proc.todo)
             c == proc.cfg
  <1>1. UNCHANGED <<file, env, cleared>> /\ proc.step = "probe" /\ proc.todo # <<>>
    BY DEF Probe
  <1>2. /\ db' = db \/ (db = "missing" /\ ~c.readOnly /\ db' = "database")
        /\ storeDir' = storeDir \/ storeDir' = "writable"
    BY DEF Probe, ProbeDatabase, ProbeMemory, infra
  <1>3. /\ DatabasePasses(c) => IF c.readOnly THEN db' = "database" ELSE db' # "unreachable"
        /\ StorePasses => storeDir' \in {"missing", "writable"}
    BY <1>2 DEF DatabasePasses, StorePasses
  <1>4. cleared => Servable /\ c = Effective(file, env)
    BY <1>1 DEF ClearedInv
  <1>5. cleared => Servable'
    BY <1>1, <1>3, <1>4 DEF Servable, DatabasePasses, StorePasses
  <1>6. CASE ~Passes(p)
    <2>1. End(2)
      BY <1>6 DEF Probe
    <2>2. ASSUME proc.cmd = "serve", cleared
          PROVE  FALSE
      <3>1. p \in {"database", "llm", "memory", "auth"}
        BY <1>1, <2>2, SuffixStep, ProbeNames DEF ClearedInv, Under
      <3>2. DatabasePasses(c) /\ c.key /\ StorePasses /\ AuthAccepted(c)
        BY <1>1, <1>4, <2>2 DEF Servable, DeployInv
      <3> QED
        BY <1>6, <3>1, <3>2 DEF Passes, DatabasePasses, StorePasses, AuthAccepted
    <2> QED
      BY <1>1, <1>5, <2>1, <2>2, EndKeeps
  <1>7. CASE Passes(p)
    <2>1. proc' = [proc EXCEPT !.todo = Tail(@)]
      BY <1>7 DEF Probe
    <2>2. /\ proc'.cmd = proc.cmd /\ proc'.step = "probe" /\ proc'.todo = Tail(proc.todo)
          /\ proc'.full = proc.full /\ proc'.cfg = c
          /\ proc' = [f \in Fields |-> proc'[f]]
      BY <1>1, <2>1 DEF DeployInv, Fields
    <2>3. DeployInv'
      BY <1>1, <2>2 DEF DeployInv, Under
    <2>4. proc.full \/ proc.cmd = "serve" => proc'.todo \in QueueTails
      BY <1>1, <2>2, SuffixStep DEF ClearedInv, Under
    <2>5. ASSUME proc.full
          PROVE  DatabasePasses(c)
      <3>1. CASE proc.todo # Probes
        BY <1>1, <2>5, <3>1 DEF ClearedInv
      <3>2. CASE proc.todo = Probes
        <4>1. p = "database"
          BY <3>2 DEF Probes
        <4> QED
          BY <1>7, <4>1 DEF Passes, DatabasePasses
      <3> QED
        BY <3>1, <3>2
    <2>6. ASSUME proc.full, proc'.todo \in {<<"auth">>, <<>>}
          PROVE  StorePasses
      <3>1. p = "memory" \/ proc.todo \in {<<"auth">>, <<>>}
        BY <1>1, <2>2, <2>6, SuffixStep DEF ClearedInv, Under
      <3>2. CASE p = "memory"
        BY <1>7, <3>2 DEF Passes, StorePasses
      <3> QED
        BY <1>1, <2>6, <3>1, <3>2 DEF ClearedInv
    <2>7. /\ proc'.full => DatabasePasses(proc.cfg)'
          /\ proc'.full /\ proc'.todo \in {<<"auth">>, <<>>} => StorePasses'
      BY <1>3, <2>2, <2>5, <2>6 DEF DatabasePasses, StorePasses
    <2>8. (Loadable(file, env)' <=> Loadable(file, env))
          /\ Effective(file, env)' = Effective(file, env)
      BY <1>1
    <2>9. ClearedInv'
      BY <1>1, <1>5, <2>2, <2>4, <2>7, <2>8 DEF ClearedInv, Under, ValidatedServes
    <2> QED
      BY <2>3, <2>9
  <1> QED
    BY <1>6, <1>7

LEMMA ConcludeKeeps ==
    ASSUME DeployInv, ClearedInv, Conclude
    PROVE  DeployInv' /\ ClearedInv'
  <1>1. /\ UNCHANGED <<file, env, db, storeDir>>
        /\ proc.step = "probe" /\ proc.todo = <<>>
        /\ proc.cmd \in {"validate", "serve", "embed"}
    BY DEF Conclude, infra, DeployInv, Under
  <1>2. Servable' <=> Servable
    BY <1>1 DEF Servable, DatabasePasses, StorePasses
  <1>3. CASE proc.cmd = "validate"
    <2>1. /\ proc' = [proc EXCEPT !.step = "ended", !.exit = IF proc.cfg.key THEN 0 ELSE 1,
                                  !.cfg = NoConfig, !.todo = <<>>, !.full = FALSE]
          /\ cleared' = (cleared \/ (proc.cfg.key /\ proc.full))
      BY <1>3 DEF Conclude, End
    <2>2. /\ proc'.cmd = "validate" /\ proc'.step = "ended" /\ proc'.full = FALSE
          /\ proc' = [f \in Fields |-> proc'[f]]
      BY <1>3, <2>1 DEF DeployInv, Fields
    <2>3. cleared' \in BOOLEAN
      BY <2>1
    <2>4. DeployInv'
      BY <1>1, <2>2, <2>3 DEF DeployInv, Under
    <2>5. ASSUME proc.cfg.key, proc.full
          PROVE  Servable
      <3>1. proc.todo # Probes
        <4>1. Len(Probes) = 4 /\ Len(<<>>) = 0
          BY DEF Probes
        <4> QED
          BY <1>1, <4>1
      <3>2. DatabasePasses(proc.cfg) /\ StorePasses
        BY <1>1, <2>5, <3>1 DEF ClearedInv
      <3>3. Loadable(file, env) /\ proc.cfg = Effective(file, env) /\ BindAllowed(proc.cfg)
        BY <1>1, <2>5 DEF ClearedInv, DeployInv
      <3> QED
        BY <2>5, <3>2, <3>3 DEF Servable
    <2>6. cleared' => Servable
      BY <2>1, <2>5 DEF ClearedInv
    <2>7. ClearedInv'
      BY <1>2, <2>2, <2>6 DEF ClearedInv, Under, ValidatedServes
    <2> QED
      BY <2>4, <2>7
  <1>4. CASE End(1) /\ cleared' = cleared
    BY <1>1, <1>2, <1>4, EndKeeps DEF ClearedInv
  <1>5. CASE /\ proc.cmd # "validate" /\ cleared' = cleared
             /\ proc' = [proc EXCEPT !.step = "serving",
                           !.auth = IF OverHttp THEN Authenticator(proc.cfg) ELSE "none"]
    <2>1. proc' = [proc EXCEPT !.step = "serving",
                     !.auth = IF OverHttp THEN Authenticator(proc.cfg) ELSE "none"]
          /\ cleared' = cleared
      BY <1>5
    <2>2. /\ proc'.cmd = proc.cmd /\ proc'.step = "serving" /\ proc'.full = proc.full
          /\ proc'.cfg = proc.cfg /\ proc'.todo = proc.todo
          /\ (OverHttp' => proc'.auth = Authenticator(proc.cfg))
          /\ proc' = [f \in Fields |-> proc'[f]]
      BY <2>1 DEF DeployInv, Fields, OverHttp
    <2>3. DeployInv'
      BY <1>1, <2>1, <2>2 DEF DeployInv, Under
    <2>4. ClearedInv'
      BY <1>1, <1>2, <2>1, <2>2 DEF ClearedInv, Under, ValidatedServes
    <2> QED
      BY <2>3, <2>4
  <1> QED
    BY <1>3, <1>4, <1>5 DEF Conclude

LEMMA StopServingKeeps ==
    ASSUME DeployInv, ClearedInv, StopServing
    PROVE  DeployInv' /\ ClearedInv'
  <1>1. /\ UNCHANGED <<file, env, db, storeDir, cleared>>
        /\ proc' = [proc EXCEPT !.step = "stopped"]
    BY DEF StopServing, infra
  <1>2. /\ proc'.cmd = proc.cmd /\ proc'.step = "stopped" /\ proc'.full = proc.full
        /\ proc' = [f \in Fields |-> proc'[f]]
    BY <1>1 DEF DeployInv, Fields
  <1>3. DeployInv'
    BY <1>1, <1>2 DEF DeployInv, Under
  <1>4. Servable' <=> Servable
    BY <1>1 DEF Servable, DatabasePasses, StorePasses
  <1>5. ClearedInv'
    BY <1>1, <1>2, <1>4 DEF ClearedInv, Under, ValidatedServes
  <1> QED
    BY <1>3, <1>5

LEMMA OperatorKeeps ==
    ASSUME DeployInv, ClearedInv, OperatorChanges
    PROVE  DeployInv' /\ ClearedInv'
  <1>1. proc' = [proc EXCEPT !.full = FALSE] /\ cleared' \in BOOLEAN /\ ~cleared'
    BY DEF OperatorChanges
  <1>2. file' \in Files /\ env' \in Environs
    BY DEF OperatorChanges, DeployInv
  <1>3. /\ proc'.cmd = proc.cmd /\ proc'.step = proc.step /\ proc'.cfg = proc.cfg
        /\ proc'.auth = proc.auth /\ proc'.todo = proc.todo
        /\ proc'.full \in BOOLEAN /\ ~proc'.full
        /\ proc' = [f \in Fields |-> proc'[f]]
    BY <1>1 DEF DeployInv, Fields
  <1>4. DeployInv'
    BY <1>1, <1>2, <1>3 DEF DeployInv, OverHttp, Under
  <1>5. ClearedInv'
    BY <1>1, <1>3 DEF ClearedInv, Under, ValidatedServes
  <1> QED
    BY <1>4, <1>5

LEMMA DeployKeeps ==
    DeployInv /\ ClearedInv /\ [DeployAction]_deployVars => DeployInv' /\ ClearedInv'
  <1> SUFFICES ASSUME DeployInv, ClearedInv, [DeployAction]_deployVars
               PROVE  DeployInv' /\ ClearedInv'
    OBVIOUS
  <1>1. ASSUME NEW force \in BOOLEAN, InitCommand(force)
        PROVE  DeployInv' /\ ClearedInv'
    BY <1>1, InitCommandKeeps
  <1>2. ASSUME NEW checks \in SUBSET ProbeSet, ValidateCommand(checks)
        PROVE  DeployInv' /\ ClearedInv'
    BY <1>2, BeginKeeps DEF ValidateCommand
  <1>3. ASSUME NEW preflight \in BOOLEAN, ServeCommand(preflight)
        PROVE  DeployInv' /\ ClearedInv'
    <2>1. (IF preflight THEN Probes ELSE <<>>) \in QueueTails
      BY DEF QueueTails
    <2> QED
      BY <1>3, <2>1, BeginKeeps DEF ServeCommand
  <1>4. CASE Embed
    BY <1>4, BeginKeeps DEF Embed
  <1>5. CASE UNCHANGED deployVars
    <2>1. UNCHANGED <<file, env, db, storeDir, proc, cleared>>
      BY <1>5 DEF deployVars, infra
    <2>2. Servable' <=> Servable
      BY <2>1 DEF Servable, DatabasePasses, StorePasses
    <2> QED
      BY <2>1, <2>2 DEF DeployInv, ClearedInv, Under, OverHttp, ValidatedServes, DatabasePasses, StorePasses
  <1> QED
    BY <1>1, <1>2, <1>3, <1>4, <1>5, LoadConfigKeeps, GuardKeeps, ProbeKeeps, ConcludeKeeps,
       StopServingKeeps, OperatorKeeps DEF DeployAction, DeployStep

LEMMA DeployInvariant == Spec => [](DeployInv /\ ClearedInv)
  <1>1. Init => DeployInv /\ ClearedInv
    BY DeployStarts DEF Init
  <1>2. (DeployInv /\ ClearedInv) /\ [Next]_vars => (DeployInv /\ ClearedInv)'
    BY DeployKeeps, StepsOfTheParts
  <1> QED
    BY <1>1, <1>2, PTL DEF Spec

\* Whoever set a bearer token gets an HTTP server that asks for it, and an
\* unauthenticated one is bound to the loopback interface unless `insecure` was set;
\* for any files and environments, the embedding application's way included
\* (AuthConfig, the bind guards of serve and _build_asgi_app_bare,
\* build_authenticator).
THEOREM NotOpenByAccident == Spec => []NeverOpenByAccident
  <1>1. DeployInv => NeverOpenByAccident
    BY DEF DeployInv, NeverOpenByAccident, OverHttp, AuthAccepted, Authenticator, BindAllowed,
           PolicyViolated, OpenBind
  <1> QED
    BY <1>1, DeployInvariant, PTL

\* What a `validate` with every check has passed, `serve` does not refuse, until the
\* operator changes something: the probes themselves leave nothing worse behind.
THEOREM ValidatedServesHolds == Spec => []ValidatedServes
  <1>1. ClearedInv => ValidatedServes
    BY DEF ClearedInv
  <1> QED
    BY <1>1, DeployInvariant, PTL

-----------------------------------------------------------------------------
(* Types. *)

LEMMA LifespanTypes ==
    LifespanTypeOK /\ LifespanInv /\ [HostStep \/ LifespanStep]_lifeVars => LifespanTypeOK'
  <1> SUFFICES ASSUME LifespanTypeOK, LifespanInv, [HostStep \/ LifespanStep]_lifeVars
               PROVE  LifespanTypeOK'
    OBVIOUS
  <1>1. /\ manager' \in {"none", "entering", "entered"}
        /\ started' \in BOOLEAN /\ finalized' \in BOOLEAN /\ ready' \in BOOLEAN /\ broken' \in BOOLEAN
        /\ enters' \in Nat /\ exits' \in Nat
    <2>1. LifespanInv'
      BY LifespanKeeps
    <2> QED
      BY <2>1 DEF LifespanInv
  <1>2. /\ at' \in {"closed", "receiving", "entering", "warming", "exiting"}
        /\ message' \in {"none", "startup", "shutdown"} /\ answer' \in Answers
    BY DEF LifespanTypeOK, Answers, HostStep, LifespanStep, lifeVars, Startup, Shutdown, CloseScope,
           Request, EnterEnds, WarmUpEnds, ExitEnds, Reply, Cut, Await
  <1>3. agent' \in {"none", "built", "warm"}
    BY DEF LifespanTypeOK, HostStep, LifespanStep, lifeVars, Startup, Shutdown, CloseScope,
           Request, EnterEnds, WarmUpEnds, ExitEnds, Built
  <1>4. messages' \in 0 .. MaxMessages
    <2>1. messages' = messages \/ (messages < MaxMessages /\ messages' = messages + 1)
      BY DEF HostStep, LifespanStep, lifeVars, Startup, Shutdown, CloseScope, Request, EnterEnds,
             WarmUpEnds, ExitEnds, Deliver
    <2> QED
      BY <2>1, LifespanAssumption DEF LifespanTypeOK
  <1> QED
    BY <1>1, <1>2, <1>3, <1>4 DEF LifespanTypeOK

LEMMA VerifyTypes ==
    VerifyTypeOK /\ VerifyInv /\ [VerifyStep]_verifyVars => VerifyTypeOK'
  <1> SUFFICES ASSUME VerifyTypeOK, VerifyInv, [VerifyStep]_verifyVars
               PROVE  VerifyTypeOK'
    OBVIOUS
  <1>1. VerifyInv'
    BY VerifyKeeps
  <1>2. verify'.cases = verify.cases
    <2>1. \/ verify' = verify \/ verify' = [verify EXCEPT !.step = "asking"]
          \/ \E code \in {1, 2, 130, ExitCode} : Exit(code)
      BY DEF VerifyStep, verifyVars, LoadGolden, AskCase, Report, Interrupt
    <2>2. ASSUME NEW code, Exit(code) PROVE verify'.cases = verify.cases
      BY <2>2 DEF Exit, VerifyInv
    <2> QED
      BY <2>1, <2>2 DEF VerifyInv
  <1>3. Len(results') <= verify'.cases
    <2>1. CASE AskCase
      <3>1. Len(results) < verify.cases /\ Len(results') = Len(results) + 1
        BY <2>1 DEF AskCase, VerifyInv
      <3> QED
        BY <1>2, <3>1 DEF VerifyInv
    <2>2. CASE results' = results
      BY <1>2, <2>2 DEF VerifyTypeOK
    <2> QED
      BY <2>1, <2>2 DEF VerifyStep, verifyVars, LoadGolden, Report, Interrupt
  <1> QED
    BY <1>1, <1>3 DEF VerifyInv, VerifyTypeOK

ProcTypes ==
    /\ proc.cmd \in {"init", "validate", "serve", "embed"}
    /\ proc.step \in Idle \cup {"load", "guard", "probe", "serving"}
    /\ proc.exit \in 0 .. 2 /\ proc.auth \in {"none", "bearer"}

LEMMA DeployTypes ==
    DeployTypeOK /\ DeployInv /\ ClearedInv /\ [DeployAction]_deployVars => DeployTypeOK'
  <1> SUFFICES ASSUME DeployTypeOK, DeployInv, ClearedInv, [DeployAction]_deployVars
               PROVE  DeployTypeOK'
    OBVIOUS
  <1>1. /\ proc = [f \in Fields |-> proc[f]] /\ cleared' \in BOOLEAN /\ proc'.full \in BOOLEAN
        /\ file' \in Files /\ env' \in Environs
    BY DeployKeeps DEF DeployInv
  <1>2. db' \in Databases /\ storeDir' \in StoreDirs
    BY DEF DeployTypeOK, Databases, StoreDirs, DeployAction, DeployStep, deployVars, InitCommand,
           ValidateCommand, ServeCommand, Embed, Begin, LoadConfig, Guard, Probe, ProbeDatabase,
           ProbeMemory, Conclude, StopServing, OperatorChanges, infra
  <1>3. commands' \in 0 .. MaxCommands /\ changes' \in 0 .. MaxChanges
    <2>1. /\ commands' = commands \/ (commands < MaxCommands /\ commands' = commands + 1)
          /\ changes' = changes \/ (changes < MaxChanges /\ changes' = changes + 1)
      BY DEF DeployAction, DeployStep, deployVars, InitCommand, ValidateCommand, ServeCommand, Embed,
             Begin, LoadConfig, Guard, Probe, Conclude, StopServing, OperatorChanges
    <2> QED
      BY <2>1, DeploymentAssumption DEF DeployTypeOK
  <1>4. ProcTypes
    BY DEF DeployTypeOK, ProcTypes
  <1>5. ASSUME NEW code \in 0 .. 2, End(code)
        PROVE  ProcTypes'
    <2>1. /\ proc'.cmd = proc.cmd /\ proc'.step = "ended" /\ proc'.exit = code
          /\ proc'.auth = proc.auth
      BY <1>1, <1>5 DEF End, Fields
    <2> QED
      BY <1>4, <2>1 DEF ProcTypes, Idle
  <1>6. ASSUME NEW c \in {"validate", "serve", "embed"}, NEW todo_,
               Begin(c, todo_)
        PROVE  ProcTypes'
    <2>1. /\ proc'.cmd = c /\ proc'.step = "load" /\ proc'.exit = 0
          /\ proc'.auth = "none"
      BY <1>1, <1>6 DEF Begin, Fields
    <2> QED
      BY <2>1 DEF ProcTypes
  <1>7. ASSUME NEW s \in Idle \cup {"load", "guard", "probe", "serving"},
               proc'.cmd \in {proc.cmd, "init"}, proc'.step = s, proc'.exit \in {proc.exit, 0, 1},
               proc'.auth \in {proc.auth, "none", "bearer"}
        PROVE  ProcTypes'
    BY <1>4, <1>7 DEF ProcTypes
  <1>8. ProcTypes'
    <2>1. ASSUME NEW force \in BOOLEAN, InitCommand(force)
          PROVE  ProcTypes'
      <3>1. PICK e \in {0, 1} : proc' = [proc EXCEPT !.cmd = "init", !.step = "ended", !.exit = e]
        BY <2>1 DEF InitCommand
      <3>2. /\ proc'.cmd = "init" /\ proc'.step = "ended" /\ proc'.exit = e
            /\ proc'.auth = proc.auth
        BY <1>1, <3>1 DEF Fields
      <3> QED
        BY <1>7, <3>2 DEF Idle
    <2>2. ASSUME NEW checks \in SUBSET ProbeSet, ValidateCommand(checks)
          PROVE  ProcTypes'
      BY <1>6, <2>2 DEF ValidateCommand
    <2>3. ASSUME NEW preflight \in BOOLEAN, ServeCommand(preflight)
          PROVE  ProcTypes'
      BY <1>6, <2>3 DEF ServeCommand
    <2>4. CASE Embed
      BY <1>6, <2>4 DEF Embed
    <2>5. CASE LoadConfig
      <3>1. CASE proc' = [proc EXCEPT !.step = "guard", !.cfg = Effective(file, env)]
        <4>1. /\ proc'.cmd = proc.cmd /\ proc'.step = "guard" /\ proc'.exit = proc.exit
              /\ proc'.auth = proc.auth
          BY <1>1, <3>1 DEF Fields
        <4> QED
          BY <1>7, <4>1
      <3> QED
        BY <1>5, <2>5, <3>1 DEF LoadConfig
    <2>6. CASE Guard
      <3>1. CASE proc' = [proc EXCEPT !.step = "probe"]
        <4>1. /\ proc'.cmd = proc.cmd /\ proc'.step = "probe" /\ proc'.exit = proc.exit
              /\ proc'.auth = proc.auth
          BY <1>1, <3>1 DEF Fields
        <4> QED
          BY <1>7, <4>1
      <3> QED
        BY <1>5, <2>6, <3>1 DEF Guard
    <2>7. CASE Probe
      <3>1. CASE proc' = [proc EXCEPT !.todo = Tail(@)]
        <4>1. /\ proc'.cmd = proc.cmd /\ proc'.step = proc.step /\ proc'.exit = proc.exit
              /\ proc'.auth = proc.auth
          BY <1>1, <2>7, <3>1 DEF Fields, Probe
        <4> QED
          BY <1>4, <1>7, <4>1 DEF ProcTypes
      <3> QED
        BY <1>5, <2>7, <3>1 DEF Probe
    <2>8. CASE Conclude
      <3>1. CASE proc' = [proc EXCEPT !.step = "serving",
                            !.auth = IF OverHttp THEN Authenticator(proc.cfg) ELSE "none"]
        <4>1. /\ proc'.cmd = proc.cmd /\ proc'.step = "serving" /\ proc'.exit = proc.exit
              /\ proc'.auth \in {"none", "bearer"}
          BY <1>1, <3>1 DEF Fields, Authenticator
        <4> QED
          BY <1>7, <4>1
      <3> QED
        BY <1>5, <2>8, <3>1 DEF Conclude
    <2>9. CASE StopServing
      <3>1. /\ proc'.cmd = proc.cmd /\ proc'.step = "stopped" /\ proc'.exit = proc.exit
            /\ proc'.auth = proc.auth
        BY <1>1, <2>9 DEF Fields, StopServing
      <3> QED
        BY <1>7, <3>1 DEF Idle
    <2>10. CASE OperatorChanges
      <3>1. /\ proc'.cmd = proc.cmd /\ proc'.step = proc.step /\ proc'.exit = proc.exit
            /\ proc'.auth = proc.auth
        BY <1>1, <2>10 DEF Fields, OperatorChanges
      <3> QED
        BY <1>4, <1>7, <3>1 DEF ProcTypes
    <2>11. CASE UNCHANGED deployVars
      BY <1>4, <2>11 DEF ProcTypes, deployVars
    <2> QED
      BY <2>1, <2>2, <2>3, <2>4, <2>5, <2>6, <2>7, <2>8, <2>9, <2>10, <2>11
      DEF DeployAction, DeployStep
  <1> QED
    BY <1>1, <1>2, <1>3, <1>8 DEF DeployTypeOK, ProcTypes

TypesInv ==
    InstallerInv /\ LifespanInv /\ MemoryInv /\ VerifyInv /\ DeployInv /\ ClearedInv /\ TypeOK

\* The types of all five sessions.
THEOREM TypeCorrect == Spec => []TypeOK
  <1>1. Init => TypesInv
    <2> SUFFICES ASSUME Init PROVE TypesInv
      OBVIOUS
    <2>1. /\ InstallerInv /\ LifespanInv /\ MemoryInv /\ VerifyInv /\ DeployInv /\ ClearedInv
          /\ session \in Sessions
      BY InstallerStarts, LifespanStarts, MemoryStarts, VerifyStarts, DeployStarts DEF Init
    <2>2. InstallerTypeOK
      BY <2>1 DEF InstallerInv
    <2>3. LifespanTypeOK
      <3>1. /\ started \in BOOLEAN /\ finalized \in BOOLEAN /\ ready \in BOOLEAN /\ broken \in BOOLEAN
            /\ enters = 0 /\ exits = 0 /\ messages = 0
        BY <2>1 DEF LifespanInv, Init, LifespanInit
      <3> QED
        BY <3>1, LifespanAssumption DEF Init, LifespanInit, LifespanTypeOK, Answers
    <2>4. VerifyTypeOK
      <3>1. Len(results) = 0 /\ verify.cases \in 0 .. MaxCases
        BY VerificationAssumption DEF Init, VerifyInit
      <3> QED
        BY <2>1, <3>1 DEF VerifyInv, VerifyTypeOK
    <2>5. DeployTypeOK
      <3>1. /\ proc.cmd = "validate" /\ proc.step = "new" /\ proc.exit = 0 /\ proc.auth = "none"
            /\ commands = 0 /\ changes = 0
            /\ db \in Databases /\ storeDir \in StoreDirs
        BY DEF Init, DeployInit
      <3> QED
        BY <2>1, <3>1, DeploymentAssumption DEF DeployTypeOK, DeployInv, Idle
    <2> QED
      BY <2>1, <2>2, <2>3, <2>4, <2>5 DEF TypesInv, TypeOK
  <1>2. TypesInv /\ [Next]_vars => TypesInv'
    <2> SUFFICES ASSUME TypesInv, [Next]_vars PROVE TypesInv'
      OBVIOUS
    <2>1. /\ InstallerInv' /\ LifespanInv' /\ MemoryInv' /\ VerifyInv' /\ DeployInv' /\ ClearedInv'
      BY StepsOfTheParts, InstallerKeeps, LifespanKeeps, MemoryKeeps, VerifyKeeps, DeployKeeps
      DEF TypesInv
    <2>2. LifespanTypeOK' /\ VerifyTypeOK' /\ DeployTypeOK'
      BY StepsOfTheParts, LifespanTypes, VerifyTypes, DeployTypes DEF TypesInv, TypeOK
    <2>3. session' = session
      BY DEF Next, vars
    <2> QED
      BY <2>1, <2>2, <2>3 DEF TypesInv, TypeOK, InstallerInv
  <1>3. TypesInv => TypeOK
    BY DEF TypesInv
  <1> QED
    BY <1>1, <1>2, <1>3, PTL DEF Spec
=============================================================================
