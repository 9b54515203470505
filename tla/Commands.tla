------------------------------ MODULE Commands ------------------------------
(***************************************************************************)
(* The command line (cli.py): a process runs one command.  The commands     *)
(* share the configuration and nothing else in memory, so a behaviour is     *)
(* about one of five sessions: installing into Claude Desktop, deploying     *)
(* (init, validate, serve, an embedding application), the life of the HTTP   *)
(* server an ASGI host drives, the first turns of a server, which open its   *)
(* memory, and verifying a golden set.                                      *)
(***************************************************************************)
EXTENDS Installer, Deployment, HttpLifespan, MemoryOpen, Verification

VARIABLE session

vars == <<session, installVars, deployVars, lifeVars, memoryVars, verifyVars>>

Sessions == {"install", "deploy", "host", "recall", "verify"}

Init ==
    /\ session \in Sessions
    /\ InstallerInit /\ DeployInit /\ LifespanInit /\ MemoryOpenInit /\ VerifyInit

Install ==
    /\ \/ \E o \in Options, dry, force \in BOOLEAN : StartInstall(o, dry, force)
       \/ InstallStep \/ DesktopEdits
    /\ UNCHANGED <<deployVars, lifeVars, memoryVars, verifyVars>>

Deploy ==
    /\ \/ \E force \in BOOLEAN : InitCommand(force)
       \/ \E checks \in SUBSET ProbeSet : ValidateCommand(checks)
       \/ \E preflight \in BOOLEAN : ServeCommand(preflight)
       \/ Embed \/ DeployStep \/ StopServing \/ OperatorChanges
    /\ UNCHANGED <<installVars, lifeVars, memoryVars, verifyVars>>

Host == (HostStep \/ LifespanStep) /\ UNCHANGED <<installVars, deployVars, memoryVars, verifyVars>>

Recall ==
    /\ \E t \in Turns : MemoryStep(t)
    /\ UNCHANGED <<installVars, deployVars, lifeVars, verifyVars>>

Verify == VerifyStep /\ UNCHANGED <<installVars, deployVars, lifeVars, memoryVars>>

Next ==
    /\ \/ session = "install" /\ Install
       \/ session = "deploy" /\ Deploy
       \/ session = "host" /\ Host
       \/ session = "recall" /\ Recall
       \/ session = "verify" /\ Verify
    /\ UNCHANGED session

Spec == Init /\ [][Next]_vars

TypeOK ==
    /\ session \in Sessions
    /\ InstallerTypeOK /\ DeployTypeOK /\ LifespanTypeOK /\ VerifyTypeOK
=============================================================================
