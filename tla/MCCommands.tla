----------------------------- MODULE MCCommands -----------------------------
(***************************************************************************)
(* Commands for TLC: the configurations that differ in a way some command    *)
(* can tell.  A session that is over stutters; every other state without a   *)
(* step is a deadlock.                                                       *)
(***************************************************************************)
EXTENDS Commands

\* Both options are installed by one executable.
MCLauncherOf == [o \in Options |-> "run-sqllens"]

Open == [Sample EXCEPT !.http = TRUE, !.loopback = FALSE]

MCFiles ==
    {Sample, Open, [Sample EXCEPT !.kind = "missing"], [Sample EXCEPT !.kind = "bom"],
     [Sample EXCEPT !.key = FALSE], [Sample EXCEPT !.readOnly = FALSE],
     [Open EXCEPT !.insecure = TRUE], [Open EXCEPT !.http = FALSE],
     [Open EXCEPT !.mode = "jwt"],
     [Open EXCEPT !.http = FALSE, !.mode = "bearer", !.token = "strong"]} \cup
    {[Open EXCEPT !.mode = "bearer", !.token = t] : t \in Tokens}

MCEnvirons ==
    {[url |-> TRUE, token |-> "unset", key |-> TRUE, insecure |-> i] : i \in BOOLEAN} \cup
    {[url |-> FALSE, token |-> t, key |-> FALSE, insecure |-> FALSE] : t \in Tokens}

\* A session that is not exercised has one initial state.
MCInit ==
    /\ session \in Sessions
    /\ InstallerInit
    /\ session # "install" => windows /\ toml = Hand /\ cmd = Hand /\ config = EmptyDoc
                              /\ install.opt = CHOOSE o \in Options : TRUE
    /\ LifespanInit /\ MemoryOpenInit
    /\ VerifyInit
    /\ session # "verify" => verify.cases = 0 /\ verify.tolerance = None
    /\ DeployInit
    /\ session # "deploy" => file = Sample /\ db = "database" /\ storeDir = "writable"
                             /\ ~env.url /\ env.token = "unset"

SessionOver ==
    CASE session = "install" -> install.step \in Over /\ installs = MaxInstalls
      [] session = "deploy"  -> proc.step \in Idle /\ commands = MaxCommands
      [] session = "host"    -> at = "closed" /\ messages = MaxMessages
      [] session = "recall"  -> \A t \in Turns : turn[t].at = "over"
      [] OTHER               -> verify.step = "over"

Termination == SessionOver /\ UNCHANGED vars

MCSpec == MCInit /\ [][Next \/ Termination]_vars
=============================================================================
