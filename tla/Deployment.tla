----------------------------- MODULE Deployment -----------------------------
(***************************************************************************)
(* Configuration and the commands that start a server: `init`, `validate`   *)
(* and `serve` (cli.py), Config.load and its validators (config.py), the     *)
(* preflight probes (preflight.py) and the authenticator (auth/).            *)
(*                                                                         *)
(* One process runs at a time and ends, or serves until it is stopped.  A    *)
(* value has two sources, the environment before sqllens.toml.  Between two  *)
(* commands, and between a probe and the next, the operator may change       *)
(* anything a probe looks at.                                                *)
(***************************************************************************)
EXTENDS Integers, Sequences, FiniteSets, SequencesExt

CONSTANTS
    Files,       \* the sqllens.toml an operator may have, "missing" among the kinds
    Environs,    \* the SQLLENS_* variables the operator may have set
    MaxCommands, \* bound on the commands
    MaxChanges   \* bound on what the operator changes meanwhile

VARIABLES
    file,      \* sqllens.toml
    env,       \* the environment
    db,        \* what database.url leads to
    storeDir,  \* memory.persist_dir
    proc,      \* the process: its command, its step and its locals
    cleared,   \* history: a `validate` with every probe was green, and nothing
               \* was changed since
    commands, changes

infra == <<db, storeDir>>
deployVars == <<file, env, infra, proc, cleared, commands, changes>>

Probes == <<"database", "llm", "memory", "auth">>
ProbeSet == ToSet(Probes)

\* Tokens are told apart after strip(); `short` has less than 32 characters.
Tokens == {"unset", "blank", "short", "strong"}

\* kind: `broken` is no TOML or has an unknown key, `bom` begins with a UTF-8 mark.
FileType == [kind : {"missing", "ok", "broken", "bom"}, mode : {"none", "bearer", "jwt"},
             token : Tokens, key : BOOLEAN, insecure : BOOLEAN, http : BOOLEAN,
             loopback : BOOLEAN, readOnly : BOOLEAN]
EnvType == [url : BOOLEAN, token : Tokens, key : BOOLEAN, insecure : BOOLEAN]

Databases == {"missing", "database", "junk", "unreachable"}
StoreDirs == {"missing", "writable", "frozen", "denied"}

\* A process: `full` while it makes every check and nothing has changed under it.
Idle == {"new", "ended", "stopped"}
NoConfig == [mode |-> "none", token |-> "unset", key |-> FALSE, insecure |-> FALSE,
             http |-> FALSE, loopback |-> TRUE, readOnly |-> TRUE]

\* _SAMPLE_CONFIG: a key, no token, stdio on the loopback interface, read-only.
Sample == [NoConfig EXCEPT !.key = TRUE] @@ [kind |-> "ok"]

ASSUME DeploymentAssumption ==
    /\ Files \subseteq FileType /\ Sample \in Files /\ Environs \subseteq EnvType
    /\ MaxCommands \in Nat /\ MaxChanges \in Nat

DeployInit ==
    /\ file \in Files /\ env \in Environs
    /\ db \in Databases /\ storeDir \in StoreDirs
    /\ proc = [cmd |-> "validate", step |-> "new", cfg |-> NoConfig, todo |-> <<>>, exit |-> 0,
               auth |-> "none", full |-> FALSE]
    /\ cleared = FALSE /\ commands = 0 /\ changes = 0

-----------------------------------------------------------------------------
(* Config.load. *)

\* The environment comes before the file, a blank value included; an option in
\* neither has its default.
Effective(f, e) ==
    LET toml == IF f.kind = "ok" THEN f ELSE NoConfig IN
    [mode |-> toml.mode, http |-> toml.http, loopback |-> toml.loopback,
     readOnly |-> toml.readOnly,
     token |-> IF e.token # "unset" THEN e.token ELSE toml.token,
     key |-> e.key \/ toml.key, insecure |-> e.insecure \/ toml.insecure]

\* Mutant of AuthAccepted: a token is ignored unless the mode asks for it.
AuthAcceptedThoughUnused(c) ==
    /\ c.mode # "jwt"
    /\ c.mode = "bearer" => c.token = "strong"

\* The validators of AuthConfig, in order: jwt is not implemented, bearer needs a
\* token of 32 characters, and a token needs mode bearer.
AuthAccepted(c) ==
    /\ c.mode # "jwt"
    /\ c.mode = "bearer" => c.token = "strong"
    /\ c.mode # "bearer" => c.token = "unset"

\* A file that cannot be parsed, with or without a mark to blame for it, no
\* database.url anywhere, or a section that is not valid.
Loadable(f, e) ==
    /\ f.kind \in {"missing", "ok"}
    /\ f.kind = "ok" \/ e.url
    /\ AuthAccepted(Effective(f, e))

\* unauthenticated_non_loopback, and the CLI's use of it.
OpenBind(c) == c.mode = "none" /\ ~c.loopback
PolicyViolated(c) == c.http /\ OpenBind(c)

-----------------------------------------------------------------------------
(* The commands. *)

End(code) ==
    proc' = [proc EXCEPT !.step = "ended", !.exit = code, !.cfg = NoConfig, !.todo = <<>>,
                         !.full = FALSE]

Begin(cmd, todo) ==
    /\ proc.step \in Idle /\ commands < MaxCommands
    /\ commands' = commands + 1
    /\ proc' = [proc EXCEPT !.cmd = cmd, !.step = "load", !.cfg = NoConfig, !.todo = todo,
                            !.exit = 0, !.auth = "none", !.full = (todo = Probes)]
    /\ UNCHANGED <<file, env, infra, cleared, changes>>

\* `init` writes _SAMPLE_CONFIG: an existing file is kept unless --force is given; a symlink and an
\* error of the disk leave it as well.
InitCommand(force) ==
    /\ proc.step \in Idle /\ commands < MaxCommands
    /\ commands' = commands + 1
    /\ \/ /\ file.kind = "missing" \/ force
          /\ file' = Sample /\ cleared' = FALSE
          /\ proc' = [proc EXCEPT !.cmd = "init", !.step = "ended", !.exit = 0]
       \/ /\ proc' = [proc EXCEPT !.cmd = "init", !.step = "ended", !.exit = 1]
          /\ UNCHANGED <<file, cleared>>
    /\ UNCHANGED <<env, infra, changes>>

\* `validate` with any of the --check options.
ValidateCommand(checks) == Begin("validate", SelectSeq(Probes, LAMBDA p : p \in checks))

\* `serve`; --no-preflight skips the probes.
ServeCommand(preflight) == Begin("serve", IF preflight THEN Probes ELSE <<>>)

\* build_asgi_app by an embedding application, which loads the configuration
\* itself and asks for HTTP whatever server.transport says.
Embed == Begin("embed", <<>>)

LoadConfig ==
    /\ proc.step = "load"
    /\ IF Loadable(file, env)
       THEN proc' = [proc EXCEPT !.step = "guard", !.cfg = Effective(file, env)]
       ELSE End(2)
    /\ UNCHANGED <<file, env, infra, cleared, commands, changes>>

\* Mutant of Refused: validate does not look at the bind.
RefusedByServeOnly ==
    CASE proc.cmd = "serve"    -> ~proc.cfg.key \/ (PolicyViolated(proc.cfg) /\ ~proc.cfg.insecure)
      [] proc.cmd = "validate" -> FALSE
      [] OTHER                 -> OpenBind(proc.cfg) /\ ~proc.cfg.insecure

\* What stops a command before any probe.  The embedder meets the bind guard in
\* _build_asgi_app_bare.
Refused ==
    CASE proc.cmd = "serve"    -> ~proc.cfg.key \/ (PolicyViolated(proc.cfg) /\ ~proc.cfg.insecure)
      [] proc.cmd = "validate" -> PolicyViolated(proc.cfg) /\ ~proc.cfg.insecure
      [] OTHER                 -> OpenBind(proc.cfg) /\ ~proc.cfg.insecure

Guard ==
    /\ proc.step = "guard"
    /\ IF Refused THEN End(2) ELSE proc' = [proc EXCEPT !.step = "probe"]
    /\ UNCHANGED <<file, env, infra, cleared, commands, changes>>

\* probe_database opens the database the way the runner will: a writable SQLite
\* open creates what is missing, a read-only one wants a database.
ProbeDatabase ==
    /\ db' = IF db = "missing" /\ ~proc.cfg.readOnly THEN "database" ELSE db
    /\ UNCHANGED storeDir

\* probe_memory creates the directory, touches a file in it, and opens a store
\* that is there for writing.
ProbeMemory ==
    /\ storeDir' = IF storeDir = "missing" THEN "writable" ELSE storeDir
    /\ UNCHANGED db

Passes(p) ==
    CASE p = "database" -> IF proc.cfg.readOnly THEN db = "database" ELSE db # "unreachable"
      [] p = "llm"      -> proc.cfg.key
      [] p = "memory"   -> storeDir \in {"missing", "writable"}
      [] p = "auth"     -> proc.cfg.mode = "bearer" => proc.cfg.token = "strong"

Probe ==
    /\ proc.step = "probe" /\ proc.todo # <<>>
    /\ LET p == Head(proc.todo) IN
       /\ CASE p = "database" -> ProbeDatabase
            [] p = "memory"   -> ProbeMemory
            [] OTHER          -> UNCHANGED infra
       /\ IF Passes(p) THEN proc' = [proc EXCEPT !.todo = Tail(@)] ELSE End(2)
    /\ UNCHANGED <<file, env, cleared, commands, changes>>

\* build_authenticator
Authenticator(c) == IF c.mode = "bearer" THEN "bearer" ELSE "none"

\* An HTTP application, what build_asgi_app makes: for `serve` over HTTP, and for
\* every embedder.  server.run starts stdio without it.
OverHttp == proc.cfg.http \/ proc.cmd = "embed"

\* The probes are over: a validation has its verdict; a server starts, or fails to
\* (the agent cannot be built, the port is taken).  Only an HTTP application
\* builds an authenticator.
Conclude ==
    /\ proc.step = "probe" /\ proc.todo = <<>>
    /\ IF proc.cmd = "validate"
       THEN /\ End(IF proc.cfg.key THEN 0 ELSE 1)
            /\ cleared' = (cleared \/ (proc.cfg.key /\ proc.full))
       ELSE /\ \/ proc' = [proc EXCEPT !.step = "serving",
                             !.auth = IF OverHttp THEN Authenticator(proc.cfg) ELSE "none"]
               \/ End(1)
            /\ UNCHANGED cleared
    /\ UNCHANGED <<file, env, infra, commands, changes>>

StopServing ==
    /\ proc.step = "serving"
    /\ proc' = [proc EXCEPT !.step = "stopped"]
    /\ UNCHANGED <<file, env, infra, cleared, commands, changes>>

\* The operator edits the file, exports a variable, moves a database.
OperatorChanges ==
    /\ changes < MaxChanges
    /\ changes' = changes + 1 /\ cleared' = FALSE
    /\ proc' = [proc EXCEPT !.full = FALSE]
    /\ \/ file' \in Files /\ UNCHANGED <<env, infra>>
       \/ env' \in Environs /\ UNCHANGED <<file, infra>>
       \/ db' \in Databases /\ UNCHANGED <<file, env, storeDir>>
       \/ storeDir' \in StoreDirs /\ UNCHANGED <<file, env, db>>
    /\ UNCHANGED commands

DeployStep == LoadConfig \/ Guard \/ Probe \/ Conclude

-----------------------------------------------------------------------------
DeployTypeOK ==
    /\ file \in Files /\ env \in Environs
    /\ db \in Databases /\ storeDir \in StoreDirs
    /\ proc.cmd \in {"init", "validate", "serve", "embed"}
    /\ proc.step \in Idle \cup {"load", "guard", "probe", "serving"}
    /\ proc.exit \in 0 .. 2 /\ proc.auth \in {"none", "bearer"}
    /\ proc.full \in BOOLEAN /\ cleared \in BOOLEAN
    /\ commands \in 0 .. MaxCommands /\ changes \in 0 .. MaxChanges

\* "Mirror serve's guard so CI / pre-deploy linting catches the misconfiguration
\* before `serve` would refuse to start" (cli.py:252): what a `validate` with every
\* check has passed, `serve` does not refuse (exit code 2), as long as nothing is
\* changed in between.
ValidatedServes == proc.cmd = "serve" /\ proc.step = "ended" /\ proc.exit = 2 => ~cleared

\* No HTTP server listens without authentication by accident: whoever set a bearer
\* token, in the file or in the environment, gets one that asks for it, and an
\* unauthenticated one is bound to the loopback interface unless `insecure` was set;
\* on every way to an HTTP server, an embedder's with server.transport left at stdio
\* included.  A stdio server listens on no port and never asks for a token
\* (preflight.py:272).
NeverOpenByAccident ==
    proc.step = "serving" /\ OverHttp =>
        /\ proc.cfg.token # "unset" => proc.auth = "bearer"
        /\ proc.auth = "none" => proc.cfg.loopback \/ proc.cfg.insecure
=============================================================================
