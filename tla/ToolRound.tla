----------------------------- MODULE ToolRound -----------------------------
(***************************************************************************)
(* The tool loop of one run of the agent (agent/core/agent/agent.py): the   *)
(* calls the model asks for, one after the other through the registry       *)
(* (agent/core/registry.py), run_sql (agent/tools/run_sql.py) through the   *)
(* guards and the runner that build_agent chains, and the components the    *)
(* loop emits, which ResponseFormat collapses into the response.            *)
(*                                                                         *)
(* The database is shared with its other clients: one of them may replace   *)
(* a table by a view at any time, also between the catalog check and the    *)
(* statement it was made for.                                               *)
(***************************************************************************)
EXTENDS ResponseFormat

CONSTANTS
    Settings,       \* deployments and requests, see below
    Kinds,          \* the catalog at the start: object -> kind
    Hidden,         \* the table another client may replace by a view
    AnyRows,        \* how many rows a query may produce
    MaxRows,        \* cfg.database.max_rows
    MaxRounds,
    MaxBadRounds,   \* MAX_CONSECUTIVE_ARGUMENT_FAILURES (3)
    MaxCalls        \* bound on the calls of a run

ASSUME ToolRoundAssumption ==
    /\ MaxBadRounds \in Nat \ {0} /\ MaxCalls \in Nat
    /\ AnyRows \subseteq Nat /\ MaxRows \in Nat /\ \A s \in Settings : s.profileRows \in Nat
    /\ Kinds \in [DOMAIN Kinds -> {"table", "view", "metadata"}] /\ Hidden \in DOMAIN Kinds

VARIABLES
    setting,    \* [rule, metadata, readOnly, engine, profileRows, details, saves]
    kinds,      \* the catalog
    snapshot,   \* the catalog of the transaction the check opened (SQLite)
    at,         \* where the run is
    rounds, left, bad, argFailures,     \* locals of the loop
    prose,      \* answer_prose_emitted
    log,        \* per call: what was asked and what became of it
    stream,     \* the components emitted
    response

vars == <<setting, kinds, snapshot, at, rounds, left, bad, argFailures, prose, log, stream, response>>

Tools == {"run_sql", "emit_text", "emit_chart", "search", "save"}

\* A call as it is logged when it is asked for; nothing has become of it yet.
Asked(tool, args, sql) ==
    [round |-> rounds, tool |-> tool, args |-> args, sql |-> sql, ok |-> FALSE, sent |-> None,
     rows |-> 0, shown |-> 0, noted |-> FALSE]

\* What a reply may ask for.  A call the token limit cut off loses its arguments
\* (_parse_message_content); it, invalid arguments and empty SQL carry no statement.  The
\* axes and the title of a chart may be huge, and the arguments valid all the same.
Requests ==
    {Asked("run_sql", "valid", st) : st \in Statements}
        \cup {Asked(t, a, None) : t \in Tools, a \in {"valid", "invalid", "truncated"}}
        \cup {Asked("emit_chart", "huge", None)}

Init ==
    /\ setting \in Settings
    /\ kinds = Kinds /\ snapshot = Kinds
    /\ at = "model" /\ rounds = 0 /\ left = 0 /\ bad = 0 /\ argFailures = TRUE /\ prose = FALSE
    /\ log = <<>> /\ stream = <<>> /\ response = None

\* The call at hand is the last one logged.
n == Len(log)
call == log[n]

-----------------------------------------------------------------------------
(* The end of the run: the components become the response. *)

Finish(components) ==
    /\ at' = "over"
    /\ stream' = stream \o components
    /\ response' = Response(stream', setting.details)

loopVars == <<rounds, left, bad, argFailures, prose>>

\* A slash command answers without the model, with texts nobody marked.
Command ==
    /\ at = "model" /\ rounds = 0
    /\ Finish(<<Text(FALSE), Text(FALSE)>>)
    /\ UNCHANGED <<setting, kinds, snapshot, loopVars, log>>

\* The final reply, hidden when emit_text wrote the answer; it may be empty.
Answer ==
    /\ at = "model" /\ rounds < MaxRounds
    /\ \E written \in BOOLEAN : Finish(IF written /\ ~prose THEN <<Text(TRUE)>> ELSE <<>>)
    /\ UNCHANGED <<setting, kinds, snapshot, loopVars, log>>

\* The model request raises: send_message catches it and says so.
ModelFails ==
    /\ at = "model" /\ rounds < MaxRounds
    /\ Finish(<<ErrorCard>>)
    /\ UNCHANGED <<setting, kinds, snapshot, loopVars, log>>

LimitStop ==
    /\ at = "model" /\ rounds = MaxRounds
    /\ Finish(<<LimitBar, Text(TRUE)>>)
    /\ UNCHANGED <<setting, kinds, snapshot, loopVars, log>>

ToolCalls ==
    /\ at = "model" /\ rounds < MaxRounds
    /\ rounds' = rounds + 1 /\ left' \in 1..(MaxCalls - n) /\ argFailures' = TRUE
    /\ at' = "calls"
    /\ UNCHANGED <<setting, kinds, snapshot, bad, prose, log, stream, response>>

\* Mutant of EndRound: the rounds are counted, in a row or not.
EndRoundInAll ==
    /\ at = "calls" /\ left = 0
    /\ bad' = IF argFailures THEN bad + 1 ELSE bad
    /\ IF bad' >= MaxBadRounds THEN Finish(<<StopBar>>)
       ELSE at' = "model" /\ UNCHANGED <<stream, response>>
    /\ UNCHANGED <<setting, kinds, snapshot, rounds, left, argFailures, prose, log>>

\* A few rounds in a row whose calls all had bad arguments stop the run.
EndRound ==
    /\ at = "calls" /\ left = 0
    /\ bad' = IF argFailures THEN bad + 1 ELSE 0
    /\ IF bad' >= MaxBadRounds THEN Finish(<<StopBar>>)
       ELSE at' = "model" /\ UNCHANGED <<stream, response>>
    /\ UNCHANGED <<setting, kinds, snapshot, rounds, left, argFailures, prose, log>>

-----------------------------------------------------------------------------
(* A call: its running card, what the registry and the tool make of it, its *)
(* completion card, then the component of its result.  The components of    *)
(* errors are not for this user.                                            *)

Open ==
    /\ at = "calls" /\ left > 0
    /\ \E r \in Requests :
          /\ r.args = "truncated" => left = 1       \* the last call of a reply
          /\ log' = Append(log, r)
          /\ stream' = Append(stream, Card(n + 1, "running", r.sql))
    /\ at' = "tool"
    /\ UNCHANGED <<setting, kinds, snapshot, loopVars, response>>

Close(entry, components) ==
    /\ log' = [log EXCEPT ![n] = entry]
    /\ stream' = Append(stream, Card(n, IF entry.ok THEN "success" ELSE "error", entry.sql))
                    \o components
    /\ at' = "calls" /\ left' = left - 1
    /\ prose' = (prose \/ Text(TRUE) \in Range(components))
    /\ UNCHANGED <<setting, kinds, snapshot, rounds, bad, response>>

Succeed(components) == Close([call EXCEPT !.ok = TRUE], components) /\ argFailures' = FALSE
Fail == Close(call, <<>>) /\ argFailures' = FALSE

Registered(tool) == tool = "save" => setting.saves

\* registry.execute: an unknown tool, then a truncated call, then its arguments.
Admitted(c) == Registered(c.tool) /\ c.args \in {"valid", "huge"}

\* The failures a retry of the same call cannot mend; a tool that is not there is none.
BadArguments(c) == c.args = "truncated" \/ (c.args = "invalid" /\ Registered(c.tool))

Refuse ==
    /\ at = "tool" /\ ~Admitted(call)
    /\ Close(call, <<>>)
    /\ argFailures' = (argFailures /\ BadArguments(call))

OtherTool ==
    /\ at = "tool" /\ Admitted(call)
    /\ \/ call.tool = "emit_text" /\ Succeed(<<Text(TRUE)>>)
       \/ /\ call.tool = "emit_chart"
          /\ \E rows \in AnyRows :
                Close([call EXCEPT !.ok = TRUE, !.rows = rows, !.shown = rows],
                      <<Chart(n, rows, call.args)>>)
          /\ argFailures' = FALSE
       \/ call.tool = "search" /\ (Fail \/ \E hit \in BOOLEAN : Succeed(<<MemorySearch(hit)>>))
       \/ call.tool = "save" /\ (Fail \/ Succeed(<<>>))

-----------------------------------------------------------------------------
(* run_sql: the row-level-security guard, with rules only, checks first; the *)
(* read-only guard checks what it rewrote; the row cap and the runner of the *)
(* engine follow.                                                           *)

Rules == setting.rule # "none"

GuardsBlock(st) ==
    \/ Rules /\ (RlsBlocks(st, setting.rule, setting.metadata) \/ DeniedCall(st))
    \/ setting.readOnly /\ ReadOnlyBlocks(st)

Connects ==
    /\ at = "tool" /\ Admitted(call) /\ call.tool = "run_sql"
    /\ call.sql # None /\ ~GuardsBlock(call.sql)
    /\ at' = IF Rules THEN "checking" ELSE "executing"
    /\ UNCHANGED <<setting, kinds, snapshot, loopVars, log, stream, response>>

\* Empty SQL, a guard that blocks, no free worker, no connection.
Blocked == at = "tool" /\ Admitted(call) /\ call.tool = "run_sql" /\ Fail

\* SQLite checks the catalog inside the read transaction of the statement.
Check ==
    /\ at = "checking"
    /\ \/ /\ Verified(call.sql, kinds, setting.engine)
          /\ at' = "executing" /\ snapshot' = kinds
          /\ UNCHANGED <<setting, kinds, loopVars, log, stream, response>>
       \/ Fail

\* Another client replaces a table by a view.
Migrate ==
    /\ at \in {"checking", "executing"} /\ kinds[Hidden] = "table"
    /\ kinds' = [kinds EXCEPT ![Hidden] = "view"]
    /\ UNCHANGED <<setting, snapshot, at, loopVars, log, stream, response>>

\* The catalog a statement runs on.
Seen == IF Rules /\ setting.engine = "sqlite" THEN snapshot ELSE kinds

\* effective_row_cap, read by the runner and again by RowCapRunner.
Cap == Least(MaxRows, setting.profileRows)

\* fetchmany of the cap: nothing shows there was more.
FetchedExactly(rows) == [shown |-> Least(rows, Cap), more |-> FALSE]

\* fetchmany of one row more than the cap, the truncation mark of the frame.
Fetched(rows) == [shown |-> Least(rows, Cap), more |-> rows > Cap]

Execute ==
    /\ at = "executing"
    /\ LET sent == [call EXCEPT !.sent = Seen]
       IN  \/ /\ ReadShaped(call.sql)
              /\ \E rows \in AnyRows :
                    LET f == Fetched(rows)
                    IN  Close([sent EXCEPT !.ok = TRUE, !.rows = rows, !.shown = f.shown,
                                           !.noted = f.more],
                              <<DataFrame(n, f.shown, call.sql.shape)>>)
           \/ ~ReadShaped(call.sql) /\ Close([sent EXCEPT !.ok = TRUE], <<Notification>>)
           \/ Close(sent, <<>>)     \* a timeout, a driver error, the CSV file
    /\ argFailures' = FALSE

-----------------------------------------------------------------------------
Next == Command \/ Answer \/ ModelFails \/ LimitStop \/ ToolCalls \/ EndRound \/ Open \/ Refuse
            \/ OtherTool \/ Connects \/ Blocked \/ Check \/ Migrate \/ Execute

Done == at = "over"

Spec == Init /\ [][Next]_vars

-----------------------------------------------------------------------------
(* Correctness *)

\* What the database reads where a statement names an object: the tables behind
\* the source, and behind the view when it is one.
ReadsUnscoped(c) ==
    \E p \in Places(c.sql) :
        LET s == At(c.sql, p)
        IN  /\ ~Refers(c.sql, p[1], p[2])
            /\ \/ s.object \in Protected
                  /\ ~(p \in Scoped(c.sql) /\ Usable(setting.rule, setting.metadata))
               \/ c.sent[s.object] \notin {"table", "metadata"}

(* With rules, a statement reaches the database only if each place it reads  *)
(* a protected table from has its predicate, whatever else bears the name,   *)
(* and none is a view; with a value of the request only if it is usable.  On *)
(* SQLite this holds of the catalog the statement runs on, whatever other    *)
(* clients do meanwhile; elsewhere while they leave the catalog alone        *)
(* (safety/rls.py, safety/relations.py, the sqlite runner's BEGIN).          *)
RowsAreScoped ==
    Rules => \A i \in DOMAIN log :
        log[i].sent # None /\ (setting.engine = "sqlite" \/ kinds = Kinds)
            => ~ReadsUnscoped(log[i])

Ended == response # None

DataQuery(c) == c.sql # None /\ ~Introspection(c.sql)
Answered(i) == log[i].ok /\ DataQuery(log[i])

(* A run is answered only if every call that failed was followed by a data   *)
(* query that succeeded, and fails otherwise; nothing of a failed run and    *)
(* nothing read from a catalog is shown as its result                        *)
(* (components_to_blocks).                                                   *)
AnswerIsCurrent ==
    Ended =>
        LET failed == {i \in DOMAIN log : ~log[i].ok}
            open   == \E i \in failed : ~\E j \in DOMAIN log : j > i /\ Answered(j)
        IN  /\ response.error = (open \/ ErrorCard \in Range(stream))
            /\ response.error => response.blocks = <<>>
            /\ \A b \in Range(response.blocks) :
                  b.type \in {"table", "result_text"} => Answered(b.call)

(* The row count reported beside a statement is the one of its own last run, *)
(* and there is none if that run failed (query_info).                        *)
CountIsOfTheLastRun ==
    Ended /\ response.query # None =>
        LET i == Max({j \in DOMAIN log : log[j].sql # None})
        IN  /\ response.query.sql = log[i].sql
            /\ response.query.count =
                  IF log[i].ok /\ ReadShaped(log[i].sql) THEN log[i].shown ELSE None

(* Rows do not vanish on the way to the user: a query's rows over the cap    *)
(* are announced to the agent, a block's rows over its budget are counted in *)
(* the block, blocks over the budget in a notice, which comes last           *)
(* (rows_to_capped_df, RowCapRunner, _compute_table_payload,                 *)
(* _trim_blocks_to_budget).                                                  *)
LossesAreTold ==
    /\ \A i \in DOMAIN log : log[i].shown < log[i].rows => log[i].noted
    /\ Ended /\ ~response.error =>
          LET due  == {i \in DOMAIN log :
                          \/ Answered(i) /\ log[i].shown > 0 /\ log[i].sql.shape # "huge"
                          \/ /\ log[i].ok /\ log[i].tool = "emit_chart"
                             /\ log[i].args # "huge"}
              full == {b \in Range(response.blocks) : b.type \in {"table", "result_text", "chart"}}
              told == {b.blocks : b \in {c \in Range(response.blocks) : c.type = "notice"}}
          IN  /\ Size(response.blocks) <= BlockBudget
              /\ \A b \in full : b.rows + b.truncated = log[b.call].shown
              /\ due \ {b.call : b \in full} # {} =>
                    \E k \in told : k >= Cardinality(due \ {b.call : b \in full})

(* "If the assistant sends an invalid or incomplete tool call three times in a  *)
(* row, SQL Lens now stops and returns an error right away" (release-notes.md,  *)
(* 26): a run gives up after as many rounds in a row as it takes, with nothing  *)
(* but bad arguments in them, never earlier and never later, and its response   *)
(* is an error, not the warning of the limit (the loop's counters, the fold).   *)
GivesUpWhenStuck ==
    LET streak == (rounds - MaxBadRounds + 1)..rounds
        stuck  == /\ rounds >= MaxBadRounds
                  /\ \A i \in DOMAIN log : log[i].round \in streak => BadArguments(log[i])
    IN  /\ StopBar \in Range(stream) =>
              stuck /\ at = "over" /\ response.error /\ LimitBar \notin Range(stream)
        /\ at = "model" => ~stuck

(* A trace that names no reason for the end is the trace of a run whose      *)
(* calls all succeeded and that was not stopped (build_agent_trace).         *)
CleanTraceOfCleanRun ==
    Ended /\ response.trace # None =>
        /\ response.trace.terminal = "none" =>
              /\ \A i \in DOMAIN log : log[i].ok
              /\ {LimitBar, ErrorCard} \cap Range(stream) = {}
        /\ Len(response.trace.steps) + response.trace.dropped = Len(log)
=============================================================================
