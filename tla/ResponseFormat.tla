--------------------------- MODULE ResponseFormat ---------------------------
(***************************************************************************)
(* The collapse of a run's component stream into the response of            *)
(* query_database (tools/_format.py, the end of tools/query_database.py):   *)
(* one forward pass over the components, the choice of the text blocks, the *)
(* size budgets, the reported query, and the trace of the run.              *)
(***************************************************************************)
EXTENDS SqlGuards, SequencesExt

CONSTANTS
    None,
    TableRows,      \* rows of a table or a chart that fit _MAX_TABLE_PAYLOAD_BYTES
    BlockBudget,    \* _MAX_BLOCKS_TOTAL_BYTES, a notice and a block's header cost 1
    TraceSteps      \* steps that fit _MAX_TRACE_PAYLOAD_BYTES

ASSUME FormatAssumption ==
    TableRows \in Nat \ {0} /\ BlockBudget \in Nat \ {0} /\ TraceSteps \in Nat \ {0}

(* The components the response is made of.  A card shows a call of a tool,   *)
(* `sql` when its arguments carry a statement; a table holds the rows of a   *)
(* result, `shape` says how wide it is: small, at most four columns; huge,   *)
(* its header alone is over the budget.  A chart can be huge as well.        *)
Card(n, status, sql)    == [kind |-> "card", call |-> n, status |-> status, sql |-> sql]
ErrorCard               == Card(0, "error", None)
DataFrame(n, rows, shape) == [kind |-> "table", call |-> n, rows |-> rows, shape |-> shape]
Text(marked)            == [kind |-> "text", marked |-> marked]
Chart(n, rows, spec)    == [kind |-> "chart", call |-> n, rows |-> rows, spec |-> spec]
MemorySearch(hit)       == [kind |-> "memory", hit |-> hit]
Notification            == [kind |-> "notification"]
LimitBar                == [kind |-> "limit"]
StopBar                 == [kind |-> "stop"]

-----------------------------------------------------------------------------
(* components_to_blocks: the pass over the stream. *)

Nothing ==
    [error |-> FALSE, sql |-> None, catalog |-> FALSE, count |-> None, memory |-> None,
     blocks |-> <<>>]

OnText(acc, c) ==
    [acc EXCEPT !.blocks = Append(@, [type |-> "text", marked |-> c.marked, at |-> Len(@) + 1])]

Least(m, n) == IF m <= n THEN m ELSE n

\* The longest prefix of the rows that fits, and the tail dropped.
Kept(rows) == [kept |-> Least(rows, TableRows), dropped |-> rows - Least(rows, TableRows)]

\* _compute_table_payload is None for no rows, and for a header over the budget.
HasPayload(c) == c.rows > 0 /\ c.shape # "huge"

\* _small_result_to_markdown
Small(c, p) == p.kept = 1 /\ p.dropped = 0 /\ c.shape = "small"

OnTable(acc, c) ==
    LET p == Kept(c.rows)
        b == [type |-> IF Small(c, p) THEN "result_text" ELSE "table", call |-> c.call,
              rows |-> p.kept, truncated |-> p.dropped]
    IN  [acc EXCEPT !.count = c.rows,
                    !.blocks = IF HasPayload(c) /\ ~acc.catalog THEN Append(@, b) ELSE @]

\* _compute_chart_payload: a chart without rows is one all the same, one that is over
\* the budget without its rows is none.
OnChart(acc, c) ==
    LET p == Kept(c.rows)
        b == [type |-> "chart", call |-> c.call, rows |-> p.kept, truncated |-> p.dropped]
    IN  IF c.spec = "huge" THEN acc ELSE [acc EXCEPT !.blocks = Append(@, b)]

Classified(acc, c) ==
    IF c.sql # None /\ c.sql # acc.sql THEN Introspection(c.sql) ELSE acc.catalog

\* Any successful query clears a failure.
ErrorAfterAny(acc, c) ==
    \/ c.status = "error"
    \/ acc.error /\ ~(c.status = "success" /\ c.sql # None)

\* An error card fails the turn, a later successful data query clears it.
ErrorAfter(acc, c) ==
    \/ c.status = "error"
    \/ acc.error /\ ~(c.status = "success" /\ c.sql # None /\ ~Classified(acc, c))

\* The count is forgotten when the statement changes.
CountAfterChange(acc, c) == IF c.sql # None /\ c.sql # acc.sql THEN None ELSE acc.count

\* The count is forgotten when a query starts, the same one again included.
CountAfter(acc, c) ==
    IF c.sql # None /\ (c.status = "running" \/ c.sql # acc.sql) THEN None ELSE acc.count

OnCard(acc, c) ==
    [acc EXCEPT
        !.error   = ErrorAfter(acc, c),
        !.catalog = Classified(acc, c),
        !.sql     = IF c.sql = None THEN @ ELSE c.sql,
        !.count   = CountAfter(acc, c)]

OnComponent(acc, c) ==
    CASE c.kind = "text"   -> OnText(acc, c)
      [] c.kind = "table"  -> OnTable(acc, c)
      [] c.kind = "chart"  -> OnChart(acc, c)
      [] c.kind = "card"   -> OnCard(acc, c)
      [] c.kind = "memory" -> [acc EXCEPT !.memory = c.hit]
      [] OTHER             -> acc

Collapsed(stream) ==
    LET after[i \in 0..Len(stream)] ==
            IF i = 0 THEN Nothing ELSE OnComponent(after[i - 1], stream[i])
    IN  after[Len(stream)]

-----------------------------------------------------------------------------
(* The blocks of the response. *)

\* The blocks among those to show, in their order.
Among(bs, shown) ==
    LET first[i \in 0..Len(bs)] ==
            IF i = 0 THEN <<>>
            ELSE IF bs[i] \in shown THEN Append(first[i - 1], bs[i]) ELSE first[i - 1]
    IN  first[Len(bs)]

\* Marked texts; without one, the last text alone.
Chosen(bs) ==
    LET texts   == {b \in Range(bs) : b.type = "text"}
        marked  == {b \in texts : b.marked}
        last    == {b \in texts : \A t \in texts : t.at <= b.at}
        shown   == IF marked # {} THEN marked ELSE last
    IN  Among(bs, (Range(bs) \ texts) \cup shown)

Notice(n) == [type |-> "notice", blocks |-> n]

Cost(b) == IF b.type \in {"table", "result_text", "chart"} THEN 1 + b.rows ELSE 1
Size(bs) ==
    LET first[i \in 0..Len(bs)] == IF i = 0 THEN 0 ELSE first[i - 1] + Cost(bs[i])
    IN  first[Len(bs)]

\* _trim_blocks_to_budget: the longest prefix that fits with the notice of the
\* blocks dropped; with none, the notice alone.
Trimmed(bs) ==
    LET kept(n) == Append(SubSeq(bs, 1, n), Notice(Len(bs) - n))
        fits    == {n \in 0..(Len(bs) - 1) : Size(kept(n)) <= BlockBudget}
    IN  IF Size(bs) <= BlockBudget THEN bs
        ELSE kept(IF fits = {} THEN 0 ELSE Max(fits))

-----------------------------------------------------------------------------
(* build_agent_trace. *)

Cards(stream, n) == {i \in DOMAIN stream : stream[i].kind = "card" /\ stream[i].call = n}

\* The card that opens a call and the one that completes it make one step.
StepStatus(stream, n) ==
    LET last == stream[Max(Cards(stream, n))].status
    IN  CASE last = "success" -> "ok"
          [] last = "error"   -> "error"
          [] OTHER            -> "incomplete"

\* Why the run ended, the last step failing or not.
EndingOfLastStep(stream, status) ==
    CASE ErrorCard \in Range(stream)                      -> "agent error"
      [] status # <<>> /\ Last(status) = "error"          -> "tool failed"
      [] LimitBar \in Range(stream)                       -> "iteration limit"
      [] status # <<>> /\ Last(status) = "incomplete"     -> "in progress"
      [] OTHER                                            -> "none"

\* Why the run ended, in the order of precedence.
Ending(stream, status) ==
    CASE ErrorCard \in Range(stream)                      -> "agent error"
      [] "error" \in Range(status)                        -> "tool failed"
      [] LimitBar \in Range(stream)                       -> "iteration limit"
      [] status # <<>> /\ Last(status) = "incomplete"     -> "in progress"
      [] OTHER                                            -> "none"

\* Trailing steps over the budget are dropped, and counted.
Trace(stream) ==
    LET calls  == {c.call : c \in {d \in Range(stream) : d.kind = "card"}} \ {0}
        status == [i \in 1..Cardinality(calls) |-> StepStatus(stream, i)]
        kept   == Least(Len(status), TraceSteps)
    IN  [steps |-> SubSeq(status, 1, kept), dropped |-> Len(status) - kept,
         terminal |-> Ending(stream, status)]

-----------------------------------------------------------------------------
(* query_database: what its caller gets. *)

Query(acc) == IF acc.sql = None THEN None ELSE [sql |-> acc.sql, count |-> acc.count]

Response(stream, showDetails) ==
    LET acc    == Collapsed(stream)
        blocks == IF acc.error THEN <<>> ELSE Trimmed(Chosen(acc.blocks))
    IN  [error  |-> acc.error,
         blocks |-> blocks,
         answer |-> CASE acc.error                         -> "error"
                      [] blocks # <<>>                     -> "blocks"
                      [] Notification \in Range(stream)    -> "interactive"
                      [] OTHER                             -> "no answer",
         query  |-> IF showDetails THEN Query(acc) ELSE None,
         memory |-> IF acc.error THEN None ELSE acc.memory,
         trace  |-> IF showDetails THEN Trace(stream) ELSE None]
=============================================================================
