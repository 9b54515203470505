---------------------------- MODULE MCToolRound ----------------------------
(***************************************************************************)
(* ToolRound for TLC: `orders` has a rule, `items` has none, `report` is a  *)
(* view over orders, `columns` a metadata view of the catalog.              *)
(***************************************************************************)
EXTENDS ToolRound

Qualified(name) == [Table(name) EXCEPT !.qualified = TRUE]
From(s) == Select(<<Scope("", <<s>>)>>)
With(cte, body, main) == Select(<<Scope(cte, <<body>>), Scope("", main)>>)

MCStatements == {
    From(Table("orders")),
    [From(Table("items")) EXCEPT !.shape = "wide"],
    \* a CTE named like the table it reads
    With("orders", Table("orders"), <<Table("orders")>>),
    \* a derived table named like the table beside it
    With("", Table("items"), <<Derived("orders", 1), Table("orders")>>),
    \* the table itself beside a CTE of its name
    With("orders", Table("items"), <<Qualified("orders")>>),
    From(Table("report")),
    From(Table("columns")),
    \* TABLE orders in parentheses: a Table node named by the keyword
    From(Source("table", "orders", "orders")),
    \* DELETE FROM items in a CTE
    [With("d", Derived("", 0), <<Table("d")>>) EXCEPT
        !.scopes[1] = Scope("d", <<>>), !.outside = {Table("items")}, !.dml = "nested"],
    [Select(<<>>) EXCEPT !.root = "update", !.outside = {Table("items")}, !.dml = "root"],
    [From(Table("items")) EXCEPT !.calls = "routine", !.shape = "huge"],
    [From(Table("items")) EXCEPT !.calls = "denied"],
    [Select(<<>>) EXCEPT !.root = "show"],
    [Select(<<>>) EXCEPT !.parsed = 0] }

MCKinds == [orders |-> "table", items |-> "table", report |-> "view", columns |-> "metadata"]

Setting(rule, metadata, readOnly, engine, rows, details) ==
    [rule |-> rule, metadata |-> metadata, readOnly |-> readOnly, engine |-> engine,
     profileRows |-> rows, details |-> details, saves |-> details]

MCSettings == {
    Setting("none", "absent", TRUE, "sqlite", 3, TRUE),
    Setting("none", "absent", FALSE, "postgres", 1, TRUE),
    Setting("static", "absent", TRUE, "sqlite", 3, TRUE),
    Setting("equals", "token", FALSE, "postgres", 3, FALSE) }
    \cup {Setting("equals", m, TRUE, "sqlite", 3, FALSE) : m \in Metadata}
    \cup {Setting("in", m, TRUE, "postgres", 3, FALSE) : m \in Metadata}

\* Two calls of any kind, then a text in a round of its own; or three calls of any
\* kind but statements, enough for two bad rounds in a row, at once or with a good
\* round before, between or among them.
Bounded ==
    n = 3 => \/ log[3].tool = "emit_text" /\ log[3].args = "valid" /\ log[3].round = 3
             \/ /\ setting.rule = "none" /\ setting.engine = "sqlite"
                /\ \A i \in 1..3 : log[i].tool # "run_sql"

Termination == Done /\ UNCHANGED vars
MCNext == Next \/ Termination
MCSpec == Init /\ [][MCNext]_vars
=============================================================================
