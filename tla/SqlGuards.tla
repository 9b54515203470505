----------------------------- MODULE SqlGuards -----------------------------
(***************************************************************************)
(* What a statement meets on its way to the database, as functions of the   *)
(* statement: the row-level-security rewrite (safety/rls.py), the read-only *)
(* check (safety/readonly.py), the check of its relations on the execution  *)
(* connection (safety/relations.py), and the two classifications the rest   *)
(* of the run relies on (is_read_shaped, is_introspection_query).           *)
(*                                                                         *)
(* A statement is what sqlglot makes of the text: how many statements it is *)
(* (0 when it does not parse), the kind of its root, and its query scopes,  *)
(* innermost first: the bodies of its CTEs and derived tables, then the     *)
(* main query.  A source of a scope is a Table node or a derived table.     *)
(* Writes and Table nodes no scope accounts for are listed beside them.     *)
(***************************************************************************)
EXTENDS Integers, Sequences, FiniteSets

CONSTANTS
    Protected,      \* names of the tables a rule is about
    Catalogs,       \* names of catalog tables and metadata views
    Statements      \* what the model may ask for

\* name and alias as parsed; of: the scope of a derived table, 0 for a Table
\* node; object: what the database reads when it is one.
Source(name, alias, object) ==
    [name |-> name, alias |-> alias, qualified |-> FALSE, of |-> 0, object |-> object]
Table(name) == Source(name, name, name)
Derived(alias, i) == [Source("", alias, "") EXCEPT !.of = i]

\* cte: the name a CTE body is known by, "" for a derived table and the main query.
Scope(cte, sources) == [cte |-> cte, sources |-> sources]

Select(scopes) ==
    [parsed |-> 1, root |-> "query", scopes |-> scopes, outside |-> {}, dml |-> "none",
     calls |-> "plain", shape |-> "small"]

-----------------------------------------------------------------------------
(* Scope analysis. *)

\* An unqualified Table node named like a CTE of an earlier scope refers to it.
Refers(st, i, k) ==
    LET s == st.scopes[i].sources[k]
    IN  \/ s.of # 0
        \/ ~s.qualified /\ \E j \in 1..(i - 1) : st.scopes[j].cte # "" /\ st.scopes[j].cte = s.name

Places(st) ==
    {p \in (DOMAIN st.scopes) \X (1..2) : p[2] \in DOMAIN st.scopes[p[1]].sources}
At(st, p) == st.scopes[p[1]].sources[p[2]]

\* A Table node that reads a protected table bears its name, or has it for an alias
\* (TABLE t in parentheses).
ASSUME StatementAssumption ==
    \A st \in Statements : \A p \in Places(st) :
        At(st, p).object \in Protected => {At(st, p).name, At(st, p).alias} \cap Protected # {}

\* Looked up by its key, a base table is lost beside a derived table of that name.
BaseTablesByKey(st) ==
    {p \in Places(st) :
        /\ ~Refers(st, p[1], p[2])
        /\ \A q \in Places(st) : q[1] = p[1] /\ At(st, q).alias = At(st, p).alias => q = p}

\* scope.sources by value: a base table keeps its place beside a derived table
\* of the same name.
BaseTables(st) == {p \in Places(st) : ~Refers(st, p[1], p[2])}

-----------------------------------------------------------------------------
(* apply_rls. *)

\* What a request's metadata holds under the rule's key.
Metadata == {"absent", "token", "flag", "blank", "list", "no items", "bad item"}

\* _resolve_value: a static value was checked when the configuration loaded; a
\* value of the request has to be a usable scalar, for `in` a list of them.
Usable(rule, value) ==
    \/ rule = "static"
    \/ rule = "equals" /\ value = "token"
    \/ rule = "in" /\ value = "list"

\* The sources that get a predicate.
Scoped(st) == {p \in BaseTables(st) : At(st, p).name \in Protected}

\* A protected name, or alias, on a Table node that neither got a predicate nor
\* refers to a CTE cannot be proven scoped.
Unproven(st) ==
    \/ \E p \in BaseTables(st) \ Scoped(st) : At(st, p).alias \in Protected
    \/ \E p \in Places(st) \ BaseTables(st) :
          At(st, p).of = 0 /\ At(st, p).alias \in Protected /\ At(st, p).name \notin Protected
    \/ \E t \in st.outside : {t.name, t.alias} \cap Protected # {}

RlsBlocks(st, rule, value) ==
    \/ st.parsed # 1
    \/ st.root # "query"
    \/ Scoped(st) # {} /\ ~Usable(rule, value)
    \/ Unproven(st)

-----------------------------------------------------------------------------
(* The read-only guard. *)

DeniedCall(st) == st.calls = "denied"

\* Writes are looked for in the whole tree, SELECT ... INTO among them.
ReadOnlyBlocks(st) ==
    \/ st.parsed # 1
    \/ st.root \notin {"query", "show"}
    \/ st.dml # "none"
    \/ DeniedCall(st)

-----------------------------------------------------------------------------
(* verify_base_tables: `kinds` is the catalog the connection sees. *)

Verified(st, kinds, engine) ==
    /\ st.outside = {}
    /\ \A p \in BaseTables(st) : kinds[At(st, p).object] \in {"table", "metadata"}
    /\ st.calls = "routine" => engine = "sqlite"

-----------------------------------------------------------------------------
(* Classification by the first keyword and by the tables read. *)

ReadShaped(st) == st.parsed # 0 /\ st.root \in {"query", "show"}

Introspection(st) ==
    \/ st.root = "show"
    \/ st.parsed = 1 /\ (\/ \E p \in BaseTables(st) : At(st, p).name \in Catalogs
                         \/ \E t \in st.outside : t.name \in Catalogs)
=============================================================================
