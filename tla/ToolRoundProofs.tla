-------------------------- MODULE ToolRoundProofs --------------------------
(***************************************************************************)
(* Proofs about the tool loop, for every set of statements the parser may    *)
(* produce, every catalog, any number of calls and any budgets.  With rules, *)
(* what reaches the database is scoped; what the user is shown agrees with   *)
(* what became of the calls; and a run gives up exactly when it is stuck.    *)
(*                                                                         *)
(* The first argument: a statement is sent only from "executing", which a    *)
(* call reaches past the guards and, with rules, past the catalog check; so  *)
(* everything sent is a statement the guards let through, checked against    *)
(* the catalog it runs on.  What these checks amount to is a lemma about     *)
(* statements alone.                                                        *)
(*                                                                         *)
(* The second: the response is a fold over the stream of components, and the *)
(* properties speak of the log of calls.  The invariant sets them side by    *)
(* side (Agrees): the fold's error, statement, count and blocks are those of *)
(* the calls that have ended.  It is kept because the fold of a stream with  *)
(* one more component is one more step of the fold (CollapsedOneMore); what  *)
(* the budgets then cut is a lemma about sequences of blocks (TrimmedTells). *)
(*                                                                         *)
(* The third: the loop counts rounds of nothing but bad arguments in a       *)
(* variable, the property counts them in the log.  The invariant says that   *)
(* the rounds ended last, as many as the counter has, are such rounds, that  *)
(* the one before them is not (StreakInv), and what a bar means (StopInv).   *)
(***************************************************************************)
EXTENDS ToolRound, FiniteSetTheorems, WellFoundedInduction, TLAPS

Catalog == [DOMAIN Kinds -> {"table", "view", "metadata"}]

Arguments == {"valid", "huge", "invalid", "truncated"}

Entries ==
    [round : Nat, tool : Tools, args : Arguments, sql : Statements \cup {None},
     ok : BOOLEAN, sent : Catalog \cup {None}, rows : Nat, shown : Nat, noted : BOOLEAN]

-----------------------------------------------------------------------------
(* Statements. *)

\* A statement apply_rls lets through and verify_base_tables has seen reads a
\* protected table only where it put a predicate, with a usable value, and no view.
LEMMA CheckedIsScoped ==
    ASSUME NEW st \in Statements, NEW rule, NEW value, NEW catalog, NEW engine,
           ~RlsBlocks(st, rule, value), Verified(st, catalog, engine),
           NEW p \in Places(st), ~Refers(st, p[1], p[2])
    PROVE  /\ At(st, p).object \in Protected => p \in Scoped(st) /\ Usable(rule, value)
           /\ catalog[At(st, p).object] \in {"table", "metadata"}
  <1>1. p \in BaseTables(st)
    BY DEF BaseTables
  <1>2. catalog[At(st, p).object] \in {"table", "metadata"}
    BY <1>1 DEF Verified
  <1>3. ASSUME At(st, p).object \in Protected
        PROVE  p \in Scoped(st) /\ Usable(rule, value)
    <2>1. At(st, p).name \in Protected \/ At(st, p).alias \in Protected
      BY <1>3, StatementAssumption
    <2>2. p \in Scoped(st)
      BY <1>1, <2>1 DEF RlsBlocks, Unproven, Scoped
    <2> QED
      BY <2>2 DEF RlsBlocks
  <1> QED
    BY <1>2, <1>3

-----------------------------------------------------------------------------
(* The inductive invariant. *)

RoundTypes ==
    /\ setting \in Settings
    /\ kinds \in Catalog /\ snapshot \in Catalog
    /\ kinds = Kinds \/ (Kinds[Hidden] = "table" /\ kinds[Hidden] = "view")
    /\ log \in Seq(Entries)
    /\ rounds \in Nat

\* Past the guards, and the check as far as it binds.
CallInv ==
    /\ at \in {"tool", "checking", "executing"} => n > 0 /\ call.sent = None
    /\ at \in {"checking", "executing"} => call.sql \in Statements /\ ~GuardsBlock(call.sql)
    /\ at = "executing" /\ Rules /\ (setting.engine = "sqlite" \/ kinds = Kinds) =>
          Verified(call.sql, Seen, setting.engine)

\* The same of every statement sent, with the catalog it ran on.
Settled(c) ==
    c.sent # None =>
        /\ c.sql \in Statements /\ ~GuardsBlock(c.sql)
        /\ Rules /\ (setting.engine = "sqlite" \/ kinds = Kinds) =>
              Verified(c.sql, c.sent, setting.engine)

RoundInv == RoundTypes /\ CallInv /\ \A i \in 1 .. Len(log) : Settled(log[i])

LEMMA RoundStarts == Init => RoundInv
  BY ToolRoundAssumption DEF Init, RoundInv, RoundTypes, CallInv, Catalog

\* A call ends: the entry that takes its place keeps its statement, and is one
\* that was not sent or one that the checks settle.
LEMMA CloseKeeps ==
    ASSUME RoundInv, NEW entry \in Entries, NEW components, n > 0, Settled(entry),
           Close(entry, components), kinds' = kinds
    PROVE  RoundInv'
  <1>1. /\ log' = [log EXCEPT ![n] = entry] /\ at' = "calls"
        /\ setting' = setting /\ snapshot' = snapshot /\ rounds' = rounds
    BY DEF Close
  <1>2. log' \in Seq(Entries) /\ Len(log') = Len(log)
    BY <1>1 DEF RoundInv, RoundTypes, n
  <1>3. \A i \in 1 .. Len(log') : log'[i] = entry \/ log'[i] = log[i]
    BY <1>1, <1>2 DEF RoundInv, RoundTypes, n
  <1>4. \A i \in 1 .. Len(log') : Settled(log[i]) /\ Settled(entry)
    BY <1>2 DEF RoundInv
  <1>5. \A i \in 1 .. Len(log') : Settled(log[i])'
    BY <1>1, <1>3, <1>4 DEF Settled, GuardsBlock, Rules
  <1>6. RoundTypes' /\ CallInv'
    BY <1>1, <1>2 DEF RoundInv, RoundTypes, CallInv
  <1> QED
    BY <1>5, <1>6 DEF RoundInv

\* A step that leaves the log and the catalog alone.
LEMMA QuietKeeps ==
    ASSUME RoundInv, UNCHANGED <<setting, kinds, snapshot, log>>, rounds' \in Nat,
           at' \in {"over", "model", "calls"}
    PROVE  RoundInv'
  BY DEF RoundInv, RoundTypes, CallInv, Settled, GuardsBlock, Rules

LEMMA OpenKeeps ==
    ASSUME RoundInv, Open
    PROVE  RoundInv'
  <1>1. PICK r \in Requests : log' = Append(log, r)
    BY DEF Open
  <1>2. UNCHANGED <<setting, kinds, snapshot, rounds>> /\ at' = "tool"
    BY DEF Open, loopVars
  <1>3. r \in Entries /\ r.sent = None
    <2>1. \E t \in Tools, a \in Arguments, st \in Statements \cup {None} :
             r = Asked(t, a, st)
      BY <1>1 DEF Requests, Tools, Arguments
    <2>2. PICK t \in Tools, a \in Arguments, st \in Statements \cup {None} :
             r = Asked(t, a, st)
      BY <2>1
    <2> QED
      BY <2>2 DEF Asked, Entries, RoundInv, RoundTypes
  <1>4. log' \in Seq(Entries) /\ Len(log') = Len(log) + 1 /\ log'[Len(log')] = r
    BY <1>1, <1>3 DEF RoundInv, RoundTypes
  <1>5. \A i \in 1 .. Len(log') : log'[i] = r \/ (i \in 1 .. Len(log) /\ log'[i] = log[i])
    BY <1>1, <1>3 DEF RoundInv, RoundTypes
  <1>6. \A i \in 1 .. Len(log') : Settled(log[i])'
    BY <1>2, <1>3, <1>5 DEF RoundInv, Settled, GuardsBlock, Rules
  <1>7. RoundTypes' /\ CallInv'
    BY <1>2, <1>3, <1>4 DEF RoundInv, RoundTypes, CallInv, n, call
  <1> QED
    BY <1>6, <1>7 DEF RoundInv

\* The call that is open is the last entry, and was not sent yet.
LEMMA CallIsOpen ==
    ASSUME RoundInv, at \in {"tool", "checking", "executing"}
    PROVE  n > 0 /\ n \in Nat /\ call \in Entries /\ call.sent = None
  BY DEF RoundInv, RoundTypes, CallInv, n, call

LEMMA FailKeeps ==
    ASSUME RoundInv, at \in {"tool", "checking", "executing"}, NEW components,
           Close(call, components), kinds' = kinds
    PROVE  RoundInv'
  <1>1. PICK e \in Entries : e = call
    BY CallIsOpen
  <1>2. Settled(e)
    BY <1>1, CallIsOpen DEF Settled
  <1>3. Close(e, components)
    BY <1>1
  <1> QED
    BY <1>2, <1>3, CallIsOpen, CloseKeeps

LEMMA SucceedKeeps ==
    ASSUME RoundInv, at = "tool", NEW components, NEW rows \in Nat, kinds' = kinds,
           \/ Close([call EXCEPT !.ok = TRUE], components)
           \/ Close([call EXCEPT !.ok = TRUE, !.rows = rows, !.shown = rows], components)
    PROVE  RoundInv'
  <1>1. PICK e \in Entries : e.sent = None /\ Close(e, components)
    BY CallIsOpen DEF Entries
  <1>2. Settled(e)
    BY <1>1 DEF Settled
  <1> QED
    BY <1>1, <1>2, CallIsOpen, CloseKeeps

LEMMA ExecuteKeeps ==
    ASSUME RoundInv, Execute
    PROVE  RoundInv'
  <1>1. at = "executing" /\ kinds' = kinds
    BY DEF Execute, Close
  <1>2. Seen \in Catalog
    BY DEF RoundInv, RoundTypes, Seen
  <1>3. PICK e \in Entries :
            e.sql = call.sql /\ e.sent = Seen /\ \E components : Close(e, components)
    <2> DEFINE sent == [call EXCEPT !.sent = Seen]
    <2>1. sent \in Entries /\ sent.sql = call.sql /\ sent.sent = Seen
      BY <1>1, <1>2, CallIsOpen DEF Entries
    <2> HIDE DEF sent
    <2>2. ASSUME NEW rows \in AnyRows, NEW components,
                 Close([sent EXCEPT !.ok = TRUE, !.rows = rows, !.shown = Fetched(rows).shown,
                                    !.noted = Fetched(rows).more], components)
          PROVE  \E e \in Entries : e.sql = call.sql /\ e.sent = Seen /\ \E cs : Close(e, cs)
      <3>1. Fetched(rows).shown \in Nat /\ Fetched(rows).more \in BOOLEAN /\ rows \in Nat
        BY <2>2, ToolRoundAssumption DEF Fetched, Least, Cap, RoundInv, RoundTypes
      <3> DEFINE e == [sent EXCEPT !.ok = TRUE, !.rows = rows, !.shown = Fetched(rows).shown,
                                   !.noted = Fetched(rows).more]
      <3>2. e \in Entries /\ e.sql = call.sql /\ e.sent = Seen
        BY <2>1, <3>1 DEF Entries
      <3> QED
        BY <2>2, <3>2
    <2>3. ASSUME NEW components, Close([sent EXCEPT !.ok = TRUE], components)
          PROVE  \E e \in Entries : e.sql = call.sql /\ e.sent = Seen /\ \E cs : Close(e, cs)
      <3>1. [sent EXCEPT !.ok = TRUE] \in Entries
        BY <2>1 DEF Entries
      <3>2. [sent EXCEPT !.ok = TRUE].sql = call.sql /\ [sent EXCEPT !.ok = TRUE].sent = Seen
        BY <2>1 DEF Entries
      <3> QED
        BY <2>3, <3>1, <3>2
    <2>4. \/ \E rows \in AnyRows : \E cs :
                 Close([sent EXCEPT !.ok = TRUE, !.rows = rows, !.shown = Fetched(rows).shown,
                                    !.noted = Fetched(rows).more], cs)
          \/ \E cs : Close([sent EXCEPT !.ok = TRUE], cs)
          \/ \E cs : Close(sent, cs)
      BY DEF Execute, sent
    <2> QED
      BY <2>1, <2>2, <2>3, <2>4
  <1>4. Settled(e)
    BY <1>1, <1>3 DEF RoundInv, CallInv, Settled
  <1> QED
    BY <1>1, <1>3, <1>4, CallIsOpen, CloseKeeps

\* Past the guards; without rules there is nothing to check.
LEMMA ConnectsKeeps ==
    ASSUME RoundInv, Connects
    PROVE  RoundInv'
  <1>1. /\ at = "tool" /\ call.sql # None /\ ~GuardsBlock(call.sql)
        /\ UNCHANGED <<setting, kinds, snapshot, log, rounds>>
        /\ at' = IF Rules THEN "checking" ELSE "executing"
    BY DEF Connects, loopVars
  <1>2. call.sql \in Statements /\ n > 0 /\ call.sent = None
    BY <1>1, CallIsOpen DEF Entries
  <1>3. UNCHANGED <<n, call>>
    BY <1>1 DEF n, call
  <1>4. CallInv'
    BY <1>1, <1>2, <1>3 DEF CallInv, GuardsBlock, Rules
  <1>5. RoundTypes' /\ \A i \in 1 .. Len(log') : Settled(log[i])'
    BY <1>1 DEF RoundInv, RoundTypes, Settled, GuardsBlock, Rules
  <1> QED
    BY <1>4, <1>5 DEF RoundInv

\* The check sees the catalog that is there; on SQLite it stays the statement's.
LEMMA CheckKeeps ==
    ASSUME RoundInv, Check
    PROVE  RoundInv'
  <1>1. at = "checking"
    BY DEF Check
  <1>2. CASE Fail
    BY <1>1, <1>2, FailKeeps DEF Fail, Close
  <1>3. CASE ~Fail
    <2>1. /\ Verified(call.sql, kinds, setting.engine)
          /\ at' = "executing" /\ snapshot' = kinds
          /\ UNCHANGED <<setting, kinds, log, rounds>>
      BY <1>3 DEF Check, loopVars
    <2>2. call.sql \in Statements /\ ~GuardsBlock(call.sql) /\ n > 0 /\ call.sent = None
      BY <1>1 DEF RoundInv, CallInv
    <2>3. UNCHANGED <<n, call>>
      BY <2>1 DEF n, call
    <2>4. Seen' = kinds
      BY <2>1 DEF Seen
    <2>5. CallInv'
      BY <2>1, <2>2, <2>3, <2>4 DEF CallInv, GuardsBlock, Rules
    <2>6. RoundTypes' /\ \A i \in 1 .. Len(log') : Settled(log[i])'
      BY <2>1 DEF RoundInv, RoundTypes, Settled, GuardsBlock, Rules
    <2> QED
      BY <2>5, <2>6 DEF RoundInv
  <1> QED
    BY <1>2, <1>3

\* The catalog another client changes differs from the one at the start for good.
LEMMA MigrateKeeps ==
    ASSUME RoundInv, Migrate
    PROVE  RoundInv'
  <1>1. /\ kinds' = [kinds EXCEPT ![Hidden] = "view"] /\ kinds[Hidden] = "table"
        /\ UNCHANGED <<setting, snapshot, at, log, rounds>>
    BY DEF Migrate, loopVars
  <1>2. kinds = Kinds /\ Kinds[Hidden] = "table"
    BY <1>1 DEF RoundInv, RoundTypes
  <1>3. kinds' \in Catalog /\ kinds'[Hidden] = "view"
    BY <1>1, ToolRoundAssumption DEF RoundInv, RoundTypes, Catalog
  <1>4. kinds' # Kinds
    BY <1>2, <1>3
  <1>5. RoundTypes'
    BY <1>1, <1>2, <1>3 DEF RoundInv, RoundTypes
  <1>6. CallInv'
    BY <1>1, <1>4 DEF RoundInv, CallInv, n, call, GuardsBlock, Rules, Seen
  <1>7. \A i \in 1 .. Len(log') : Settled(log[i])'
    BY <1>1, <1>2, <1>4 DEF RoundInv, Settled, GuardsBlock, Rules
  <1> QED
    BY <1>5, <1>6, <1>7 DEF RoundInv

LEMMA RoundKeeps == RoundInv /\ [Next]_vars => RoundInv'
  <1> SUFFICES ASSUME RoundInv, [Next]_vars
               PROVE  RoundInv'
    OBVIOUS
  <1>1. CASE Command \/ Answer \/ ModelFails \/ LimitStop
    <2>1. rounds' \in Nat
      BY <1>1 DEF Command, Answer, ModelFails, LimitStop, loopVars, RoundInv, RoundTypes
    <2> QED
      BY <1>1, <2>1, QuietKeeps DEF Command, Answer, ModelFails, LimitStop, Finish
  <1>2. CASE ToolCalls
    BY <1>2, QuietKeeps DEF ToolCalls, RoundInv, RoundTypes
  <1>3. CASE EndRound
    BY <1>3, QuietKeeps DEF EndRound, Finish, RoundInv, RoundTypes
  <1>4. CASE Open
    BY <1>4, OpenKeeps
  <1>5. CASE Refuse
    BY <1>5, FailKeeps DEF Refuse, Close
  <1>6. CASE OtherTool
    <2>1. at = "tool" /\ kinds' = kinds
      BY <1>6 DEF OtherTool, Succeed, Fail, Close
    <2>2. CASE Fail
      BY <2>1, <2>2, FailKeeps DEF Fail
    <2>3. ASSUME NEW components, Succeed(components)
          PROVE  RoundInv'
      BY <2>1, <2>3, SucceedKeeps DEF Succeed
    <2>4. ASSUME NEW rows \in AnyRows, NEW components,
                 Close([call EXCEPT !.ok = TRUE, !.rows = rows, !.shown = rows], components)
          PROVE  RoundInv'
      BY <2>1, <2>4, SucceedKeeps, ToolRoundAssumption
    <2> QED
      BY <1>6, <2>2, <2>3, <2>4 DEF OtherTool
  <1>7. CASE Connects
    BY <1>7, ConnectsKeeps
  <1>8. CASE Blocked
    BY <1>8, FailKeeps DEF Blocked, Fail, Close
  <1>9. CASE Check
    BY <1>9, CheckKeeps
  <1>10. CASE Migrate
    BY <1>10, MigrateKeeps
  <1>11. CASE Execute
    BY <1>11, ExecuteKeeps
  <1>12. CASE UNCHANGED vars
    BY <1>12 DEF vars, loopVars, RoundInv, RoundTypes, CallInv, n, call, Settled, GuardsBlock, Rules,
                 Seen
  <1> QED
    BY <1>1, <1>2, <1>3, <1>4, <1>5, <1>6, <1>7, <1>8, <1>9, <1>10, <1>11, <1>12 DEF Next

LEMMA RoundInvariant == Spec => []RoundInv
  BY RoundStarts, RoundKeeps, PTL DEF Spec

-----------------------------------------------------------------------------
(* What follows. *)

\* With rules, a statement reaches the database only with a predicate, from a usable
\* value, at every place it reads a protected table, and reads no view: on SQLite
\* whatever other clients do to the catalog, elsewhere while they leave it alone
\* (apply_rls, verify_base_tables, the chain of build_agent).
THEOREM ScopedRows == Spec => []RowsAreScoped
  <1>1. RoundInv => RowsAreScoped
    <2> SUFFICES ASSUME RoundInv, Rules, NEW i \in DOMAIN log, log[i].sent # None,
                        setting.engine = "sqlite" \/ kinds = Kinds
                 PROVE  ~ReadsUnscoped(log[i])
      BY DEF RowsAreScoped
    <2> DEFINE c == log[i]
    <2>1. i \in 1 .. Len(log)
      BY DEF RoundInv, RoundTypes
    <2>2. c.sql \in Statements /\ ~GuardsBlock(c.sql) /\ Verified(c.sql, c.sent, setting.engine)
      BY <2>1 DEF RoundInv, Settled
    <2>3. ~RlsBlocks(c.sql, setting.rule, setting.metadata)
      BY <2>2 DEF GuardsBlock
    <2> HIDE DEF c
    <2>4. \A p \in Places(c.sql) : ~Refers(c.sql, p[1], p[2]) =>
             /\ At(c.sql, p).object \in Protected =>
                   p \in Scoped(c.sql) /\ Usable(setting.rule, setting.metadata)
             /\ c.sent[At(c.sql, p).object] \in {"table", "metadata"}
      BY <2>2, <2>3, CheckedIsScoped
    <2>5. ~ReadsUnscoped(c)
      BY <2>4 DEF ReadsUnscoped
    <2> QED
      BY <2>5 DEF c
  <1> QED
    BY <1>1, RoundInvariant, PTL

-----------------------------------------------------------------------------
(* Numbers, and functions defined up to one.                                 *)

\* A nonempty set of numbers has a least member.
LEMMA MinIsLeast ==
    ASSUME NEW U, U \subseteq Nat, U # {}
    PROVE  Min(U) \in U /\ \A j \in U : Min(U) <= j
  <1>1. PICK i \in U : \A j \in U : ~(<<j, i>> \in OpToRel(<, Nat))
    BY NatLessThanWellFounded, WFMin
  <1>2. \A j \in U : ~(j < i)
    BY <1>1 DEF OpToRel
  <1>3. \A j \in U : i <= j
    BY <1>2
  <1> QED
    BY <1>3 DEF Min

\* One of numbers up to N has a greatest.
LEMMA MaxIsGreatest ==
    ASSUME NEW N \in Nat, NEW U, U \subseteq 0..N, U # {}
    PROVE  Max(U) \in U /\ \A j \in U : j <= Max(U)
  <1> DEFINE D == {N - j : j \in U}
  <1>1. D \subseteq Nat
    <2>1. \A j \in U : j \in 0..N
      OBVIOUS
    <2> QED
      BY <2>1
  <1>0. D # {}
    OBVIOUS
  <1>2. Min(D) \in D /\ \A d \in D : Min(D) <= d
    BY <1>0, <1>1, MinIsLeast
  <1>3. PICK k \in U : Min(D) = N - k
    BY <1>2
  <1>4. \A j \in U : N - k <= N - j
    BY <1>2, <1>3
  <1>5. \A j \in U : k >= j
    BY <1>4
  <1> QED
    BY <1>5 DEF Max

\* What holds of 0, and of a number when of the one before it, holds up to N.
LEMMA UpTo ==
    ASSUME NEW N \in Nat, NEW Good, 0 \in Good, \A i \in 1..N : i - 1 \in Good => i \in Good
    PROVE  0..N \subseteq Good
  <1> DEFINE Bad == {i \in 0..N : i \notin Good}
  <1> SUFFICES ASSUME Bad # {}
               PROVE  FALSE
    OBVIOUS
  <1>1. Min(Bad) \in Bad /\ \A j \in Bad : Min(Bad) <= j
    BY MinIsLeast
  <1>2. Min(Bad) \in 1..N /\ Min(Bad) - 1 \notin Bad
    BY <1>1
  <1> QED
    BY <1>1, <1>2

Steps(A, N) == [1..N -> [A -> A]]

Recurs(N, A, a, g) ==
    \E f \in [0..N -> A] : f[0] = a /\ \A i \in 1..N : f[i] = g[i][f[i - 1]]

\* A function defined by its first value and a step.
LEMMA Recursion ==
    ASSUME NEW N \in Nat, NEW A, NEW a \in A, NEW g \in Steps(A, N)
    PROVE  Recurs(N, A, a, g)
  <1> DEFINE Defines(f, m) ==
                f \in [0..m -> A] /\ f[0] = a /\ \A i \in 1..m : f[i] = g[i][f[i - 1]]
             Good == {m \in 0..N : \E f : Defines(f, m)}
  <1>1. 0 \in Good
    <2>1. Defines([i \in 0..0 |-> a], 0)
      OBVIOUS
    <2> HIDE DEF Defines
    <2> QED
      BY <2>1
  <1>2. ASSUME NEW m \in 1..N, m - 1 \in Good
        PROVE  m \in Good
    <2>1. PICK f : Defines(f, m - 1)
      BY <1>2
    <2> DEFINE h == [i \in 0..m |-> IF i = m THEN g[m][f[m - 1]] ELSE f[i]]
    <2>2. f[m - 1] \in A /\ g[m][f[m - 1]] \in A
      BY <2>1 DEF Steps
    <2>3. h \in [0..m -> A] /\ h[0] = a
      BY <2>1, <2>2
    <2>4. \A i \in 0..m : h[i] = IF i = m THEN g[m][f[m - 1]] ELSE f[i]
      OBVIOUS
    <2> HIDE DEF h
    <2>5. ASSUME NEW i \in 1..m
          PROVE  h[i] = g[i][h[i - 1]]
      <3>1. h[i - 1] = f[i - 1]
        BY <2>4
      <3>2. CASE i = m
        BY <2>4, <3>1, <3>2
      <3>3. CASE i # m
        <4>1. i \in 1..(m - 1) /\ h[i] = f[i]
          BY <2>4, <3>3
        <4> QED
          BY <2>1, <3>1, <4>1
      <3> QED
        BY <3>2, <3>3
    <2>6. Defines(h, m)
      BY <2>3, <2>5
    <2> HIDE DEF Defines
    <2> QED
      BY <2>6
  <1>3. 0..N \subseteq Good
    <2> HIDE DEF Good
    <2> QED
      BY <1>1, <1>2, UpTo
  <1>4. N \in Good
    BY <1>3
  <1> QED
    BY <1>4 DEF Recurs

-----------------------------------------------------------------------------
(* The pass over the components. *)

CardType ==
    [kind : {"card"}, call : Nat, status : {"running", "success", "error"},
     sql : Statements \cup {None}]

TableType == [kind : {"table"}, call : Nat, rows : Nat, shape : {st.shape : st \in Statements}]

ChartType == [kind : {"chart"}, call : Nat, rows : Nat, spec : Arguments]

Component ==
    CardType \cup TableType \cup ChartType \cup [kind : {"text"}, marked : BOOLEAN]
        \cup [kind : {"memory"}, hit : BOOLEAN] \cup {Notification, LimitBar, StopBar}

Full == {"table", "result_text", "chart"}

FullBlock == [type : Full, call : Nat, rows : Nat, truncated : Nat]

Block == FullBlock \cup [type : {"text"}, marked : BOOLEAN, at : Nat]

Acc ==
    [error : BOOLEAN, sql : Statements \cup {None}, catalog : BOOLEAN, count : Nat \cup {None},
     memory : BOOLEAN \cup {None}, blocks : Seq(Block)]

\* The block of the rows of a table or a chart: what it does not show, it counts.
LEMMA KeptIsAll ==
    ASSUME NEW rows \in Nat
    PROVE  /\ Kept(rows).kept \in Nat /\ Kept(rows).dropped \in Nat
           /\ Kept(rows).kept + Kept(rows).dropped = rows
  BY FormatAssumption DEF Kept, Least

\* A card leaves the blocks alone.
LEMMA OnCardIs ==
    ASSUME NEW acc \in Acc, NEW c \in CardType
    PROVE  /\ OnComponent(acc, c) \in Acc
           /\ OnComponent(acc, c).error = ErrorAfter(acc, c)
           /\ OnComponent(acc, c).catalog = Classified(acc, c)
           /\ OnComponent(acc, c).sql = IF c.sql = None THEN acc.sql ELSE c.sql
           /\ OnComponent(acc, c).count = CountAfter(acc, c)
           /\ OnComponent(acc, c).blocks = acc.blocks
  <1>1. OnComponent(acc, c) = OnCard(acc, c)
    BY DEF OnComponent, CardType
  <1>2. /\ ErrorAfter(acc, c) \in BOOLEAN /\ Classified(acc, c) \in BOOLEAN
        /\ CountAfter(acc, c) \in Nat \cup {None}
        /\ (IF c.sql = None THEN acc.sql ELSE c.sql) \in Statements \cup {None}
    BY DEF ErrorAfter, Classified, CountAfter, Acc, CardType, Introspection
  <1> QED
    BY <1>1, <1>2 DEF OnCard, Acc

\* A table sets the count, and adds its block unless the query reads a catalog.
LEMMA OnTableIs ==
    ASSUME NEW acc \in Acc, NEW c \in TableType
    PROVE  /\ OnComponent(acc, c) \in Acc
           /\ OnComponent(acc, c).error = acc.error
           /\ OnComponent(acc, c).catalog = acc.catalog
           /\ OnComponent(acc, c).sql = acc.sql
           /\ OnComponent(acc, c).count = c.rows
           /\ \/ /\ ~HasPayload(c) \/ acc.catalog
                 /\ OnComponent(acc, c).blocks = acc.blocks
              \/ /\ HasPayload(c) /\ ~acc.catalog
                 /\ \E b \in FullBlock :
                       /\ b.type # "chart" /\ b.call = c.call /\ b.rows + b.truncated = c.rows
                       /\ OnComponent(acc, c).blocks = Append(acc.blocks, b)
  <1> DEFINE p == Kept(c.rows)
             b == [type |-> IF Small(c, p) THEN "result_text" ELSE "table", call |-> c.call,
                   rows |-> p.kept, truncated |-> p.dropped]
             bs == IF HasPayload(c) /\ ~acc.catalog THEN Append(acc.blocks, b) ELSE acc.blocks
  <1>1. OnComponent(acc, c) = [acc EXCEPT !.count = c.rows, !.blocks = bs]
    BY DEF OnComponent, TableType, OnTable
  <1>2. p.kept \in Nat /\ p.dropped \in Nat /\ p.kept + p.dropped = c.rows /\ c.rows \in Nat
    BY KeptIsAll DEF TableType
  <1>3. /\ b \in FullBlock /\ b.type # "chart" /\ b.call = c.call
        /\ b.rows + b.truncated = c.rows
    <2> HIDE DEF p
    <2> QED
      BY <1>2 DEF FullBlock, Full, TableType
  <1> HIDE DEF b
  <1>4. bs \in Seq(Block)
    BY <1>3 DEF Acc, Block
  <1>5. \/ (~HasPayload(c) \/ acc.catalog) /\ bs = acc.blocks
        \/ HasPayload(c) /\ ~acc.catalog /\ bs = Append(acc.blocks, b)
    OBVIOUS
  <1> HIDE DEF bs
  <1>6. /\ OnComponent(acc, c) \in Acc /\ OnComponent(acc, c).count = c.rows
        /\ OnComponent(acc, c).blocks = bs
        /\ OnComponent(acc, c).error = acc.error
        /\ OnComponent(acc, c).catalog = acc.catalog
        /\ OnComponent(acc, c).sql = acc.sql
    BY <1>1, <1>2, <1>4 DEF Acc
  <1> QED
    BY <1>3, <1>5, <1>6

\* A chart adds its block, unless it is huge.
LEMMA OnChartIs ==
    ASSUME NEW acc \in Acc, NEW c \in ChartType
    PROVE  /\ OnComponent(acc, c) \in Acc
           /\ OnComponent(acc, c).error = acc.error
           /\ OnComponent(acc, c).catalog = acc.catalog
           /\ OnComponent(acc, c).sql = acc.sql
           /\ OnComponent(acc, c).count = acc.count
           /\ \/ c.spec = "huge" /\ OnComponent(acc, c).blocks = acc.blocks
              \/ /\ c.spec # "huge"
                 /\ \E b \in FullBlock :
                       /\ b.type = "chart" /\ b.call = c.call /\ b.rows + b.truncated = c.rows
                       /\ OnComponent(acc, c).blocks = Append(acc.blocks, b)
  <1> DEFINE p == Kept(c.rows)
             b == [type |-> "chart", call |-> c.call, rows |-> p.kept, truncated |-> p.dropped]
  <1>1. OnComponent(acc, c) = IF c.spec = "huge" THEN acc
                              ELSE [acc EXCEPT !.blocks = Append(@, b)]
    BY DEF OnComponent, ChartType, OnChart
  <1>2. p.kept \in Nat /\ p.dropped \in Nat /\ p.kept + p.dropped = c.rows /\ c.rows \in Nat
    BY KeptIsAll DEF ChartType
  <1>3. b \in FullBlock /\ b.type = "chart" /\ b.call = c.call /\ b.rows + b.truncated = c.rows
    <2> HIDE DEF p
    <2> QED
      BY <1>2 DEF FullBlock, Full, ChartType
  <1> HIDE DEF b
  <1>4. Append(acc.blocks, b) \in Seq(Block)
    BY <1>3 DEF Acc, Block
  <1>5. CASE c.spec = "huge"
    BY <1>1, <1>5
  <1>6. CASE c.spec # "huge"
    BY <1>1, <1>3, <1>4, <1>6 DEF Acc
  <1> QED
    BY <1>5, <1>6

\* What is neither a card nor a result changes no more than texts and the memory.
LEMMA OnOtherIs ==
    ASSUME NEW acc \in Acc, NEW c \in Component \ (CardType \cup TableType \cup ChartType)
    PROVE  /\ OnComponent(acc, c) \in Acc
           /\ OnComponent(acc, c).error = acc.error
           /\ OnComponent(acc, c).catalog = acc.catalog
           /\ OnComponent(acc, c).sql = acc.sql
           /\ OnComponent(acc, c).count = acc.count
           /\ \/ OnComponent(acc, c).blocks = acc.blocks
              \/ \E b \in Block \ FullBlock :
                    /\ b.type = "text"
                    /\ OnComponent(acc, c).blocks = Append(acc.blocks, b)
  <1>1. CASE c \in [kind : {"text"}, marked : BOOLEAN]
    <2> DEFINE b == [type |-> "text", marked |-> c.marked, at |-> Len(acc.blocks) + 1]
    <2>1. OnComponent(acc, c) = [acc EXCEPT !.blocks = Append(acc.blocks, b)]
      BY <1>1 DEF OnComponent, OnText
    <2>2. b \in Block /\ b.type = "text" /\ b \notin FullBlock
      BY <1>1 DEF Block, FullBlock, Full, Acc
    <2> HIDE DEF b
    <2>3. Append(acc.blocks, b) \in Seq(Block)
      BY <2>2 DEF Acc
    <2> QED
      BY <2>1, <2>2, <2>3 DEF Acc
  <1>2. CASE c \in [kind : {"memory"}, hit : BOOLEAN]
    <2>1. OnComponent(acc, c) = [acc EXCEPT !.memory = c.hit]
      BY <1>2 DEF OnComponent
    <2> QED
      BY <1>2, <2>1 DEF Acc
  <1>3. CASE c \in {Notification, LimitBar, StopBar}
    <2>1. OnComponent(acc, c) = acc
      BY <1>3 DEF OnComponent, Notification, LimitBar, StopBar
    <2> QED
      BY <2>1 DEF Acc
  <1> QED
    BY <1>1, <1>2, <1>3 DEF Component

LEMMA OnComponentType ==
    ASSUME NEW acc \in Acc, NEW c \in Component
    PROVE  OnComponent(acc, c) \in Acc
  BY OnCardIs, OnTableIs, OnChartIs, OnOtherIs

LEMMA NothingType == Nothing \in Acc
  BY DEF Nothing, Acc

\* The pass over a stream, component by component.
LEMMA PassIs ==
    ASSUME NEW s \in Seq(Component)
    PROVE  \E h \in [0..Len(s) -> Acc] :
              /\ h[0] = Nothing
              /\ \A i \in 1..Len(s) : h[i] = OnComponent(h[i - 1], s[i])
              /\ Collapsed(s) = h[Len(s)]
  <1> DEFINE N == Len(s)
             P(h) == h = [i \in 0..N |-> IF i = 0 THEN Nothing ELSE OnComponent(h[i - 1], s[i])]
             first == CHOOSE h : P(h)
             g == [i \in 1..N |-> [x \in Acc |-> OnComponent(x, s[i])]]
  <1>1. N \in Nat /\ \A i \in 1..N : s[i] \in Component
    OBVIOUS
  <1>2. Collapsed(s) = first[N]
    BY DEF Collapsed
  <1>3. \E h : P(h)
    <2>1. g \in Steps(Acc, N)
      BY <1>1, OnComponentType DEF Steps
    <2>2. \A x \in Acc, i \in 1..N : g[i][x] = OnComponent(x, s[i])
      OBVIOUS
    <2> HIDE DEF g, N
    <2>0. N \in Nat
      BY <1>1
    <2>3. PICK f \in [0..N -> Acc] :
              f[0] = Nothing /\ \A i \in 1..N : f[i] = g[i][f[i - 1]]
      <3>1. Recurs(N, Acc, Nothing, g)
        BY <2>0, <2>1, NothingType, Recursion
      <3> QED
        BY <3>1 DEF Recurs
    <2>4. ASSUME NEW i \in 1..N
          PROVE  f[i] = OnComponent(f[i - 1], s[i])
      <3>1. f[i - 1] \in Acc
        BY <2>0, <2>3
      <3> QED
        BY <2>2, <2>3, <3>1
    <2>5. P(f)
      BY <1>1, <2>3, <2>4
    <2> HIDE DEF P
    <2> QED
      BY <2>5
  <1>4. P(first)
    <2> HIDE DEF P
    <2> QED
      BY <1>3
  <1> HIDE DEF first
  <1>5. /\ first = [i \in 0..N |-> first[i]] /\ first[0] = Nothing
        /\ \A i \in 1..N : first[i] = OnComponent(first[i - 1], s[i])
    BY <1>1, <1>4
  <1> HIDE DEF N, P
  <1>6. first \in [0..N -> Acc]
    <2> DEFINE Good == {i \in 0..N : first[i] \in Acc}
    <2>1. 0 \in Good
      BY <1>1, <1>5, NothingType
    <2>2. \A i \in 1..N : i - 1 \in Good => i \in Good
      BY <1>1, <1>5, OnComponentType
    <2>3. 0..N \subseteq Good
      <3> HIDE DEF Good
      <3> QED
        BY <1>1, <2>1, <2>2, UpTo
    <2> QED
      BY <1>5, <2>3
  <1> QED
    BY <1>2, <1>5, <1>6 DEF N

LEMMA CollapsedType ==
    ASSUME NEW s \in Seq(Component)
    PROVE  Collapsed(s) \in Acc
  BY PassIs

LEMMA CollapsedNothing == Collapsed(<<>>) = Nothing
  <1>1. <<>> \in Seq(Component) /\ Len(<<>>) = 0
    OBVIOUS
  <1> QED
    BY <1>1, PassIs

\* One component more.
LEMMA CollapsedOneMore ==
    ASSUME NEW s \in Seq(Component), NEW c \in Component
    PROVE  Collapsed(Append(s, c)) = OnComponent(Collapsed(s), c)
  <1> DEFINE t == Append(s, c)
             N == Len(s)
  <1>1. N \in Nat /\ t \in Seq(Component) /\ Len(t) = N + 1 /\ t[N + 1] = c
        /\ \A i \in 1..N : t[i] = s[i]
    OBVIOUS
  <1>2. PICK h : /\ h[0] = Nothing /\ Collapsed(s) = h[N]
                 /\ \A i \in 1..N : h[i] = OnComponent(h[i - 1], s[i])
    BY PassIs
  <1> HIDE DEF t, N
  <1>3. PICK k : /\ k[0] = Nothing /\ Collapsed(t) = k[N + 1]
                 /\ \A i \in 1..(N + 1) : k[i] = OnComponent(k[i - 1], t[i])
    <2>1. t \in Seq(Component)
      BY <1>1
    <2>2. PICK k : /\ k[0] = Nothing /\ Collapsed(t) = k[Len(t)]
                   /\ \A i \in 1..Len(t) : k[i] = OnComponent(k[i - 1], t[i])
      BY <2>1, PassIs
    <2> QED
      BY <1>1, <2>2
  <1> DEFINE Good == {i \in 0..N : k[i] = h[i]}
  <1>4. 0 \in Good
    BY <1>1, <1>2, <1>3
  <1>5. \A i \in 1..N : i - 1 \in Good => i \in Good
    BY <1>1, <1>2, <1>3
  <1>6. 0..N \subseteq Good
    <2> HIDE DEF Good
    <2> QED
      BY <1>1, <1>4, <1>5, UpTo
  <1>7. k[N] = h[N]
    BY <1>1, <1>6
  <1>8. k[N + 1] = OnComponent(k[N], c)
    <2> DEFINE m == N + 1
    <2>1. m \in 1..(N + 1) /\ m - 1 = N /\ t[m] = c
      BY <1>1
    <2> HIDE DEF m
    <2>2. k[m] = OnComponent(k[m - 1], t[m])
      BY <1>3, <2>1
    <2> QED
      BY <2>1, <2>2 DEF m
  <1> QED
    BY <1>2, <1>3, <1>7, <1>8 DEF t

-----------------------------------------------------------------------------
(* The choice of the blocks and the budget. *)

LEMMA RangeOfAppend ==
    ASSUME NEW S, NEW s \in Seq(S), NEW c \in S
    PROVE  Range(Append(s, c)) = Range(s) \cup {c}
  <1> DEFINE t == Append(s, c)
  <1>1. /\ DOMAIN s = 1..Len(s) /\ DOMAIN t = 1..(Len(s) + 1) /\ Len(s) \in Nat
        /\ t[Len(s) + 1] = c /\ \A i \in 1..Len(s) : t[i] = s[i]
    OBVIOUS
  <1> HIDE DEF t
  <1>2. \A x : (\E i \in DOMAIN t : t[i] = x) <=> (\E i \in DOMAIN s : s[i] = x) \/ x = c
    BY <1>1
  <1>3. Range(t) = Range(s) \cup {c}
    BY <1>2 DEF Range
  <1> QED
    BY <1>3 DEF t

\* Among has the blocks to show, and no other.
LEMMA AmongIs ==
    ASSUME NEW bs \in Seq(Block), NEW shown
    PROVE  /\ Among(bs, shown) \in Seq(Block)
           /\ Range(Among(bs, shown)) = Range(bs) \cap shown
  <1> DEFINE N == Len(bs)
             More(x, b) == IF b \in shown THEN Append(x, b) ELSE x
             none == <<>>
             SB == Seq(Block)
             P(h) == h = [i \in 0..N |-> IF i = 0 THEN none ELSE More(h[i - 1], bs[i])]
             first == CHOOSE h : P(h)
             g == [i \in 1..N |-> [x \in SB |-> More(x, bs[i])]]
  <1>1. N \in Nat /\ \A i \in 1..N : bs[i] \in Block
    OBVIOUS
  <1>2. Among(bs, shown) = first[N]
    BY DEF Among
  <1>0. none \in SB /\ \A x \in SB, b \in Block : More(x, b) \in SB
    OBVIOUS
  <1> HIDE DEF none, SB, More
  <1>3. \E h : P(h)
    <2>1. g \in Steps(SB, N)
      BY <1>0, <1>1 DEF Steps
    <2>2. \A i \in 1..N : \A x \in SB : g[i][x] = More(x, bs[i])
      OBVIOUS
    <2>0. N \in Nat /\ none \in SB
      BY <1>0, <1>1
    <2> HIDE DEF g, N
    <2>3. PICK f \in [0..N -> SB] :
              f[0] = none /\ \A i \in 1..N : f[i] = g[i][f[i - 1]]
      <3>1. Recurs(N, SB, none, g)
        BY <2>0, <2>1, Recursion
      <3> QED
        BY <3>1 DEF Recurs
    <2>4. ASSUME NEW i \in 1..N
          PROVE  f[i] = More(f[i - 1], bs[i])
      <3>1. f[i - 1] \in SB
        BY <2>0, <2>3
      <3> QED
        BY <2>2, <2>3, <3>1
    <2>5. P(f)
      BY <2>0, <2>3, <2>4
    <2> HIDE DEF P
    <2> QED
      BY <2>5
  <1>4. P(first)
    <2> HIDE DEF P
    <2> QED
      BY <1>3
  <1> HIDE DEF first
  <1>5. first[0] = none /\ \A i \in 1..N : first[i] = More(first[i - 1], bs[i])
    BY <1>1, <1>4
  <1> HIDE DEF N, P
  <1> DEFINE Good == {i \in 0..N : /\ first[i] \in SB
                                   /\ Range(first[i]) = {bs[j] : j \in 1..i} \cap shown}
  <1>6. 0 \in Good
    <2>1. Range(none) = {}
      BY DEF Range, none
    <2> QED
      BY <1>0, <1>1, <1>5, <2>1
  <1>7. ASSUME NEW i \in 1..N, i - 1 \in Good
        PROVE  i \in Good
    <2> DEFINE x == first[i - 1]
               b == bs[i]
    <2>1. x \in SB /\ b \in Block /\ first[i] = More(x, b)
      BY <1>1, <1>5, <1>7
    <2>2. Range(x) = {bs[j] : j \in 1..(i - 1)} \cap shown
      BY <1>7
    <2>3. {bs[j] : j \in 1..i} = {bs[j] : j \in 1..(i - 1)} \cup {b}
      <3>1. \A j : j \in 1..i <=> j \in 1..(i - 1) \/ j = i
        BY <1>1
      <3> QED
        BY <3>1
    <2> HIDE DEF x, b
    <2>4. More(x, b) \in SB
      BY <1>0, <2>1
    <2>5. Range(More(x, b)) = (Range(x) \cup {b}) \cap shown
      <3>1. Range(Append(x, b)) = Range(x) \cup {b}
        BY <2>1, RangeOfAppend DEF SB
      <3> QED
        BY <2>2, <3>1 DEF More
    <2>6. Range(first[i]) = {bs[j] : j \in 1..i} \cap shown
      BY <2>1, <2>2, <2>3, <2>5
    <2> QED
      BY <1>1, <2>1, <2>4, <2>6
  <1>8. 0..N \subseteq Good
    <2> HIDE DEF Good
    <2> QED
      BY <1>1, <1>6, <1>7, UpTo
  <1>9. N \in Good
    BY <1>1, <1>8
  <1>10. {bs[j] : j \in 1..N} = Range(bs)
    BY DEF Range, N
  <1> QED
    BY <1>2, <1>9, <1>10 DEF SB

\* The choice is about texts alone: every block of a result is shown.
LEMMA ChosenIs ==
    ASSUME NEW bs \in Seq(Block)
    PROVE  /\ Chosen(bs) \in Seq(Block) /\ Range(Chosen(bs)) \subseteq Range(bs)
           /\ \A b \in Range(bs) : b.type \in Full => b \in Range(Chosen(bs))
  <1> DEFINE texts  == {b \in Range(bs) : b.type = "text"}
             marked == {b \in texts : b.marked}
             last   == {b \in texts : \A t \in texts : t.at <= b.at}
             shown  == (Range(bs) \ texts) \cup (IF marked # {} THEN marked ELSE last)
  <1>1. Chosen(bs) = Among(bs, shown)
    BY DEF Chosen
  <1>2. \A b \in Range(bs) : b.type \in Full => b \in shown
    BY DEF Full
  <1> HIDE DEF shown
  <1>3. Among(bs, shown) \in Seq(Block) /\ Range(Among(bs, shown)) = Range(bs) \cap shown
    BY AmongIs
  <1> QED
    BY <1>1, <1>2, <1>3

LEMMA SmallSizes == Size(<<>>) = 0 /\ \A x : Cost(x) \in Nat => Size(<<x>>) = Cost(x)
  <1>1. Size(<<>>) = 0
    <2> DEFINE P(h) == h = [i \in 0..Len(<<>>) |-> IF i = 0 THEN 0 ELSE h[i - 1] + Cost(<<>>[i])]
               first == CHOOSE h : P(h)
    <2>1. Size(<<>>) = first[Len(<<>>)]
      BY DEF Size
    <2>2. P([i \in 0..0 |-> 0])
      OBVIOUS
    <2>3. P(first)
      <3> HIDE DEF P
      <3> QED
        BY <2>2
    <2> HIDE DEF first
    <2> QED
      BY <2>1, <2>3
  <1>2. ASSUME NEW x, Cost(x) \in Nat
        PROVE  Size(<<x>>) = Cost(x)
    <2> DEFINE s == <<x>>
               P(h) == h = [i \in 0..Len(s) |-> IF i = 0 THEN 0 ELSE h[i - 1] + Cost(s[i])]
               first == CHOOSE h : P(h)
               one == [i \in 0..1 |-> IF i = 0 THEN 0 ELSE 0 + Cost(x)]
    <2>1. Size(s) = first[Len(s)]
      BY DEF Size
    <2>2. Len(s) = 1 /\ s[1] = x
      OBVIOUS
    <2>3. one[0] = 0 /\ \A i \in 1..1 : one[i] = one[i - 1] + Cost(s[i])
      OBVIOUS
    <2>4. one = [i \in 0..1 |-> one[i]]
      OBVIOUS
    <2> HIDE DEF s, one
    <2>5. P(one)
      BY <2>2, <2>3, <2>4
    <2>6. P(first)
      <3> HIDE DEF P
      <3> QED
        BY <2>5
    <2> HIDE DEF first
    <2>7. first[0] = 0 /\ first[1] = first[0] + Cost(s[1])
      BY <2>2, <2>6
    <2>8. Cost(s[1]) = Cost(x) /\ first[1] = 0 + Cost(x)
      BY <2>2, <2>7
    <2> QED
      BY <1>2, <2>1, <2>2, <2>8 DEF s
  <1> QED
    BY <1>1, <1>2

\* The blocks fit, or a prefix of them does with a notice of the others.
LEMMA TrimmedIs ==
    ASSUME NEW bs \in Seq(Block)
    PROVE  /\ Size(Trimmed(bs)) <= BlockBudget
           /\ \/ Trimmed(bs) = bs
              \/ \E k \in 0..(Len(bs) - 1) :
                    Trimmed(bs) = Append(SubSeq(bs, 1, k), Notice(Len(bs) - k))
  <1> DEFINE kept(k) == Append(SubSeq(bs, 1, k), Notice(Len(bs) - k))
             fits == {k \in 0..(Len(bs) - 1) : Size(kept(k)) <= BlockBudget}
  <1>1. Trimmed(bs) = IF Size(bs) <= BlockBudget THEN bs
                      ELSE kept(IF fits = {} THEN 0 ELSE Max(fits))
    BY DEF Trimmed
  <1>2. CASE Size(bs) <= BlockBudget
    BY <1>1, <1>2
  <1>3. CASE ~(Size(bs) <= BlockBudget)
    <2>1. Len(bs) \in Nat /\ Len(bs) > 0
      <3>1. CASE bs = <<>>
        BY <1>3, <3>1, SmallSizes, FormatAssumption
      <3> QED
        BY <3>1
    <2>2. 0 \in fits
      <3>0. SubSeq(bs, 1, 0) = <<>> /\ \A x : Append(<<>>, x) = <<x>>
        OBVIOUS
      <3>1. kept(0) = <<Notice(Len(bs) - 0)>>
        BY <3>0
      <3>3. Cost(Notice(Len(bs) - 0)) = 1
        BY DEF Cost, Notice
      <3> DEFINE x == Notice(Len(bs) - 0)
      <3>2. Cost(x) = 1 /\ kept(0) = <<x>>
        BY <3>1, <3>3
      <3> HIDE DEF x, kept
      <3>5. Size(<<x>>) = 1
        BY <3>2, SmallSizes
      <3>4. Size(kept(0)) <= BlockBudget
        BY <3>2, <3>5, FormatAssumption
      <3> QED
        BY <2>1, <3>4
    <2>3. Max(fits) \in fits
      <3> DEFINE m == Len(bs) - 1
      <3>1. m \in Nat /\ fits \subseteq 0..m /\ fits # {}
        BY <2>1, <2>2
      <3> HIDE DEF fits, m
      <3> QED
        BY <3>1, MaxIsGreatest
    <2> HIDE DEF kept
    <2>4. Max(fits) \in 0..(Len(bs) - 1) /\ Size(kept(Max(fits))) <= BlockBudget
      BY <2>3
    <2>5. Trimmed(bs) = kept(Max(fits))
      BY <1>1, <1>3, <2>2
    <2> HIDE DEF fits
    <2> DEFINE k == Max(fits)
    <2>6. k \in 0..(Len(bs) - 1) /\ Trimmed(bs) = kept(k)
      BY <2>4, <2>5
    <2> HIDE DEF k
    <2> QED
      BY <2>4, <2>5, <2>6 DEF kept
  <1> QED
    BY <1>2, <1>3

\* The calls whose blocks are dropped are no more than the notice says.
LEMMA TrimmedTells ==
    ASSUME NEW bs \in Seq(Block), NEW D,
           \A i \in D : \E b \in Range(bs) : b.type \in Full /\ b.call = i
    PROVE  LET shown   == Range(Trimmed(bs))
               missing == D \ {b.call : b \in {c \in shown : c.type \in Full}}
           IN  /\ \A b \in shown : b.type \in Full => b \in Range(bs)
               /\ missing # {} =>
                     \E c \in shown : c.type = "notice" /\ c.blocks >= Cardinality(missing)
  <1> DEFINE shown   == Range(Trimmed(bs))
             missing == D \ {b.call : b \in {c \in shown : c.type \in Full}}
             Goal == /\ \A b \in shown : b.type \in Full => b \in Range(bs)
                     /\ missing # {} =>
                         \E c \in shown : c.type = "notice" /\ c.blocks >= Cardinality(missing)
  <1>1. ASSUME Trimmed(bs) = bs
        PROVE  Goal
    <2>1. \A i \in D : \E b \in shown : b.type \in Full /\ b.call = i
      BY <1>1
    <2>2. missing = {}
      <3> HIDE DEF shown
      <3> QED
        BY <2>1
    <2> QED
      BY <1>1, <2>2
  <1>2. ASSUME \E k \in 0..(Len(bs) - 1) :
                  Trimmed(bs) = Append(SubSeq(bs, 1, k), Notice(Len(bs) - k))
        PROVE  Goal
    <2>1. PICK k \in 0..(Len(bs) - 1) :
              Trimmed(bs) = Append(SubSeq(bs, 1, k), Notice(Len(bs) - k))
      BY <1>2
    <2> DEFINE ts == Trimmed(bs)
               note == Notice(Len(bs) - k)
               N == Len(bs)
               P == {p \in (k + 1)..N : bs[p].call \in missing}
               f == [p \in P |-> bs[p].call]
    <2>2. /\ N \in Nat /\ k \in Nat /\ k < N /\ DOMAIN bs = 1..N /\ DOMAIN ts = 1..(k + 1)
          /\ ts[k + 1] = note /\ \A i \in 1..k : ts[i] = bs[i]
      BY <2>1
    <2>3. note.type = "notice" /\ note.blocks = N - k /\ note.type \notin Full
      BY DEF Notice, Full
    <2> HIDE DEF ts, note, N
    <2>4. shown = {bs[i] : i \in 1..k} \cup {note}
      <3>1. \A x : (\E i \in DOMAIN ts : ts[i] = x) <=> (\E i \in 1..k : bs[i] = x) \/ x = note
        BY <2>2
      <3> QED
        BY <3>1 DEF Range, ts
    <2> HIDE DEF shown
    <2>5. \A b \in shown : b.type \in Full => b \in Range(bs)
      BY <2>2, <2>3, <2>4 DEF Range
    <2>6. \A i \in missing : \E p \in P : bs[p].call = i
      <3> SUFFICES ASSUME NEW i \in missing
                   PROVE  \E p \in P : bs[p].call = i
        OBVIOUS
      <3>1. PICK b \in Range(bs) : b.type \in Full /\ b.call = i
        OBVIOUS
      <3>2. PICK p \in 1..N : bs[p] = b
        BY <2>2, <3>1 DEF Range
      <3>3. b \notin shown
        BY <3>1
      <3>4. p \notin 1..k
        BY <2>4, <3>2, <3>3
      <3>5. p \in (k + 1)..N
        BY <2>2, <3>2, <3>4
      <3> HIDE DEF missing
      <3> QED
        BY <3>1, <3>2, <3>5
    <2> HIDE DEF missing
    <2>7. f \in Surjection(P, missing)
      BY <2>6 DEF Surjection
    <2>8. IsFiniteSet((k + 1)..N) /\ Cardinality((k + 1)..N) = N - k
      <3> DEFINE a == k + 1
      <3>1. a \in Int /\ N \in Int /\ ~(a > N) /\ N - a + 1 = N - k
        BY <2>2
      <3> HIDE DEF a
      <3>2. IsFiniteSet(a..N) /\ Cardinality(a..N) = IF a > N THEN 0 ELSE N - a + 1
        BY <3>1, FS_Interval
      <3> QED
        BY <3>1, <3>2 DEF a
    <2> DEFINE I == (k + 1)..N
    <2>9. P \in SUBSET I
      OBVIOUS
    <2>10. IsFiniteSet(I) /\ Cardinality(I) = N - k
      BY <2>8
    <2> HIDE DEF I, P, f
    <2>11. IsFiniteSet(P) /\ Cardinality(P) <= Cardinality(I)
      BY <2>9, <2>10, FS_Subset
    <2>12. Cardinality(missing) <= Cardinality(P) /\ IsFiniteSet(missing)
      BY <2>7, <2>11, FS_Surjection
    <2>13. Cardinality(missing) \in Nat /\ Cardinality(P) \in Nat
      BY <2>11, <2>12, FS_CardinalityType
    <2>14. note.blocks >= Cardinality(missing)
      BY <2>2, <2>3, <2>10, <2>11, <2>12, <2>13
    <2>15. note \in shown
      BY <2>4
    <2> QED
      BY <2>3, <2>5, <2>14, <2>15
  <1>3. Goal
    BY <1>1, <1>2, TrimmedIs
  <1> QED
    BY <1>3

-----------------------------------------------------------------------------
(* What the pass has made of the components so far, beside the log so far.   *)

Answers(e) == e.ok /\ DataQuery(e)

Draws(e) == e.ok /\ e.tool = "emit_chart" /\ e.args # "huge"

\* The calls whose rows the user is due.
Due(e) == Draws(e) \/ (Answers(e) /\ e.shown > 0 /\ e.sql.shape # "huge")

\* Among the first m calls of the log one failed, and no data query succeeded since.
OpenFailure(l, m) == \E i \in 1..m : ~l[i].ok /\ \A j \in DOMAIN l : j > i => ~Answers(l[j])

LastQuery(l, i) == i \in DOMAIN l /\ l[i].sql # None /\ \A j \in DOMAIN l : j > i => l[j].sql = None

Counted(e) == IF e.ok /\ ReadShaped(e.sql) THEN e.shown ELSE None

\* The statement of the response is the last one asked for, the count its own.
QueryAgrees(acc, l) ==
    /\ acc.catalog = (acc.sql # None /\ Introspection(acc.sql))
    /\ (\A i \in DOMAIN l : l[i].sql = None) => acc.sql = None
    /\ \A i \in DOMAIN l : LastQuery(l, i) => acc.sql = l[i].sql /\ acc.count = Counted(l[i])

\* A block of rows is the result of a call that may show it, and tells all its rows.
Belongs(b, l) ==
    /\ b.call \in DOMAIN l
    /\ b.rows + b.truncated = l[b.call].shown
    /\ IF b.type = "chart" THEN Draws(l[b.call]) ELSE Answers(l[b.call])

BlocksAgree(acc, l) ==
    /\ \A b \in Range(acc.blocks) : b.type \in Full => Belongs(b, l)
    /\ \A i \in DOMAIN l : Due(l[i]) => \E b \in Range(acc.blocks) : b.type \in Full /\ b.call = i

\* A call nothing has become of yet.
Fresh(e) == ~e.ok /\ e.rows = 0 /\ e.shown = 0

LEMMA IntrospectionType == \A st : Introspection(st) \in BOOLEAN
  BY DEF Introspection

\* A call is asked for: it is the last one, with no result yet.
LEMMA AskedAgrees ==
    ASSUME NEW l \in Seq(Entries), NEW acc \in Acc, NEW r \in Entries, Fresh(r),
           acc.error = OpenFailure(l, Len(l)), QueryAgrees(acc, l), BlocksAgree(acc, l),
           NEW c, c = Card(Len(l) + 1, "running", r.sql)
    PROVE  /\ OnComponent(acc, c).error = OpenFailure(Append(l, r), Len(l))
           /\ QueryAgrees(OnComponent(acc, c), Append(l, r))
           /\ BlocksAgree(OnComponent(acc, c), Append(l, r))
  <1> DEFINE N == Len(l)
             k == Append(l, r)
             a == OnComponent(acc, c)
  <1>1. /\ N \in Nat /\ DOMAIN l = 1..N /\ DOMAIN k = 1..(N + 1) /\ k[N + 1] = r
        /\ \A i \in 1..N : k[i] = l[i]
    OBVIOUS
  <1>2. c \in CardType /\ c.status = "running" /\ c.sql = r.sql
    BY DEF Card, CardType, Entries
  <1>3. /\ a.error = ErrorAfter(acc, c) /\ a.catalog = Classified(acc, c)
        /\ a.sql = IF c.sql = None THEN acc.sql ELSE c.sql
        /\ a.count = CountAfter(acc, c) /\ a.blocks = acc.blocks
    BY <1>2, OnCardIs
  <1>4. acc.error \in BOOLEAN
    BY DEF Acc
  <1> HIDE DEF N, k, a
  <1>5. ~Answers(r) /\ ~Due(r)
    BY DEF Fresh, Answers, Due, Draws
  <1>6. a.error = OpenFailure(k, N)
    <2>1. a.error = acc.error
      BY <1>2, <1>3, <1>4 DEF ErrorAfter
    <2>2. OpenFailure(k, N) <=> OpenFailure(l, N)
      BY <1>1, <1>5 DEF OpenFailure
    <2> QED
      BY <2>1, <2>2 DEF N, OpenFailure
  <1>7. QueryAgrees(a, k)
    <2>1. CASE r.sql = None
      <3>1. a.sql = acc.sql /\ a.catalog = acc.catalog /\ a.count = acc.count
        BY <1>2, <1>3, <2>1 DEF Classified, CountAfter
      <3>2. \A i \in 1..(N + 1) : LastQuery(k, i) => i \in 1..N /\ LastQuery(l, i)
        BY <1>1, <2>1 DEF LastQuery
      <3>3. (\A i \in DOMAIN k : k[i].sql = None) => \A i \in DOMAIN l : l[i].sql = None
        BY <1>1
      <3> QED
        BY <1>1, <3>1, <3>2, <3>3 DEF QueryAgrees
    <2>2. CASE r.sql # None
      <3>1. a.sql = r.sql /\ a.count = None
        BY <1>2, <1>3, <2>2 DEF CountAfter
      <3>2. a.catalog = Introspection(r.sql)
        <4>1. CASE r.sql # acc.sql
          BY <1>2, <1>3, <2>2, <4>1 DEF Classified
        <4>2. CASE r.sql = acc.sql
          <5>1. a.catalog = acc.catalog
            BY <1>2, <1>3, <4>2 DEF Classified
          <5>2. acc.catalog = Introspection(acc.sql)
            BY <2>2, <4>2, IntrospectionType DEF QueryAgrees
          <5> QED
            BY <4>2, <5>1, <5>2
        <4> QED
          BY <4>1, <4>2
      <3>6. a.catalog = (a.sql # None /\ Introspection(a.sql))
        BY <2>2, <3>1, <3>2, IntrospectionType
      <3>3. \A i \in 1..(N + 1) : LastQuery(k, i) => i = N + 1
        BY <1>1, <2>2 DEF LastQuery
      <3>4. Counted(r) = None
        BY DEF Fresh, Counted
      <3>5. N + 1 \in DOMAIN k /\ k[N + 1] = r
        BY <1>1
      <3> QED
        BY <1>1, <2>2, <3>1, <3>3, <3>4, <3>5, <3>6 DEF QueryAgrees
    <2> QED
      BY <2>1, <2>2
  <1>8. BlocksAgree(a, k)
    <2>1. \A b : Belongs(b, l) => Belongs(b, k)
      BY <1>1 DEF Belongs
    <2>2. \A i \in DOMAIN k : Due(k[i]) => i \in DOMAIN l /\ Due(l[i])
      BY <1>1, <1>5
    <2> QED
      BY <1>3, <2>1, <2>2 DEF BlocksAgree
  <1> QED
    BY <1>6, <1>7, <1>8 DEF N, k, a

\* What the components that follow the card of a call add to the blocks.
Adds(a, d, e, k) ==
    \/ d.blocks = a.blocks /\ ~Due(e)
    \/ \E b \in Block :
          /\ d.blocks = Append(a.blocks, b)
          /\ b.type \notin Full => ~Due(e)
          /\ b.type \in Full => /\ b.call = k /\ b.rows + b.truncated = e.shown
                                /\ IF b.type = "chart" THEN Draws(e) ELSE Answers(e)

\* The last call ends: e takes its place, `a` is what its card makes of the pass,
\* `d` what the component of its result makes of that.
LEMMA EndedAgrees ==
    ASSUME NEW l \in Seq(Entries), l # <<>>, NEW e \in Entries, Fresh(l[Len(l)]),
           e.sql = l[Len(l)].sql, NEW acc \in Acc,
           acc.error = OpenFailure(l, Len(l) - 1), QueryAgrees(acc, l), BlocksAgree(acc, l),
           NEW c, c = Card(Len(l), IF e.ok THEN "success" ELSE "error", e.sql),
           NEW d, d.error = OnComponent(acc, c).error, d.catalog = OnComponent(acc, c).catalog,
           d.sql = OnComponent(acc, c).sql,
           d.count = IF e.sql = None THEN OnComponent(acc, c).count ELSE Counted(e),
           Adds(OnComponent(acc, c), d, e, Len(l))
    PROVE  /\ d.error = OpenFailure([l EXCEPT ![Len(l)] = e], Len(l))
           /\ QueryAgrees(d, [l EXCEPT ![Len(l)] = e])
           /\ BlocksAgree(d, [l EXCEPT ![Len(l)] = e])
  <1> DEFINE N == Len(l)
             k == [l EXCEPT ![N] = e]
             a == OnComponent(acc, c)
  <1>1. /\ N \in Nat /\ N > 0 /\ DOMAIN l = 1..N /\ DOMAIN k = 1..N /\ k[N] = e
        /\ \A i \in 1..N : i # N => k[i] = l[i]
    OBVIOUS
  <1>2. /\ c \in CardType /\ c.status = (IF e.ok THEN "success" ELSE "error") /\ c.sql = e.sql
        /\ e.ok \in BOOLEAN
    BY DEF Card, CardType, Entries
  <1>3. /\ a.error = ErrorAfter(acc, c) /\ a.catalog = Classified(acc, c)
        /\ a.sql = IF c.sql = None THEN acc.sql ELSE c.sql
        /\ a.count = CountAfter(acc, c) /\ a.blocks = acc.blocks
    BY <1>2, OnCardIs
  <1>4. acc.error \in BOOLEAN /\ acc.catalog \in BOOLEAN /\ acc.blocks \in Seq(Block)
    BY DEF Acc
  <1>5. /\ d.error = a.error /\ d.catalog = a.catalog /\ d.sql = a.sql /\ Adds(a, d, e, N)
        /\ d.count = IF e.sql = None THEN a.count ELSE Counted(e)
    OBVIOUS
  <1>6. l[N].sql = e.sql /\ ~l[N].ok /\ ~Answers(l[N]) /\ ~Due(l[N])
    BY DEF Fresh, Answers, Due, Draws
  <1>7. acc.error <=> OpenFailure(l, N - 1)
    OBVIOUS
  <1> HIDE DEF N, k, a
  <1>8. e.sql # None => acc.sql = e.sql
    BY <1>1, <1>6 DEF QueryAgrees, LastQuery
  <1>9. a.sql = acc.sql /\ a.catalog = acc.catalog
    BY <1>2, <1>3, <1>8 DEF Classified
  <1>10. d.error <=> OpenFailure(k, N)
    <2>1. d.error <=> ~e.ok \/ (acc.error /\ ~Answers(e))
      <3>1. e.sql # None => Classified(acc, c) = Introspection(e.sql)
        BY <1>3, <1>8, <1>9, IntrospectionType DEF QueryAgrees
      <3>2. a.error = ErrorAfter(acc, c) /\ c.sql = e.sql
        BY <1>2, <1>3
      <3>3. CASE e.ok
        <4>1. c.status = "success"
          BY <1>2, <3>3
        <4>2. ErrorAfter(acc, c) <=> acc.error /\ ~(e.sql # None /\ ~Classified(acc, c))
          BY <3>2, <4>1 DEF ErrorAfter
        <4>3. (e.sql # None /\ ~Classified(acc, c)) <=> Answers(e)
          BY <3>1, <3>3 DEF Answers, DataQuery
        <4> QED
          BY <1>5, <3>2, <3>3, <4>2, <4>3
      <3>4. CASE ~e.ok
        BY <1>2, <1>5, <3>2, <3>4 DEF ErrorAfter
      <3> QED
        BY <3>3, <3>4
    <2>2. OpenFailure(k, N) <=> ~e.ok \/ (OpenFailure(l, N - 1) /\ ~Answers(e))
      <3>1. ASSUME ~e.ok
            PROVE  OpenFailure(k, N)
        BY <1>1, <3>1 DEF OpenFailure
      <3>2. ASSUME OpenFailure(l, N - 1), ~Answers(e)
            PROVE  OpenFailure(k, N)
        BY <1>1, <3>2 DEF OpenFailure
      <3>3. ASSUME OpenFailure(k, N), e.ok
            PROVE  OpenFailure(l, N - 1) /\ ~Answers(e)
        <4>1. PICK i \in 1..N : ~k[i].ok /\ \A j \in DOMAIN k : j > i => ~Answers(k[j])
          BY <3>3 DEF OpenFailure
        <4>2. i \in 1..(N - 1) /\ ~l[i].ok
          BY <1>1, <3>3, <4>1
        <4>3. ~Answers(e)
          BY <1>1, <4>1, <4>2
        <4>4. \A j \in DOMAIN l : j > i => ~Answers(l[j])
          BY <1>1, <1>6, <4>1
        <4> QED
          BY <4>2, <4>3, <4>4 DEF OpenFailure
      <3> QED
        BY <3>1, <3>2, <3>3
    <2> QED
      BY <1>7, <2>1, <2>2
  <1>11. QueryAgrees(d, k)
    <2>1. d.sql = acc.sql /\ d.catalog = acc.catalog
      BY <1>5, <1>9
    <2>2. \A i \in DOMAIN k : k[i].sql = l[i].sql
      BY <1>1, <1>6
    <2>3. \A i \in DOMAIN k : LastQuery(k, i) <=> LastQuery(l, i)
      BY <1>1, <2>2 DEF LastQuery
    <2>4. ASSUME NEW i \in DOMAIN k, LastQuery(k, i)
          PROVE  d.sql = k[i].sql /\ d.count = Counted(k[i])
      <3>1. i \in DOMAIN l /\ acc.sql = l[i].sql /\ acc.count = Counted(l[i])
        BY <1>1, <2>3, <2>4 DEF QueryAgrees
      <3>2. CASE e.sql = None
        <4>1. i # N
          BY <1>1, <2>4, <3>2 DEF LastQuery
        <4>2. a.count = acc.count /\ k[i] = l[i]
          BY <1>1, <1>2, <1>3, <3>1, <3>2, <4>1 DEF CountAfter
        <4> QED
          BY <1>5, <2>1, <3>1, <3>2, <4>2
      <3>3. CASE e.sql # None
        <4>1. i = N
          BY <1>1, <2>4, <3>3 DEF LastQuery
        <4> QED
          BY <1>1, <1>5, <1>8, <2>1, <3>3, <4>1
      <3> QED
        BY <3>2, <3>3
    <2> QED
      BY <1>1, <2>1, <2>2, <2>4 DEF QueryAgrees
  <1>12. BlocksAgree(d, k)
    <2>1. \A b : Belongs(b, l) => Belongs(b, k)
      <3> SUFFICES ASSUME NEW b, Belongs(b, l)
                   PROVE  Belongs(b, k)
        OBVIOUS
      <3>1. b.call # N
        BY <1>6 DEF Belongs, Draws
      <3> QED
        BY <1>1, <3>1 DEF Belongs
    <2>2. \A i \in DOMAIN k : Due(k[i]) => i \in DOMAIN l /\ (Due(l[i]) \/ (i = N /\ Due(e)))
      BY <1>1
    <2>3. CASE d.blocks = a.blocks /\ ~Due(e)
      BY <1>3, <2>1, <2>2, <2>3 DEF BlocksAgree
    <2>4. ASSUME NEW b \in Block, d.blocks = Append(a.blocks, b),
                 b.type \notin Full => ~Due(e),
                 b.type \in Full => /\ b.call = N /\ b.rows + b.truncated = e.shown
                                    /\ IF b.type = "chart" THEN Draws(e) ELSE Answers(e)
          PROVE  BlocksAgree(d, k)
      <3>1. Range(d.blocks) = Range(acc.blocks) \cup {b}
        BY <1>3, <1>4, <2>4, RangeOfAppend
      <3>2. b.type \in Full => Belongs(b, k)
        BY <1>1, <2>4 DEF Belongs
      <3>3. \A x \in Range(d.blocks) : x.type \in Full => Belongs(x, k)
        BY <2>1, <3>1, <3>2 DEF BlocksAgree
      <3>4. \A i \in DOMAIN k : Due(k[i]) => \E x \in Range(d.blocks) : x.type \in Full /\ x.call = i
        BY <2>2, <2>4, <3>1 DEF BlocksAgree
      <3> QED
        BY <3>3, <3>4 DEF BlocksAgree
    <2> QED
      BY <1>5, <2>3, <2>4 DEF Adds
  <1> QED
    BY <1>10, <1>11, <1>12, <1>5, <1>3 DEF N, k, a, ErrorAfter, OpenFailure

-----------------------------------------------------------------------------
(* The cards of the stream, beside the log: the last card of a call tells    *)
(* what became of it.                                                       *)

LastCard(s, i, p) == p \in Cards(s, i) /\ \A q \in Cards(s, i) : q <= p

StatusOf(l, m, i) == IF i > m THEN "running" ELSE IF l[i].ok THEN "success" ELSE "error"

\* m calls of the log have ended.
CardsAgree(s, l, m) ==
    /\ \A c \in Range(s) : c.kind = "card" => c.call \in 0..Len(l)
    /\ \A i \in DOMAIN l : \E p \in DOMAIN s : LastCard(s, i, p) /\ s[p].status = StatusOf(l, m, i)

LEMMA CardsOfMore ==
    ASSUME NEW s \in Seq(Component), NEW c \in Component
    PROVE  /\ \A i, p : LastCard(s, i, p) /\ ~(c.kind = "card" /\ c.call = i) =>
                 LastCard(Append(s, c), i, p) /\ Append(s, c)[p] = s[p]
           /\ c.kind = "card" => /\ LastCard(Append(s, c), c.call, Len(s) + 1)
                                 /\ Append(s, c)[Len(s) + 1] = c
           /\ \A p \in DOMAIN s : p \in DOMAIN Append(s, c)
           /\ Len(s) + 1 \in DOMAIN Append(s, c)
  <1> DEFINE N == Len(s)
             t == Append(s, c)
  <1>1. /\ N \in Nat /\ DOMAIN s = 1..N /\ DOMAIN t = 1..(N + 1) /\ t[N + 1] = c
        /\ \A p \in 1..N : t[p] = s[p]
    OBVIOUS
  <1> HIDE DEF N, t
  <1>2. \A i, p : LastCard(s, i, p) /\ ~(c.kind = "card" /\ c.call = i) =>
           LastCard(t, i, p) /\ t[p] = s[p]
    BY <1>1 DEF LastCard, Cards
  <1>3. c.kind = "card" => LastCard(t, c.call, N + 1)
    BY <1>1 DEF LastCard, Cards
  <1>4. t[N + 1] = c /\ (\A p \in DOMAIN s : p \in DOMAIN t) /\ N + 1 \in DOMAIN t
    BY <1>1
  <1> QED
    BY <1>2, <1>3, <1>4, Zenon DEF N, t

\* Components that are no cards of a call.
LEMMA CardsKept ==
    ASSUME NEW s \in Seq(Component), NEW c \in Component, NEW l \in Seq(Entries), NEW m,
           CardsAgree(s, l, m), c.kind = "card" => c.call = 0
    PROVE  CardsAgree(Append(s, c), l, m)
  <1>1. Len(l) \in Nat /\ DOMAIN l = 1..Len(l)
    OBVIOUS
  <1> DEFINE t == Append(s, c)
  <1>2. Range(t) = Range(s) \cup {c}
    BY RangeOfAppend
  <1>3. /\ \A i, p : LastCard(s, i, p) /\ ~(c.kind = "card" /\ c.call = i) =>
              LastCard(t, i, p) /\ t[p] = s[p]
        /\ \A p \in DOMAIN s : p \in DOMAIN t
    BY CardsOfMore
  <1> HIDE DEF t
  <1>4. \A x \in Range(t) : x.kind = "card" => x.call \in 0..Len(l)
    BY <1>1, <1>2 DEF CardsAgree
  <1>5. ASSUME NEW i \in DOMAIN l
        PROVE  \E p \in DOMAIN t : LastCard(t, i, p) /\ t[p].status = StatusOf(l, m, i)
    <2>1. PICK p \in DOMAIN s : LastCard(s, i, p) /\ s[p].status = StatusOf(l, m, i)
      BY DEF CardsAgree
    <2>2. i # 0
      BY <1>1
    <2> QED
      BY <1>3, <2>1, <2>2
  <1>6. CardsAgree(t, l, m)
    BY <1>4, <1>5 DEF CardsAgree
  <1> QED
    BY <1>6 DEF t

\* The card of a call, the other calls keeping theirs.
LEMMA CardAdded ==
    ASSUME NEW s \in Seq(Component), NEW l \in Seq(Entries), NEW k \in Seq(Entries), NEW m, NEW j,
           CardsAgree(s, l, m), Len(l) <= Len(k), NEW i \in DOMAIN k,
           NEW c \in CardType, c.call = i, c.status = StatusOf(k, j, i),
           \A x \in DOMAIN k : x # i => x \in DOMAIN l /\ StatusOf(k, j, x) = StatusOf(l, m, x)
    PROVE  CardsAgree(Append(s, c), k, j)
  <1>1. /\ Len(l) \in Nat /\ Len(k) \in Nat /\ DOMAIN k = 1..Len(k) /\ c \in Component
        /\ c.kind = "card"
    BY DEF CardType, Component
  <1> DEFINE t == Append(s, c)
             q == Len(s) + 1
  <1>2. Range(t) = Range(s) \cup {c}
    BY <1>1, RangeOfAppend
  <1>3. /\ \A x, p : LastCard(s, x, p) /\ ~(c.kind = "card" /\ c.call = x) =>
              LastCard(t, x, p) /\ t[p] = s[p]
        /\ LastCard(t, i, q) /\ t[q] = c /\ q \in DOMAIN t
        /\ \A p \in DOMAIN s : p \in DOMAIN t
    BY <1>1, CardsOfMore
  <1> HIDE DEF t, q
  <1>4. \A x \in Range(t) : x.kind = "card" => x.call \in 0..Len(k)
    BY <1>1, <1>2 DEF CardsAgree
  <1>5. ASSUME NEW x \in DOMAIN k
        PROVE  \E p \in DOMAIN t : LastCard(t, x, p) /\ t[p].status = StatusOf(k, j, x)
    <2>1. CASE x = i
      BY <1>3, <2>1
    <2>2. CASE x # i
      <3>1. x \in DOMAIN l /\ StatusOf(k, j, x) = StatusOf(l, m, x)
        BY <2>2
      <3>2. PICK p \in DOMAIN s : LastCard(s, x, p) /\ s[p].status = StatusOf(l, m, x)
        BY <3>1 DEF CardsAgree
      <3> QED
        BY <1>3, <2>2, <3>1, <3>2
    <2> QED
      BY <2>1, <2>2
  <1>6. CardsAgree(t, k, j)
    BY <1>4, <1>5 DEF CardsAgree
  <1> QED
    BY <1>6 DEF t

-----------------------------------------------------------------------------
(* Stream and log, m calls of which have ended. *)

Agrees(s, l, m) ==
    /\ s \in Seq(Component)
    /\ Collapsed(s).error = (ErrorCard \in Range(s) \/ OpenFailure(l, m))
    /\ QueryAgrees(Collapsed(s), l)
    /\ BlocksAgree(Collapsed(s), l)
    /\ CardsAgree(s, l, m)

OtherComponent == Component \ (CardType \cup TableType \cup ChartType)

LEMMA ErrorCardIs ==
    /\ ErrorCard \in CardType /\ ErrorCard.status = "error" /\ ErrorCard.sql = None
    /\ ErrorCard.call = 0 /\ ErrorCard.kind = "card"
  BY DEF ErrorCard, Card, CardType

\* Components the loop adds when the run ends.
LEMMA LastWords ==
    ASSUME NEW s, NEW l \in Seq(Entries), NEW m, Agrees(s, l, m),
           NEW c \in OtherComponent \cup {ErrorCard}
    PROVE  Agrees(Append(s, c), l, m)
  <1> DEFINE t == Append(s, c)
             acc == Collapsed(s)
             a == OnComponent(acc, c)
  <1>1. s \in Seq(Component) /\ c \in Component
    BY ErrorCardIs DEF Agrees, OtherComponent, Component
  <1>2. t \in Seq(Component) /\ Range(t) = Range(s) \cup {c}
    BY <1>1, RangeOfAppend
  <1>3. acc \in Acc /\ Collapsed(t) = a
    BY <1>1, CollapsedType, CollapsedOneMore
  <1>4. /\ acc.error = (ErrorCard \in Range(s) \/ OpenFailure(l, m))
        /\ QueryAgrees(acc, l) /\ BlocksAgree(acc, l)
    BY DEF Agrees
  <1>5. CardsAgree(t, l, m)
    <2>1. c.kind = "card" => c.call = 0
      BY ErrorCardIs DEF OtherComponent, Component, CardType, TableType, ChartType, Notification,
                         LimitBar, StopBar
    <2>2. CardsAgree(s, l, m)
      BY DEF Agrees
    <2> QED
      BY <1>1, <2>1, <2>2, CardsKept
  <1> HIDE DEF t, a, acc
  <1>6. CASE c = ErrorCard
    <2>1. /\ a.error = ErrorAfter(acc, c) /\ a.catalog = Classified(acc, c)
          /\ a.sql = IF c.sql = None THEN acc.sql ELSE c.sql
          /\ a.count = CountAfter(acc, c) /\ a.blocks = acc.blocks
      BY <1>3, <1>6, ErrorCardIs, OnCardIs DEF a
    <2>2. a.error = TRUE
      BY <1>6, <2>1, ErrorCardIs DEF ErrorAfter
    <2>3. a.catalog = acc.catalog /\ a.sql = acc.sql /\ a.count = acc.count
      BY <1>6, <2>1, ErrorCardIs DEF Classified, CountAfter
    <2>4. QueryAgrees(a, l) /\ BlocksAgree(a, l)
      BY <1>4, <2>1, <2>3 DEF QueryAgrees, BlocksAgree
    <2> QED
      BY <1>2, <1>3, <1>5, <1>6, <2>2, <2>4 DEF Agrees, t
  <1>7. CASE c # ErrorCard
    <2>1. /\ a.error = acc.error /\ a.catalog = acc.catalog /\ a.sql = acc.sql
          /\ a.count = acc.count
          /\ \/ a.blocks = acc.blocks
             \/ \E b \in Block \ FullBlock : b.type = "text" /\ a.blocks = Append(acc.blocks, b)
      BY <1>3, <1>7, OnOtherIs DEF OtherComponent, a
    <2>2. QueryAgrees(a, l)
      BY <1>4, <2>1 DEF QueryAgrees
    <2>3. BlocksAgree(a, l)
      <3>1. CASE a.blocks = acc.blocks
        BY <1>4, <3>1 DEF BlocksAgree
      <3>2. ASSUME NEW b \in Block, b.type = "text", a.blocks = Append(acc.blocks, b)
            PROVE  BlocksAgree(a, l)
        <4>1. Range(a.blocks) = Range(acc.blocks) \cup {b}
          BY <1>3, <3>2, RangeOfAppend DEF Acc
        <4>2. b.type \notin Full
          BY <3>2 DEF Full
        <4> QED
          BY <1>4, <4>1, <4>2 DEF BlocksAgree
      <3> QED
        BY <2>1, <3>1, <3>2
    <2>4. a.error = (ErrorCard \in Range(t) \/ OpenFailure(l, m))
      BY <1>2, <1>4, <1>7, <2>1
    <2> QED
      BY <1>2, <1>3, <1>5, <2>2, <2>3, <2>4 DEF Agrees, t
  <1> QED
    BY <1>6, <1>7

\* A call is asked for.
LEMMA AskedKeeps ==
    ASSUME NEW s, NEW l \in Seq(Entries), Agrees(s, l, Len(l)), ErrorCard \notin Range(s),
           NEW r \in Entries, Fresh(r), NEW c, c = Card(Len(l) + 1, "running", r.sql)
    PROVE  Agrees(Append(s, c), Append(l, r), Len(l)) /\ ErrorCard \notin Range(Append(s, c))
  <1> DEFINE N == Len(l)
             t == Append(s, c)
             k == Append(l, r)
             acc == Collapsed(s)
             a == OnComponent(acc, c)
  <1>1. /\ N \in Nat /\ DOMAIN l = 1..N /\ DOMAIN k = 1..(N + 1) /\ k[N + 1] = r /\ Len(k) = N + 1
        /\ k \in Seq(Entries) /\ \A i \in 1..N : k[i] = l[i]
    OBVIOUS
  <1>2. c \in CardType /\ c.call = N + 1 /\ c.status = "running"
    BY DEF Card, CardType, Entries
  <1>3. s \in Seq(Component) /\ c \in Component
    BY <1>2 DEF Agrees, Component
  <1>4. t \in Seq(Component) /\ Range(t) = Range(s) \cup {c}
    BY <1>3, RangeOfAppend
  <1>5. acc \in Acc /\ Collapsed(t) = a
    BY <1>3, CollapsedType, CollapsedOneMore
  <1>6. acc.error = OpenFailure(l, N) /\ QueryAgrees(acc, l) /\ BlocksAgree(acc, l)
    BY DEF Agrees, OpenFailure
  <1>7. a.error = OpenFailure(k, N) /\ QueryAgrees(a, k) /\ BlocksAgree(a, k)
    BY <1>5, <1>6, AskedAgrees
  <1>8. CardsAgree(t, k, N)
    <2>1. CardsAgree(s, l, N)
      BY DEF Agrees
    <2> DEFINE i == N + 1
    <2>2. i \in DOMAIN k /\ c.call = i /\ N <= Len(k)
      BY <1>1, <1>2
    <2>3. c.status = StatusOf(k, N, i)
      BY <1>1, <1>2 DEF StatusOf
    <2>4. \A x \in DOMAIN k : x # i => x \in DOMAIN l /\ StatusOf(k, N, x) = StatusOf(l, N, x)
      BY <1>1 DEF StatusOf
    <2> HIDE DEF i, k
    <2> QED
      BY ZenonT(30), <1>1, <1>2, <1>3, <2>1, <2>2, <2>3, <2>4, CardAdded
  <1>9. c # ErrorCard
    BY <1>1, <1>2, ErrorCardIs
  <1>10. ErrorCard \notin Range(t)
    BY <1>4, <1>9
  <1> HIDE DEF t, k, a, acc
  <1>11. Agrees(t, k, N)
    BY <1>4, <1>5, <1>7, <1>8, <1>10 DEF Agrees, OpenFailure
  <1> QED
    BY <1>10, <1>11 DEF t, k

\* What may become of a call: nothing to show, a result of its own, rows.
Silent(e) == ~Due(e) /\ (e.sql # None => Counted(e) = None)

Charted(e) == e.ok /\ e.tool = "emit_chart" /\ e.sql = None

Fetches(e) ==
    /\ e.ok /\ e.sql \in Statements /\ e.sql # None /\ ReadShaped(e.sql)
    /\ e.tool # "emit_chart"

\* Nothing, or the component that shows it.
Shows(e, comps, k) ==
    \/ Silent(e) /\ comps = <<>>
    \/ Silent(e) /\ \E c \in OtherComponent : comps = <<c>>
    \/ Charted(e) /\ comps = <<Chart(k, e.shown, e.args)>>
    \/ Fetches(e) /\ comps = <<DataFrame(k, e.shown, e.sql.shape)>>

\* `d` is the pass after the card, `a`, and the component.
LEMMA ShownAdds ==
    ASSUME NEW a \in Acc, NEW e \in Entries, NEW k \in Nat, NEW c \in Component,
           a.catalog = (a.sql # None /\ Introspection(a.sql)),
           e.sql # None => a.sql = e.sql /\ a.count = None,
           Shows(e, <<c>>, k)
    PROVE  /\ c.kind # "card"
           /\ OnComponent(a, c).error = a.error /\ OnComponent(a, c).catalog = a.catalog
           /\ OnComponent(a, c).sql = a.sql
           /\ OnComponent(a, c).count = IF e.sql = None THEN a.count ELSE Counted(e)
           /\ Adds(a, OnComponent(a, c), e, k)
  <1> DEFINE d == OnComponent(a, c)
  <1>0. e.shown \in Nat /\ e.ok \in BOOLEAN
    BY DEF Entries
  <1>1. CASE Silent(e) /\ c \in OtherComponent
    <2>1. /\ d.error = a.error /\ d.catalog = a.catalog /\ d.sql = a.sql /\ d.count = a.count
          /\ \/ d.blocks = a.blocks
             \/ \E b \in Block \ FullBlock : b.type = "text" /\ d.blocks = Append(a.blocks, b)
      BY <1>1, OnOtherIs DEF OtherComponent
    <2> HIDE DEF d
    <2>2. Adds(a, d, e, k)
      BY <1>1, <2>1 DEF Silent, Adds, Full
    <2>3. d.count = IF e.sql = None THEN a.count ELSE Counted(e)
      BY <1>1, <2>1 DEF Silent
    <2>4. c.kind # "card"
      BY <1>1 DEF OtherComponent, Component, CardType, Notification, LimitBar, StopBar
    <2> QED
      BY <2>1, <2>2, <2>3, <2>4 DEF d
  <1>2. CASE Charted(e) /\ c = Chart(k, e.shown, e.args)
    <2>1. /\ c \in ChartType /\ c.kind = "chart" /\ c.call = k /\ c.rows = e.shown
          /\ c.spec = e.args
      BY <1>0, <1>2 DEF Chart, ChartType, Entries
    <2>2. /\ d.error = a.error /\ d.catalog = a.catalog /\ d.sql = a.sql /\ d.count = a.count
          /\ \/ c.spec = "huge" /\ d.blocks = a.blocks
             \/ /\ c.spec # "huge"
                /\ \E b \in FullBlock : /\ b.type = "chart" /\ b.call = c.call
                                        /\ b.rows + b.truncated = c.rows
                                        /\ d.blocks = Append(a.blocks, b)
      BY <2>1, OnChartIs
    <2> HIDE DEF d
    <2>5. Draws(e) <=> c.spec # "huge"
      BY <1>2, <2>1 DEF Charted, Draws
    <2>6. Due(e) <=> Draws(e)
      BY <1>2 DEF Charted, Due, Answers, DataQuery
    <2>3. Adds(a, d, e, k)
      BY <2>1, <2>2, <2>5, <2>6 DEF Adds, Block, FullBlock
    <2>4. d.count = IF e.sql = None THEN a.count ELSE Counted(e)
      BY <1>2, <2>2 DEF Charted
    <2> QED
      BY <2>1, <2>2, <2>3, <2>4 DEF d
  <1>3. CASE Fetches(e) /\ c = DataFrame(k, e.shown, e.sql.shape)
    <2>1. /\ c \in TableType /\ c.kind = "table" /\ c.call = k /\ c.rows = e.shown
          /\ c.shape = e.sql.shape
      BY <1>0, <1>3 DEF Fetches, DataFrame, TableType
    <2>2. /\ d.error = a.error /\ d.catalog = a.catalog /\ d.sql = a.sql /\ d.count = c.rows
          /\ \/ (~HasPayload(c) \/ a.catalog) /\ d.blocks = a.blocks
             \/ /\ HasPayload(c) /\ ~a.catalog
                /\ \E b \in FullBlock : /\ b.type # "chart" /\ b.call = c.call
                                        /\ b.rows + b.truncated = c.rows
                                        /\ d.blocks = Append(a.blocks, b)
      BY <2>1, OnTableIs
    <2> HIDE DEF d
    <2>3. a.catalog = Introspection(e.sql)
      BY <1>3, IntrospectionType DEF Fetches
    <2>4. ~Draws(e) /\ (Answers(e) <=> ~a.catalog)
      BY <1>3, <2>3 DEF Fetches, Draws, Answers, DataQuery
    <2>5. Due(e) <=> Answers(e) /\ HasPayload(c)
      BY <1>0, <2>1, <2>4 DEF Due, HasPayload
    <2>6. Adds(a, d, e, k)
      BY <2>1, <2>2, <2>4, <2>5 DEF Adds, Block, FullBlock
    <2>7. d.count = IF e.sql = None THEN a.count ELSE Counted(e)
      BY <1>3, <2>1, <2>2 DEF Fetches, Counted
    <2> QED
      BY <2>1, <2>2, <2>6, <2>7 DEF d
  <1>4. \/ Silent(e) /\ c \in OtherComponent
        \/ Charted(e) /\ c = Chart(k, e.shown, e.args)
        \/ Fetches(e) /\ c = DataFrame(k, e.shown, e.sql.shape)
    <2>1. \A x, y : <<x>> = <<y>> => x = y
      OBVIOUS
    <2>2. <<c>> # <<>>
      OBVIOUS
    <2> QED
      BY <2>1, <2>2 DEF Shows
  <1> QED
    BY <1>1, <1>2, <1>3, <1>4

\* A call ends.
LEMMA EndedKeeps ==
    ASSUME NEW s, NEW l \in Seq(Entries), l # <<>>, Agrees(s, l, Len(l) - 1),
           ErrorCard \notin Range(s), Fresh(l[Len(l)]),
           NEW e \in Entries, e.sql = l[Len(l)].sql,
           NEW c, c = Card(Len(l), IF e.ok THEN "success" ELSE "error", e.sql),
           NEW comps, Shows(e, comps, Len(l))
    PROVE  /\ Agrees(Append(s, c) \o comps, [l EXCEPT ![Len(l)] = e], Len(l))
           /\ ErrorCard \notin Range(Append(s, c) \o comps)
  <1> DEFINE N == Len(l)
             t == Append(s, c)
             k == [l EXCEPT ![N] = e]
             acc == Collapsed(s)
             a == OnComponent(acc, c)
  <1>1. /\ N \in Nat /\ N > 0 /\ DOMAIN l = 1..N /\ DOMAIN k = 1..N /\ k[N] = e /\ Len(k) = N
        /\ k \in Seq(Entries) /\ \A i \in 1..N : i # N => k[i] = l[i]
    OBVIOUS
  <1>2. /\ c \in CardType /\ c.call = N /\ c.status = (IF e.ok THEN "success" ELSE "error")
        /\ c.sql = e.sql /\ e.ok \in BOOLEAN
    BY DEF Card, CardType, Entries
  <1>3. s \in Seq(Component) /\ c \in Component
    BY <1>2 DEF Agrees, Component
  <1>4. t \in Seq(Component) /\ Range(t) = Range(s) \cup {c}
    BY <1>3, RangeOfAppend
  <1>5. acc \in Acc /\ Collapsed(t) = a
    BY <1>3, CollapsedType, CollapsedOneMore
  <1>6. /\ acc.error = OpenFailure(l, N - 1) /\ QueryAgrees(acc, l) /\ BlocksAgree(acc, l)
        /\ CardsAgree(s, l, N - 1)
    BY DEF Agrees, OpenFailure
  <1>17. l[N].sql = e.sql /\ Fresh(l[N]) /\ ErrorCard \notin Range(s) /\ Shows(e, comps, N)
    OBVIOUS
  <1>13. ASSUME NEW d, d.error = a.error, d.catalog = a.catalog, d.sql = a.sql,
                d.count = IF e.sql = None THEN a.count ELSE Counted(e), Adds(a, d, e, N)
         PROVE  d.error = OpenFailure(k, N) /\ QueryAgrees(d, k) /\ BlocksAgree(d, k)
    <2> HIDE DEF acc
    <2> QED
      BY <1>5, <1>6, <1>13, EndedAgrees
  <1> HIDE DEF t, k, a, acc, N
  <1>7. CardsAgree(t, k, N)
    <2> DEFINE m == N - 1
    <2>0. Len(l) = N
      BY DEF N
    <2>1. CardsAgree(s, l, m) /\ N \in DOMAIN k /\ Len(l) <= Len(k)
      BY <1>1, <1>6, <2>0
    <2>2. c.status = StatusOf(k, N, N)
      BY <1>1, <1>2 DEF StatusOf
    <2>3. \A x \in DOMAIN k : x # N => x \in DOMAIN l /\ StatusOf(k, N, x) = StatusOf(l, m, x)
      BY <1>1 DEF StatusOf
    <2> HIDE DEF m
    <2> QED
      BY SMTT(30), <1>1, <1>2, <1>3, <2>1, <2>2, <2>3, CardAdded DEF t
  <1>8. c # ErrorCard /\ ErrorCard \notin Range(t)
    BY <1>1, <1>2, <1>4, <1>17, ErrorCardIs
  <1>9. /\ a \in Acc /\ a.catalog = Classified(acc, c)
        /\ a.sql = (IF c.sql = None THEN acc.sql ELSE c.sql)
        /\ a.count = CountAfter(acc, c) /\ a.blocks = acc.blocks
    BY <1>2, <1>5, OnCardIs DEF a
  <1>10. e.sql # None => acc.sql = e.sql /\ acc.count = None
    <2>1. Counted(l[N]) = None
      BY <1>17 DEF Fresh, Counted
    <2>2. e.sql # None => LastQuery(l, N)
      BY <1>1, <1>17 DEF LastQuery
    <2> QED
      BY <1>1, <1>6, <1>17, <2>1, <2>2 DEF QueryAgrees
  <1>11. a.sql = acc.sql /\ a.catalog = acc.catalog /\ (e.sql # None => a.count = None)
    BY <1>2, <1>9, <1>10 DEF Classified, CountAfter
  <1>12. a.catalog = (a.sql # None /\ Introspection(a.sql))
    BY <1>6, <1>11 DEF QueryAgrees
  <1>14. CASE Silent(e) /\ comps = <<>>
    <2>1. t \o comps = t
      BY <1>4, <1>14
    <2>2. a.count = IF e.sql = None THEN a.count ELSE Counted(e)
      BY <1>11, <1>14 DEF Silent
    <2>3. Adds(a, a, e, N)
      BY <1>14 DEF Silent, Adds
    <2>4. a.error = OpenFailure(k, N) /\ QueryAgrees(a, k) /\ BlocksAgree(a, k)
      BY <1>13, <2>2, <2>3
    <2>5. Agrees(t, k, N)
      BY <1>4, <1>5, <1>7, <1>8, <2>4 DEF Agrees, OpenFailure
    <2> QED
      BY <1>8, <2>1, <2>5 DEF t, k, N
  <1>15. CASE \E x \in Component : comps = <<x>>
    <2>1. PICK x \in Component : comps = <<x>>
      BY <1>15
    <2> DEFINE u == Append(t, x)
               d == OnComponent(a, x)
    <2>2. t \o comps = u
      BY <1>4, <2>1
    <2>3. u \in Seq(Component) /\ Range(u) = Range(t) \cup {x} /\ Collapsed(u) = d
      BY <1>4, <1>5, RangeOfAppend, CollapsedOneMore
    <2>4. Shows(e, <<x>>, N)
      BY <1>17, <2>1
    <2>5. /\ x.kind # "card"
          /\ d.error = a.error /\ d.catalog = a.catalog /\ d.sql = a.sql
          /\ d.count = IF e.sql = None THEN a.count ELSE Counted(e)
          /\ Adds(a, d, e, N)
      BY <1>1, <1>9, <1>10, <1>11, <1>12, <2>4, ShownAdds
    <2> HIDE DEF d, u
    <2>6. d.error = OpenFailure(k, N) /\ QueryAgrees(d, k) /\ BlocksAgree(d, k)
      BY <1>13, <2>5
    <2>7. CardsAgree(u, k, N)
      BY <1>1, <1>4, <1>7, <2>5, CardsKept DEF u
    <2>8. ErrorCard \notin Range(u)
      BY <1>8, <2>3, <2>5, ErrorCardIs
    <2>9. Agrees(u, k, N)
      BY <2>3, <2>6, <2>7, <2>8 DEF Agrees, OpenFailure
    <2> QED
      BY <2>2, <2>8, <2>9 DEF t, k, N
  <1>16. \/ Silent(e) /\ comps = <<>>
         \/ \E x \in Component : comps = <<x>>
    <2>1. OtherComponent \subseteq Component
      BY DEF OtherComponent
    <2>2. Chart(N, e.shown, e.args) \in Component
      BY <1>1 DEF Chart, ChartType, Component, Entries
    <2>3. Fetches(e) => DataFrame(N, e.shown, e.sql.shape) \in Component
      BY <1>1 DEF Fetches, DataFrame, TableType, Component, Entries
    <2> QED
      BY <1>17, <2>1, <2>2, <2>3 DEF Shows
  <1> QED
    BY <1>14, <1>15, <1>16

-----------------------------------------------------------------------------
(* The inductive invariant of the answer. *)

InCall == at \in {"tool", "checking", "executing"}

\* The calls that have ended.
closed == IF InCall THEN n - 1 ELSE n

Sound(e) == (e.sql # None => e.tool = "run_sql") /\ (e.shown < e.rows => e.noted)

PassInv ==
    /\ Agrees(stream, log, closed)
    /\ at # "over" => ErrorCard \notin Range(stream)
    /\ InCall => Fresh(call)
    /\ at \in {"checking", "executing"} => call.sql # None
    /\ \A i \in 1..Len(log) : Sound(log[i])

EndInv ==
    /\ at # "over" => response = None
    /\ at = "over" => response = Response(stream, setting.details)

AnswerInv == RoundInv /\ PassInv /\ EndInv

LEMMA AnswerStarts == Init => AnswerInv
  <1> SUFFICES ASSUME Init
               PROVE  AnswerInv
    OBVIOUS
  <1>1. log = <<>> /\ stream = <<>> /\ at = "model" /\ response = None
    BY DEF Init
  <1>2. closed = 0 /\ Range(<<>>) = {}
    BY <1>1 DEF closed, InCall, n, Range
  <1>3. Agrees(<<>>, <<>>, 0)
    <2> DEFINE e == <<>>
    <2>1. e \in Seq(Component) /\ DOMAIN e = {} /\ Len(e) = 0 /\ Range(e) = {}
      BY DEF Range
    <2>2. Collapsed(e) = Nothing
      BY CollapsedNothing
    <2>3. Range(Nothing.blocks) = {} /\ ~Nothing.error /\ Nothing.sql = None /\ ~Nothing.catalog
          /\ Nothing.error \in BOOLEAN /\ Nothing.catalog \in BOOLEAN
      BY DEF Nothing, Range
    <2> HIDE DEF e
    <2>4. ~OpenFailure(e, 0) /\ Nothing.error = (ErrorCard \in Range(e) \/ OpenFailure(e, 0))
      BY <2>1, <2>3 DEF OpenFailure
    <2>5. QueryAgrees(Nothing, e)
      BY <2>1, <2>3 DEF QueryAgrees
    <2>6. BlocksAgree(Nothing, e)
      BY <2>1, <2>3 DEF BlocksAgree
    <2>7. CardsAgree(e, e, 0)
      BY <2>1 DEF CardsAgree
    <2>8. Agrees(e, e, 0)
      BY <2>1, <2>2, <2>4, <2>5, <2>6, <2>7 DEF Agrees
    <2> QED
      BY <2>8 DEF e
  <1>4. PassInv
    BY <1>1, <1>2, <1>3 DEF PassInv, InCall
  <1>5. EndInv
    BY <1>1 DEF EndInv
  <1> QED
    BY <1>4, <1>5, RoundStarts DEF AnswerInv

\* A step that asks for nothing, ends no call and adds no component.
LEMMA QuietAgrees ==
    ASSUME AnswerInv, UNCHANGED <<setting, log, stream, response>>,
           at # "over", at' # "over", InCall' <=> InCall,
           at' \in {"checking", "executing"} => call.sql # None
    PROVE  PassInv' /\ EndInv'
  <1>1. closed' = closed /\ call' = call
    BY DEF closed, n, call
  <1>2. PassInv'
    BY <1>1 DEF AnswerInv, PassInv, InCall
  <1> QED
    BY <1>2 DEF AnswerInv, EndInv

LEMMA OtherComponents ==
    /\ \A b \in BOOLEAN : Text(b) \in OtherComponent /\ MemorySearch(b) \in OtherComponent
    /\ {LimitBar, StopBar, Notification} \subseteq OtherComponent
  BY DEF OtherComponent, Component, CardType, TableType, ChartType, Text, MemorySearch, LimitBar,
         StopBar, Notification

\* The run ends, with what the loop has to say last.
LEMMA FinishAgrees ==
    ASSUME AnswerInv, at \in {"model", "calls"}, NEW comps, Finish(comps),
           UNCHANGED <<setting, log>>,
           \/ comps = <<>>
           \/ \E c \in OtherComponent \cup {ErrorCard} : comps = <<c>>
           \/ \E c, d \in OtherComponent : comps = <<c, d>>
    PROVE  PassInv' /\ EndInv'
  <1> DEFINE s == stream
  <1>1. /\ at' = "over" /\ stream' = s \o comps
        /\ response' = Response(stream', setting.details)
    BY DEF Finish
  <1>2. closed = n /\ closed' = n /\ n = Len(log)
    BY <1>1 DEF closed, InCall, n
  <1>3. log \in Seq(Entries) /\ s \in Seq(Component) /\ Agrees(s, log, n)
    BY <1>2 DEF AnswerInv, RoundInv, RoundTypes, PassInv, Agrees
  <1>4. Agrees(s \o comps, log, n)
    <2>1. CASE comps = <<>>
      <3>1. s \o comps = s
        BY <1>3, <2>1
      <3> QED
        BY <1>3, <3>1
    <2>2. ASSUME NEW c \in OtherComponent \cup {ErrorCard}, comps = <<c>>
          PROVE  Agrees(s \o comps, log, n)
      <3>1. s \o comps = Append(s, c)
        BY <1>3, <2>2
      <3> QED
        BY <1>3, <3>1, LastWords
    <2>3. ASSUME NEW c \in OtherComponent, NEW d \in OtherComponent, comps = <<c, d>>
          PROVE  Agrees(s \o comps, log, n)
      <3>0. c \in Component /\ d \in Component
        BY DEF OtherComponent
      <3> DEFINE t == Append(s, c)
      <3>1. s \o comps = Append(t, d)
        BY <1>3, <2>3, <3>0
      <3>2. Agrees(t, log, n)
        BY <1>3, LastWords
      <3> HIDE DEF t
      <3>3. Agrees(Append(t, d), log, n)
        BY <1>3, <3>2, LastWords
      <3> QED
        BY <3>1, <3>3
    <2> QED
      BY <2>1, <2>2, <2>3
  <1>5. PassInv'
    BY <1>1, <1>2, <1>4 DEF AnswerInv, PassInv, InCall
  <1> QED
    BY <1>1, <1>5 DEF EndInv

LEMMA OpenAgrees ==
    ASSUME AnswerInv, Open
    PROVE  PassInv' /\ EndInv'
  <1>1. PICK r \in Requests :
            log' = Append(log, r) /\ stream' = Append(stream, Card(n + 1, "running", r.sql))
    BY DEF Open
  <1>2. at = "calls" /\ at' = "tool" /\ UNCHANGED <<setting, response>>
    BY DEF Open
  <1>3. r \in Entries /\ Fresh(r) /\ Sound(r)
    <2>1. \E t \in Tools, a \in Arguments, st \in Statements \cup {None} :
             r = Asked(t, a, st) /\ (st = None \/ t = "run_sql")
      BY <1>1 DEF Requests, Tools, Arguments
    <2>2. PICK t \in Tools, a \in Arguments, st \in Statements \cup {None} :
             r = Asked(t, a, st) /\ (st = None \/ t = "run_sql")
      BY <2>1
    <2> QED
      BY <2>2 DEF Asked, Entries, Fresh, Sound, AnswerInv, RoundInv, RoundTypes
  <1>4. log \in Seq(Entries) /\ n = Len(log) /\ closed = n
    BY <1>2 DEF AnswerInv, RoundInv, RoundTypes, n, closed, InCall
  <1>5. /\ log' \in Seq(Entries) /\ Len(log') = n + 1 /\ n \in Nat /\ log'[n + 1] = r
        /\ \A i \in 1..n : log'[i] = log[i]
    BY <1>1, <1>3, <1>4
  <1>6. closed' = n /\ call' = r
    BY <1>2, <1>5 DEF closed, InCall, n, call
  <1>7. Agrees(stream', log', n) /\ ErrorCard \notin Range(stream')
    <2> DEFINE c == Card(n + 1, "running", r.sql)
    <2>1. Agrees(stream, log, Len(log)) /\ ErrorCard \notin Range(stream)
      BY <1>2, <1>4 DEF AnswerInv, PassInv
    <2>2. c = Card(Len(log) + 1, "running", r.sql)
      BY <1>4
    <2> HIDE DEF c
    <2>3. Agrees(Append(stream, c), Append(log, r), Len(log))
          /\ ErrorCard \notin Range(Append(stream, c))
      BY <1>3, <1>4, <2>1, <2>2, AskedKeeps
    <2> QED
      BY <1>1, <1>4, <2>3 DEF c
  <1>8. \A i \in 1..(n + 1) : Sound(log'[i])
    BY <1>3, <1>4, <1>5 DEF AnswerInv, PassInv
  <1>9. PassInv'
    BY <1>2, <1>3, <1>5, <1>6, <1>7, <1>8 DEF PassInv, InCall
  <1> QED
    BY <1>2, <1>9 DEF AnswerInv, EndInv

LEMMA CloseAgrees ==
    ASSUME AnswerInv, InCall, NEW e \in Entries, e.sql = call.sql, Sound(e), NEW comps,
           Shows(e, comps, n), Close(e, comps)
    PROVE  PassInv' /\ EndInv'
  <1> DEFINE c == Card(n, IF e.ok THEN "success" ELSE "error", e.sql)
  <1>1. /\ log' = [log EXCEPT ![n] = e] /\ at' = "calls" /\ UNCHANGED <<setting, response>>
        /\ stream' = Append(stream, c) \o comps
    BY DEF Close
  <1>2. log \in Seq(Entries) /\ n = Len(log) /\ n > 0 /\ n \in Nat /\ call = log[n] /\ at # "over"
    BY CallIsOpen DEF AnswerInv, RoundInv, RoundTypes, n, call, InCall
  <1>3. Agrees(stream, log, Len(log) - 1) /\ ErrorCard \notin Range(stream) /\ Fresh(log[Len(log)])
    BY <1>2 DEF AnswerInv, PassInv, closed
  <1>4. log # <<>> /\ e.sql = log[Len(log)].sql /\ Shows(e, comps, Len(log))
        /\ c = Card(Len(log), IF e.ok THEN "success" ELSE "error", e.sql)
    BY <1>2
  <1> HIDE DEF c
  <1>5. Agrees(stream', log', n) /\ ErrorCard \notin Range(stream')
    <2>1. /\ Agrees(Append(stream, c) \o comps, [log EXCEPT ![Len(log)] = e], Len(log))
          /\ ErrorCard \notin Range(Append(stream, c) \o comps)
      BY <1>2, <1>3, <1>4, EndedKeeps
    <2> QED
      BY <1>1, <1>2, <2>1
  <1>6. Len(log') = n /\ \A i \in 1..n : Sound(log'[i])
    BY <1>1, <1>2 DEF AnswerInv, PassInv
  <1>7. closed' = n
    BY <1>1, <1>6 DEF closed, InCall, n
  <1>8. PassInv'
    BY <1>1, <1>5, <1>6, <1>7 DEF PassInv, InCall
  <1> QED
    BY <1>1, <1>2, <1>8 DEF AnswerInv, EndInv

\* The call at hand.
LEMMA CallIs ==
    ASSUME AnswerInv, InCall
    PROVE  /\ call \in Entries /\ Fresh(call) /\ Sound(call) /\ n \in Nat
           /\ at = "executing" => call.sql \in Statements /\ call.sql # None
  <1>1. call \in Entries /\ n > 0 /\ n \in Nat /\ n = Len(log) /\ call = log[n]
    BY CallIsOpen DEF AnswerInv, RoundInv, RoundTypes, n, call, InCall
  <1> QED
    BY <1>1 DEF AnswerInv, RoundInv, CallInv, PassInv

\* A call that fails before it is sent.
LEMMA FailAgrees ==
    ASSUME AnswerInv, InCall, Close(call, <<>>)
    PROVE  PassInv' /\ EndInv'
  <1>1. Shows(call, <<>>, n)
    BY CallIs DEF Shows, Silent, Due, Draws, Answers, Counted, Fresh
  <1> QED
    BY <1>1, CallIs, CloseAgrees

\* A call of a tool but run_sql that succeeds.
LEMMA SucceedAgrees ==
    ASSUME AnswerInv, at = "tool", call.tool \notin {"run_sql", "emit_chart"}, NEW comps,
           comps = <<>> \/ \E c \in OtherComponent : comps = <<c>>,
           Close([call EXCEPT !.ok = TRUE], comps)
    PROVE  PassInv' /\ EndInv'
  <1>1. call \in Entries /\ Fresh(call) /\ Sound(call) /\ InCall
    BY CallIs DEF InCall
  <1> DEFINE e == [call EXCEPT !.ok = TRUE]
  <1>2. /\ e \in Entries /\ e.sql = call.sql /\ e.tool = call.tool /\ e.rows = call.rows
        /\ e.shown = call.shown /\ e.noted = call.noted
    BY <1>1 DEF Entries
  <1> HIDE DEF e
  <1>3. e.sql = None /\ Sound(e)
    BY <1>1, <1>2 DEF Sound
  <1>4. Shows(e, comps, n)
    BY <1>2, <1>3 DEF Shows, Silent, Due, Draws, Answers, DataQuery
  <1>5. Close(e, comps)
    BY DEF e
  <1> QED
    BY <1>1, <1>2, <1>3, <1>4, <1>5, CloseAgrees

LEMMA OtherToolAgrees ==
    ASSUME AnswerInv, OtherTool
    PROVE  PassInv' /\ EndInv'
  <1>1. at = "tool" /\ InCall
    BY DEF OtherTool, InCall
  <1>2. CASE Fail
    BY <1>1, <1>2, FailAgrees DEF Fail
  <1>3. CASE call.tool = "emit_text" /\ Succeed(<<Text(TRUE)>>)
    BY <1>1, <1>3, SucceedAgrees, OtherComponents DEF Succeed
  <1>4. ASSUME NEW hit \in BOOLEAN, call.tool = "search", Succeed(<<MemorySearch(hit)>>)
        PROVE  PassInv' /\ EndInv'
    BY <1>1, <1>4, SucceedAgrees, OtherComponents DEF Succeed
  <1>5. CASE call.tool = "save" /\ Succeed(<<>>)
    BY <1>1, <1>5, SucceedAgrees DEF Succeed
  <1>6. ASSUME NEW rows \in AnyRows, call.tool = "emit_chart",
               Close([call EXCEPT !.ok = TRUE, !.rows = rows, !.shown = rows],
                     <<Chart(n, rows, call.args)>>)
        PROVE  PassInv' /\ EndInv'
    <2>1. call \in Entries /\ Sound(call) /\ rows \in Nat
      BY <1>1, CallIs, ToolRoundAssumption
    <2> DEFINE e == [call EXCEPT !.ok = TRUE, !.rows = rows, !.shown = rows]
    <2>2. /\ e \in Entries /\ e.sql = call.sql /\ e.tool = call.tool /\ e.rows = rows
          /\ e.shown = rows /\ e.ok /\ e.args = call.args
      BY <2>1 DEF Entries
    <2>3. Close(e, <<Chart(n, rows, call.args)>>)
      BY <1>6
    <2> HIDE DEF e
    <2>4. e.sql = None /\ Sound(e)
      BY <1>6, <2>1, <2>2 DEF Sound
    <2>5. Shows(e, <<Chart(n, rows, call.args)>>, n)
      BY <1>6, <2>2, <2>4 DEF Shows, Charted
    <2> QED
      BY <1>1, <2>2, <2>3, <2>4, <2>5, CloseAgrees
  <1> QED
    BY <1>2, <1>3, <1>4, <1>5, <1>6 DEF OtherTool

LEMMA ExecuteAgrees ==
    ASSUME AnswerInv, Execute
    PROVE  PassInv' /\ EndInv'
  <1>1. at = "executing" /\ InCall
    BY DEF Execute, InCall
  <1>2. /\ call \in Entries /\ Fresh(call) /\ Sound(call)
        /\ call.sql \in Statements /\ call.sql # None
    BY <1>1, CallIs
  <1> DEFINE sent == [call EXCEPT !.sent = Seen]
  <1>3. /\ sent \in Entries /\ sent.sql = call.sql /\ sent.tool = call.tool /\ Fresh(sent)
        /\ Sound(sent)
    <2>1. Seen \in Catalog
      BY DEF AnswerInv, RoundInv, RoundTypes, Seen
    <2> QED
      BY <1>2, <2>1 DEF Entries, Fresh, Sound
  <1>4. \/ /\ ReadShaped(call.sql)
           /\ \E rows \in AnyRows :
                 Close([sent EXCEPT !.ok = TRUE, !.rows = rows, !.shown = Fetched(rows).shown,
                                    !.noted = Fetched(rows).more],
                       <<DataFrame(n, Fetched(rows).shown, call.sql.shape)>>)
        \/ ~ReadShaped(call.sql) /\ Close([sent EXCEPT !.ok = TRUE], <<Notification>>)
        \/ Close(sent, <<>>)
    BY DEF Execute
  <1> HIDE DEF sent
  <1>5. sent.tool = "run_sql" /\ sent.sql # None /\ sent.sql \in Statements
    BY <1>2, <1>3 DEF Sound
  <1>6. ASSUME NEW rows \in AnyRows, ReadShaped(call.sql),
               Close([sent EXCEPT !.ok = TRUE, !.rows = rows, !.shown = Fetched(rows).shown,
                                  !.noted = Fetched(rows).more],
                     <<DataFrame(n, Fetched(rows).shown, call.sql.shape)>>)
        PROVE  PassInv' /\ EndInv'
    <2> DEFINE got == Fetched(rows).shown
               more == Fetched(rows).more
    <2>1. got \in Nat /\ more \in BOOLEAN /\ rows \in Nat /\ (got < rows => more)
      <3>1. rows \in Nat /\ MaxRows \in Nat /\ setting.profileRows \in Nat
        BY ToolRoundAssumption DEF AnswerInv, RoundInv, RoundTypes
      <3>2. Cap \in Nat
        BY <3>1 DEF Cap, Least
      <3>3. got = (IF rows <= Cap THEN rows ELSE Cap) /\ more = (rows > Cap)
        BY DEF Fetched, Least
      <3>4. (rows > Cap) \in BOOLEAN
        OBVIOUS
      <3> HIDE DEF got, more
      <3>5. got \in Nat
        BY <3>1, <3>2, <3>3
      <3>6. more \in BOOLEAN
        BY <3>3, <3>4
      <3>7. got < rows => rows > Cap
        BY <3>1, <3>2, <3>3
      <3> QED
        BY <3>1, <3>3, <3>5, <3>6, <3>7
    <2> DEFINE e == [sent EXCEPT !.ok = TRUE, !.rows = rows, !.shown = got, !.noted = more]
               comps == <<DataFrame(n, got, call.sql.shape)>>
    <2>2. Close(e, comps)
      BY <1>6
    <2> HIDE DEF got, more
    <2>3. /\ e \in Entries /\ e.sql = sent.sql /\ e.tool = sent.tool /\ e.rows = rows
          /\ e.shown = got /\ e.noted = more /\ e.ok
      BY <1>3, <2>1 DEF Entries
    <2>4. comps = <<DataFrame(n, e.shown, e.sql.shape)>>
      BY <1>3, <2>3
    <2> HIDE DEF e, comps
    <2>5. Sound(e)
      BY <1>5, <2>1, <2>3 DEF Sound
    <2>6. Shows(e, comps, n)
      BY <1>3, <1>5, <1>6, <2>3, <2>4 DEF Shows, Fetches
    <2> QED
      BY <1>1, <1>3, <2>2, <2>3, <2>5, <2>6, CloseAgrees
  <1>7. CASE ~ReadShaped(call.sql) /\ Close([sent EXCEPT !.ok = TRUE], <<Notification>>)
    <2> DEFINE e == [sent EXCEPT !.ok = TRUE]
               comps == <<Notification>>
    <2>1. /\ e \in Entries /\ e.sql = sent.sql /\ e.tool = sent.tool /\ e.rows = sent.rows
          /\ e.shown = sent.shown /\ e.noted = sent.noted
      BY <1>3 DEF Entries
    <2>2. Close(e, comps) /\ \E c \in OtherComponent : comps = <<c>>
      BY <1>7, OtherComponents
    <2> HIDE DEF e, comps
    <2>3. Sound(e)
      BY <1>3, <2>1 DEF Sound
    <2>4. e.shown = 0 /\ ~ReadShaped(e.sql) /\ e.tool = "run_sql"
      BY <1>3, <1>5, <1>7, <2>1 DEF Fresh
    <2>5. Shows(e, comps, n)
      BY <2>2, <2>4 DEF Shows, Silent, Due, Draws, Counted
    <2> QED
      BY <1>1, <1>3, <2>1, <2>2, <2>3, <2>5, CloseAgrees
  <1>8. CASE Close(sent, <<>>)
    <2>1. Shows(sent, <<>>, n)
      BY <1>3 DEF Shows, Silent, Due, Draws, Answers, Counted, Fresh
    <2> QED
      BY <1>1, <1>3, <1>8, <2>1, CloseAgrees
  <1> QED
    BY <1>4, <1>6, <1>7, <1>8

LEMMA AnswerKeeps == AnswerInv /\ [Next]_vars => AnswerInv'
  <1> SUFFICES ASSUME AnswerInv, [Next]_vars
               PROVE  PassInv' /\ EndInv'
    BY RoundKeeps DEF AnswerInv
  <1>1. CASE Command
    <2>1. at \in {"model", "calls"} /\ UNCHANGED <<setting, log>> /\ Finish(<<Text(FALSE), Text(FALSE)>>)
      BY <1>1 DEF Command
    <2> QED
      BY <2>1, FinishAgrees, OtherComponents
  <1>2. CASE Answer
    <2>1. at \in {"model", "calls"} /\ UNCHANGED <<setting, log>>
      BY <1>2 DEF Answer
    <2>2. Finish(<<Text(TRUE)>>) \/ Finish(<<>>)
      BY <1>2 DEF Answer
    <2>3. CASE Finish(<<Text(TRUE)>>)
      BY <2>1, <2>3, FinishAgrees, OtherComponents
    <2>4. CASE Finish(<<>>)
      BY <2>1, <2>4, FinishAgrees
    <2> QED
      BY <2>2, <2>3, <2>4
  <1>3. CASE ModelFails
    <2>1. at \in {"model", "calls"} /\ UNCHANGED <<setting, log>> /\ Finish(<<ErrorCard>>)
      BY <1>3 DEF ModelFails
    <2> QED
      BY <2>1, FinishAgrees
  <1>4. CASE LimitStop
    <2>1. at \in {"model", "calls"} /\ UNCHANGED <<setting, log>> /\ Finish(<<LimitBar, Text(TRUE)>>)
      BY <1>4 DEF LimitStop
    <2> QED
      BY <2>1, FinishAgrees, OtherComponents
  <1>5. CASE ToolCalls
    BY <1>5, QuietAgrees DEF ToolCalls, InCall
  <1>6. CASE EndRound
    <2>1. at = "calls" /\ UNCHANGED <<setting, log>>
      BY <1>6 DEF EndRound
    <2>2. CASE Finish(<<StopBar>>)
      BY <2>1, <2>2, FinishAgrees, OtherComponents
    <2>3. CASE at' = "model" /\ UNCHANGED <<stream, response>>
      BY <2>1, <2>3, QuietAgrees DEF InCall
    <2> QED
      BY <1>6, <2>2, <2>3 DEF EndRound
  <1>7. CASE Open
    BY <1>7, OpenAgrees
  <1>8. CASE Refuse
    BY <1>8, FailAgrees DEF Refuse, InCall
  <1>9. CASE OtherTool
    BY <1>9, OtherToolAgrees
  <1>10. CASE Connects
    <2>1. /\ at = "tool" /\ call.sql # None /\ UNCHANGED <<setting, log, stream, response>>
          /\ at' \in {"checking", "executing"}
      BY <1>10 DEF Connects
    <2> QED
      BY <2>1, QuietAgrees DEF InCall
  <1>11. CASE Blocked
    BY <1>11, FailAgrees DEF Blocked, Fail, InCall
  <1>12. CASE Check
    <2>1. at = "checking"
      BY <1>12 DEF Check
    <2>2. CASE Fail
      BY <2>1, <2>2, FailAgrees DEF Fail, InCall
    <2>3. CASE at' = "executing" /\ UNCHANGED <<setting, log, stream, response>>
      BY <2>1, <2>3, QuietAgrees DEF InCall, AnswerInv, PassInv
    <2> QED
      BY <1>12, <2>2, <2>3 DEF Check
  <1>13. CASE Migrate
    <2>1. at \in {"checking", "executing"} /\ UNCHANGED <<setting, at, log, stream, response>>
      BY <1>13 DEF Migrate
    <2> QED
      BY <2>1, QuietAgrees DEF InCall, AnswerInv, PassInv
  <1>14. CASE Execute
    BY <1>14, ExecuteAgrees
  <1>15. CASE UNCHANGED vars
    BY <1>15 DEF vars, AnswerInv, PassInv, EndInv, InCall, closed, n, call
  <1> QED
    BY <1>1, <1>2, <1>3, <1>4, <1>5, <1>6, <1>7, <1>8, <1>9, <1>10, <1>11, <1>12, <1>13, <1>14,
       <1>15 DEF Next

LEMMA AnswerInvariant == Spec => []AnswerInv
  BY AnswerStarts, AnswerKeeps, PTL DEF Spec

-----------------------------------------------------------------------------
(* The response. *)

\* A run that ended: its response, and all its calls ended.
LEMMA EndedIs ==
    ASSUME AnswerInv, Ended
    PROVE  /\ response = Response(stream, setting.details)
           /\ Agrees(stream, log, n) /\ Collapsed(stream) \in Acc
           /\ n = Len(log) /\ n \in Nat /\ DOMAIN log = 1..n /\ log \in Seq(Entries)
  <1>1. at = "over" /\ response = Response(stream, setting.details)
    BY DEF AnswerInv, EndInv, Ended
  <1>2. log \in Seq(Entries) /\ n = Len(log)
    BY DEF AnswerInv, RoundInv, RoundTypes, n
  <1>3. closed = n
    BY <1>1 DEF closed, InCall
  <1>4. Agrees(stream, log, n) /\ stream \in Seq(Component)
    BY <1>3 DEF AnswerInv, PassInv, Agrees
  <1> QED
    BY <1>1, <1>2, <1>4, CollapsedType

\* The blocks of a response show blocks of the pass, and tell of those they do not.
LEMMA ShownBlocks ==
    ASSUME NEW acc \in Acc, ~acc.error, NEW blocks, blocks = Trimmed(Chosen(acc.blocks)), NEW D,
           \A i \in D : \E b \in Range(acc.blocks) : b.type \in Full /\ b.call = i,
           NEW missing, missing = D \ {b.call : b \in {c \in Range(blocks) : c.type \in Full}}
    PROVE  /\ Size(blocks) <= BlockBudget
           /\ \A b \in Range(blocks) : b.type \in Full => b \in Range(acc.blocks)
           /\ missing # {} =>
                 \E c \in Range(blocks) : c.type = "notice" /\ c.blocks >= Cardinality(missing)
  <1> DEFINE bs == Chosen(acc.blocks)
  <1>1. acc.blocks \in Seq(Block)
    BY DEF Acc
  <1>2. /\ bs \in Seq(Block) /\ Range(bs) \subseteq Range(acc.blocks)
        /\ \A b \in Range(acc.blocks) : b.type \in Full => b \in Range(bs)
    BY <1>1, ChosenIs
  <1>3. blocks = Trimmed(bs)
    OBVIOUS
  <1> HIDE DEF bs
  <1>4. \A i \in D : \E b \in Range(bs) : b.type \in Full /\ b.call = i
    BY <1>2
  <1>5. Size(blocks) <= BlockBudget
    BY <1>2, <1>3, TrimmedIs
  <1>6. /\ \A b \in Range(blocks) : b.type \in Full => b \in Range(bs)
        /\ missing # {} =>
              \E c \in Range(blocks) : c.type = "notice" /\ c.blocks >= Cardinality(missing)
    BY <1>2, <1>3, <1>4, TrimmedTells
  <1> QED
    BY <1>2, <1>5, <1>6

\* A run fails exactly if a call failed and no data query succeeded since, or the model
\* request raised; nothing of a failed run and nothing read from a catalog is shown as
\* its result (components_to_blocks).
THEOREM AnswersAreCurrent == Spec => []AnswerIsCurrent
  <1>1. AnswerInv => AnswerIsCurrent
    <2> SUFFICES ASSUME AnswerInv, Ended
                 PROVE  AnswerIsCurrent
      BY DEF AnswerIsCurrent
    <2> DEFINE acc == Collapsed(stream)
               blocks == IF acc.error THEN <<>> ELSE Trimmed(Chosen(acc.blocks))
               failed == {i \in DOMAIN log : ~log[i].ok}
               open == \E i \in failed : ~\E j \in DOMAIN log : j > i /\ Answered(j)
    <2>1. /\ response = Response(stream, setting.details) /\ acc \in Acc
          /\ Agrees(stream, log, n) /\ n \in Nat /\ DOMAIN log = 1..n
      BY EndedIs
    <2>2. response.error = acc.error /\ response.blocks = blocks
      BY <2>1 DEF Response
    <2>3. acc.error = (ErrorCard \in Range(stream) \/ OpenFailure(log, n)) /\ BlocksAgree(acc, log)
      BY <2>1 DEF Agrees
    <2> HIDE DEF acc
    <2>4. open <=> OpenFailure(log, n)
      BY <2>1 DEF OpenFailure, Answered, Answers
    <2>5. response.error = (open \/ ErrorCard \in Range(stream))
      BY <2>2, <2>3, <2>4
    <2>6. response.error => response.blocks = <<>>
      BY <2>2
    <2>7. ASSUME NEW b \in Range(response.blocks), b.type \in {"table", "result_text"}
          PROVE  Answered(b.call)
      <3>1. CASE acc.error
        BY <2>2, <2>7, <3>1 DEF Range
      <3>2. CASE ~acc.error
        <4> DEFINE bl == Trimmed(Chosen(acc.blocks))
        <4>1. response.blocks = bl
          BY <2>2, <3>2
        <4> DEFINE D == {}
                   missing == D \ {x.call : x \in {c \in Range(bl) : c.type \in Full}}
        <4>0. \A i \in D : \E x \in Range(acc.blocks) : x.type \in Full /\ x.call = i
          OBVIOUS
        <4>5. bl = Trimmed(Chosen(acc.blocks))
              /\ missing = D \ {x.call : x \in {c \in Range(bl) : c.type \in Full}}
          OBVIOUS
        <4> HIDE DEF bl, missing, D
        <4>2. \A x \in Range(bl) : x.type \in Full => x \in Range(acc.blocks)
          BY <2>1, <3>2, <4>0, <4>5, ShownBlocks
        <4>3. b \in Range(acc.blocks) /\ b.type \in Full
          BY <2>7, <4>1, <4>2 DEF Full
        <4>4. Answers(log[b.call])
          BY <2>3, <2>7, <4>3 DEF BlocksAgree, Belongs
        <4> QED
          BY <4>4 DEF Answers, Answered
      <3> QED
        BY <3>1, <3>2
    <2> HIDE DEF open
    <2>8. AnswerIsCurrent
      <3> USE DEF open
      <3> QED
        BY <2>5, <2>6, <2>7 DEF AnswerIsCurrent
    <2> QED
      BY <2>8
  <1> QED
    BY <1>1, AnswerInvariant, PTL

\* The count reported beside a statement is that of its own last run, and there is none
\* if that run failed (query_info).
THEOREM CountsAreCurrent == Spec => []CountIsOfTheLastRun
  <1>1. AnswerInv => CountIsOfTheLastRun
    <2> SUFFICES ASSUME AnswerInv, Ended, response.query # None
                 PROVE  CountIsOfTheLastRun
      BY DEF CountIsOfTheLastRun
    <2> DEFINE acc == Collapsed(stream)
               S == {j \in DOMAIN log : log[j].sql # None}
               i == Max(S)
    <2>1. /\ response = Response(stream, setting.details) /\ Agrees(stream, log, n)
          /\ n \in Nat /\ DOMAIN log = 1..n
      BY EndedIs
    <2>2. response.query = IF setting.details THEN Query(acc) ELSE None
      BY <2>1 DEF Response
    <2>3. QueryAgrees(acc, log)
      BY <2>1 DEF Agrees
    <2> HIDE DEF acc
    <2>4. acc.sql # None /\ response.query = [sql |-> acc.sql, count |-> acc.count]
      BY <2>2 DEF Query
    <2>5. S # {} /\ S \subseteq 0..n
      BY <2>1, <2>3, <2>4 DEF QueryAgrees
    <2>6. i \in S /\ \A j \in S : j <= i
      <3> HIDE DEF S
      <3> QED
        BY <2>1, <2>5, MaxIsGreatest
    <2> HIDE DEF i
    <2>7. LastQuery(log, i)
      BY <2>1, <2>6 DEF LastQuery
    <2>8. acc.sql = log[i].sql /\ acc.count = Counted(log[i])
      BY <2>3, <2>6, <2>7 DEF QueryAgrees
    <2>9. /\ response.query.sql = log[i].sql
          /\ response.query.count =
                IF log[i].ok /\ ReadShaped(log[i].sql) THEN log[i].shown ELSE None
      BY <2>4, <2>8 DEF Counted
    <2> QED
      BY <2>9 DEF CountIsOfTheLastRun, i
  <1> QED
    BY <1>1, AnswerInvariant, PTL

\* Rows do not vanish on the way to the user: those over the cap are announced to the
\* agent, those over a block's budget counted in the block, blocks over the budget in
\* the notice (rows_to_capped_df, _compute_table_payload, _trim_blocks_to_budget).
THEOREM LossesAreAnnounced == Spec => []LossesAreTold
  <1>1. AnswerInv => LossesAreTold
    <2> SUFFICES ASSUME AnswerInv
                 PROVE  LossesAreTold
      OBVIOUS
    <2>1. \A i \in DOMAIN log : log[i].shown < log[i].rows => log[i].noted
      BY DEF AnswerInv, RoundInv, RoundTypes, PassInv, Sound
    <2> DEFINE due  == {i \in DOMAIN log :
                           \/ Answered(i) /\ log[i].shown > 0 /\ log[i].sql.shape # "huge"
                           \/ /\ log[i].ok /\ log[i].tool = "emit_chart"
                              /\ log[i].args # "huge"}
               blocks == response.blocks
               full == {b \in Range(blocks) : b.type \in {"table", "result_text", "chart"}}
               told == {b.blocks : b \in {c \in Range(blocks) : c.type = "notice"}}
               missing == due \ {b.call : b \in full}
               acc == Collapsed(stream)
    <2>2. ASSUME Ended, ~response.error
          PROVE  /\ Size(blocks) <= BlockBudget
                 /\ \A b \in full : b.rows + b.truncated = log[b.call].shown
                 /\ missing # {} => \E k \in told : k >= Cardinality(missing)
      <3>1. /\ response = Response(stream, setting.details) /\ acc \in Acc
            /\ Agrees(stream, log, n) /\ DOMAIN log = 1..n
        BY <2>2, EndedIs
      <3>2. ~acc.error /\ blocks = Trimmed(Chosen(acc.blocks))
        BY <2>2, <3>1 DEF Response
      <3>3. BlocksAgree(acc, log)
        BY <3>1 DEF Agrees
      <3>4. \A i \in due : \E b \in Range(acc.blocks) : b.type \in Full /\ b.call = i
        BY <3>3 DEF BlocksAgree, Due, Draws, Answers, Answered
      <3>5. missing = due \ {b.call : b \in {c \in Range(blocks) : c.type \in Full}}
        BY DEF Full
      <3>6. full = {b \in Range(blocks) : b.type \in Full}
        BY DEF Full
      <3> HIDE DEF due, blocks, missing, acc, full
      <3>7. /\ Size(blocks) <= BlockBudget
            /\ \A b \in Range(blocks) : b.type \in Full => b \in Range(acc.blocks)
            /\ missing # {} =>
                  \E c \in Range(blocks) : c.type = "notice" /\ c.blocks >= Cardinality(missing)
        BY <3>1, <3>2, <3>4, <3>5, ShownBlocks
      <3>8. \A b \in full : b.rows + b.truncated = log[b.call].shown
        BY <3>3, <3>6, <3>7 DEF BlocksAgree, Belongs
      <3> QED
        BY <3>7, <3>8
    <2> QED
      BY <2>1, <2>2 DEF LossesAreTold
  <1> QED
    BY <1>1, AnswerInvariant, PTL

\* The trace has a step for each call, in the order asked for, with what became of it.
LEMMA TraceIs ==
    ASSUME NEW s, NEW l \in Seq(Entries), Agrees(s, l, Len(l))
    PROVE  \E status : /\ status \in Seq({"ok", "error"}) /\ Len(status) = Len(l)
                       /\ \A i \in DOMAIN l : status[i] = IF l[i].ok THEN "ok" ELSE "error"
                       /\ Trace(s).terminal = Ending(s, status)
                       /\ Len(Trace(s).steps) + Trace(s).dropped = Len(l)
  <1> DEFINE N == Len(l)
             calls == {c.call : c \in {d \in Range(s) : d.kind = "card"}} \ {0}
             size == Cardinality(calls)
             status == [i \in 1..size |-> StepStatus(s, i)]
             kept == Least(Len(status), TraceSteps)
  <1>1. N \in Nat /\ DOMAIN l = 1..N /\ s \in Seq(Component) /\ CardsAgree(s, l, N)
    BY DEF Agrees
  <1>2. Trace(s) = [steps |-> SubSeq(status, 1, kept), dropped |-> Len(status) - kept,
                    terminal |-> Ending(s, status)]
    BY DEF Trace
  <1>3. ASSUME NEW i \in DOMAIN l
        PROVE  /\ \E c \in Range(s) : c.kind = "card" /\ c.call = i
               /\ StepStatus(s, i) = IF l[i].ok THEN "ok" ELSE "error"
    <2>1. PICK p \in DOMAIN s : LastCard(s, i, p) /\ s[p].status = StatusOf(l, N, i)
      BY <1>1 DEF CardsAgree
    <2>2. p \in Cards(s, i) /\ \A q \in Cards(s, i) : q <= p
      BY <2>1 DEF LastCard
    <2>3. Cards(s, i) \subseteq Nat
      BY <1>1 DEF Cards
    <2>4. Max(Cards(s, i)) = p
      <3> DEFINE C == Cards(s, i)
      <3>1. p \in C /\ C \subseteq Nat /\ \A q \in C : q <= p
        BY <2>2, <2>3
      <3> HIDE DEF C
      <3>2. \A x \in C : (\A y \in C : x >= y) <=> x = p
        BY <3>1
      <3>3. Max(C) = p
        BY <3>1, <3>2 DEF Max
      <3> QED
        BY <3>3 DEF C
    <2>5. s[p].status = IF l[i].ok THEN "success" ELSE "error"
      BY <1>1, <2>1 DEF StatusOf
    <2>6. StepStatus(s, i) = IF l[i].ok THEN "ok" ELSE "error"
      BY <2>4, <2>5 DEF StepStatus
    <2>7. s[p] \in Range(s) /\ s[p].kind = "card" /\ s[p].call = i
      BY <2>1, <2>2 DEF Range, Cards
    <2> QED
      BY <2>6, <2>7
  <1>4. calls = 1..N
    <2>1. \A c \in Range(s) : c.kind = "card" => c.call \in 0..N
      BY <1>1 DEF CardsAgree
    <2>2. calls \subseteq 1..N
      BY <1>1, <2>1
    <2>3. 1..N \subseteq calls
      BY <1>1, <1>3
    <2> QED
      BY <2>2, <2>3
  <1> HIDE DEF calls, N
  <1>5. size = N
    <2> DEFINE one == 1
    <2>1. one \in Int /\ N \in Int /\ (one > N => N = 0) /\ N - one + 1 = N
      BY <1>1
    <2> HIDE DEF one
    <2>2. Cardinality(one..N) = IF one > N THEN 0 ELSE N - one + 1
      BY <2>1, FS_Interval
    <2>3. Cardinality(one..N) = N
      BY <2>1, <2>2
    <2> QED
      BY <1>4, <2>3 DEF one
  <1> HIDE DEF size
  <1>6. \A i \in 1..N : status[i] = IF l[i].ok THEN "ok" ELSE "error"
    BY <1>1, <1>3, <1>5
  <1>7. status \in Seq({"ok", "error"}) /\ Len(status) = N
    <2>1. status \in [1..N -> {"ok", "error"}]
      BY <1>1, <1>3, <1>5
    <2> HIDE DEF status
    <2> QED
      BY <1>1, <2>1
  <1> HIDE DEF status
  <1>8. kept \in 0..N
    BY <1>1, <1>7, FormatAssumption DEF Least
  <1> HIDE DEF kept
  <1>9. Len(SubSeq(status, 1, kept)) = kept
    BY <1>1, <1>7, <1>8
  <1>10. Len(Trace(s).steps) + Trace(s).dropped = N
    BY <1>1, <1>2, <1>7, <1>8, <1>9
  <1>11. Trace(s).terminal = Ending(s, status)
    BY <1>2
  <1> QED
    BY <1>1, <1>6, <1>7, <1>10, <1>11 DEF N

\* A trace that names no reason for the end is that of a run whose calls all succeeded
\* and that was not stopped; it accounts for every call (build_agent_trace).
THEOREM CleanTraces == Spec => []CleanTraceOfCleanRun
  <1>1. AnswerInv => CleanTraceOfCleanRun
    <2> SUFFICES ASSUME AnswerInv, Ended, response.trace # None
                 PROVE  CleanTraceOfCleanRun
      BY DEF CleanTraceOfCleanRun
    <2>1. /\ response = Response(stream, setting.details) /\ Agrees(stream, log, Len(log))
          /\ log \in Seq(Entries)
      BY EndedIs
    <2>2. response.trace = Trace(stream)
      BY <2>1 DEF Response
    <2>3. PICK status : /\ status \in Seq({"ok", "error"}) /\ Len(status) = Len(log)
                        /\ \A i \in DOMAIN log : status[i] = IF log[i].ok THEN "ok" ELSE "error"
                        /\ Trace(stream).terminal = Ending(stream, status)
                        /\ Len(Trace(stream).steps) + Trace(stream).dropped = Len(log)
      BY <2>1, TraceIs
    <2>4. ASSUME Ending(stream, status) = "none"
          PROVE  /\ ErrorCard \notin Range(stream) /\ LimitBar \notin Range(stream)
                 /\ "error" \notin Range(status)
      BY <2>4 DEF Ending
    <2>5. ASSUME "error" \notin Range(status), NEW i \in DOMAIN log
          PROVE  log[i].ok
      <3>1. i \in DOMAIN status
        BY <2>1, <2>3
      <3>2. status[i] \in Range(status)
        BY <3>1 DEF Range
      <3> QED
        BY <2>3, <2>5, <3>2
    <2> QED
      BY <2>2, <2>3, <2>4, <2>5 DEF CleanTraceOfCleanRun
  <1> QED
    BY <1>1, AnswerInvariant, PTL

-----------------------------------------------------------------------------
(* Rounds of nothing but bad arguments. *)

InRound == InCall \/ at = "calls"

\* The rounds that have ended.
ended == IF InRound THEN rounds - 1 ELSE rounds

AllBad(l, m, k) == \A i \in 1..m : l[i].round = k => BadArguments(l[i])

\* `bad` is the length of the streak of such rounds at the end of those that ended,
\* and `argFailures` says whether the one under way may lengthen it.
StreakInv ==
    /\ bad \in Nat /\ bad <= ended
    /\ at # "over" => bad < MaxBadRounds
    /\ \A i \in 1..n : log[i].round <= rounds /\ (BadArguments(log[i]) => ~log[i].ok)
    /\ InRound => rounds > 0 /\ (argFailures <=> AllBad(log, closed, rounds))
    /\ InCall \/ (at = "calls" /\ left = 0) => n > 0 /\ log[n].round = rounds
    /\ at \in {"checking", "executing"} => ~BadArguments(call)
    /\ \A k \in (ended - bad + 1)..ended : AllBad(log, n, k)
    /\ bad < ended => ~AllBad(log, n, ended - bad)

\* The bar comes only at the end of a run, with a full streak.
StopInv ==
    /\ at # "over" => \A i \in 1..Len(stream) : stream[i].kind \notin {"limit", "stop"}
    /\ (\E i \in 1..Len(stream) : stream[i].kind = "stop") =>
          /\ at = "over" /\ bad >= MaxBadRounds /\ n > 0 /\ ~log[n].ok
          /\ \A i \in 1..Len(stream) : stream[i].kind # "limit"

StuckInv == StreakInv /\ StopInv

LEMMA StuckStarts == Init => StuckInv
  <1> SUFFICES ASSUME Init
               PROVE  StuckInv
    OBVIOUS
  <1>1. log = <<>> /\ stream = <<>> /\ at = "model" /\ rounds = 0 /\ bad = 0
    BY DEF Init
  <1>2. n = 0 /\ ended = 0
    BY <1>1 DEF n, ended, InRound, InCall
  <1>3. StreakInv
    BY <1>1, <1>2, ToolRoundAssumption DEF StreakInv, InRound, InCall, AllBad
  <1>4. StopInv
    BY <1>1 DEF StopInv
  <1> QED
    BY <1>3, <1>4 DEF StuckInv

LEMMA StuckTypes ==
    ASSUME AnswerInv
    PROVE  /\ log \in Seq(Entries) /\ n = Len(log) /\ n \in Nat /\ rounds \in Nat
           /\ stream \in Seq(Component) /\ \A i \in 1..n : log[i].round \in Nat
  <1>1. log \in Seq(Entries) /\ rounds \in Nat /\ stream \in Seq(Component)
    BY DEF AnswerInv, RoundInv, RoundTypes, PassInv, Agrees
  <1>2. n = Len(log) /\ n \in Nat /\ \A i \in 1..n : log[i] \in Entries
    BY <1>1 DEF n
  <1>3. \A e \in Entries : e.round \in Nat
    BY DEF Entries
  <1> QED
    BY <1>1, <1>2, <1>3

\* The loop is at the same place, as far as its rounds go.
LEMMA QuietStreak ==
    ASSUME StreakInv, UNCHANGED <<setting, rounds, left, bad, argFailures, log>>,
           \/ at' = at
           \/ at = "model" /\ at' = "over"
           \/ at \in {"tool", "checking"} /\ at' \in {"checking", "executing"} /\ ~BadArguments(call)
    PROVE  StreakInv'
  <1>1. /\ InRound' <=> InRound
        /\ InCall' <=> InCall
        /\ at' = "calls" <=> at = "calls"
        /\ at' # "over" => at # "over"
    BY DEF InRound, InCall
  <1>2. ended' = ended /\ n' = n /\ closed' = closed /\ call' = call
    BY <1>1 DEF ended, n, closed, call
  <1>3. \A m, k : AllBad(log, m, k)' <=> AllBad(log, m, k)
    BY DEF AllBad, BadArguments, Registered
  <1>4. \A i : BadArguments(log[i])' <=> BadArguments(log[i])
    BY DEF BadArguments, Registered
  <1>5. BadArguments(call)' <=> BadArguments(call)
    BY <1>2 DEF BadArguments, Registered
  <1>6. at' \in {"checking", "executing"} => ~BadArguments(call)
    BY DEF StreakInv
  <1> QED
    BY <1>1, <1>2, <1>3, <1>4, <1>5, <1>6 DEF StreakInv, AllBad, BadArguments, Registered

\* A reply asks for calls: a round begins, none of whose calls is in the log.
LEMMA ToolCallsStreak ==
    ASSUME AnswerInv, StreakInv, ToolCalls
    PROVE  StreakInv'
  <1>1. /\ at = "model" /\ at' = "calls" /\ rounds' = rounds + 1 /\ argFailures' = TRUE
        /\ UNCHANGED <<setting, bad, log>> /\ left' \in 1..(MaxCalls - n)
    BY DEF ToolCalls
  <1>2. n' = n /\ ~InCall' /\ closed' = n /\ ended' = rounds /\ ended = rounds
    BY <1>1, StuckTypes DEF n, InRound, InCall, closed, ended
  <1>3. left' # 0
    BY <1>1, StuckTypes, ToolRoundAssumption
  <1>4. \A i : BadArguments(log[i])' <=> BadArguments(log[i])
    BY <1>1 DEF BadArguments, Registered
  <1>5. \A k : AllBad(log, n, k)' <=> AllBad(log, n, k)
    BY <1>1, <1>2, <1>4 DEF AllBad
  <1>6. \A i \in 1..n : log[i].round <= rounds /\ log[i].round # rounds + 1 /\ log'[i] = log[i]
    BY <1>1, StuckTypes DEF StreakInv
  <1>7. AllBad(log, closed, rounds)'
    BY <1>1, <1>2, <1>6 DEF AllBad
  <1>8. \A i \in 1..n' : log'[i].round <= rounds' /\ (BadArguments(log[i])' => ~log'[i].ok)
    BY <1>1, <1>2, <1>4, <1>6, StuckTypes DEF StreakInv
  <1>9. /\ \A k \in (ended' - bad' + 1)..ended' : AllBad(log, n, k)'
        /\ bad' < ended' => ~AllBad(log, n, ended - bad)'
        /\ bad' \in Nat /\ bad' <= ended' /\ bad' < MaxBadRounds
    BY <1>1, <1>2, <1>5 DEF StreakInv
  <1> QED
    BY <1>1, <1>2, <1>3, <1>7, <1>8, <1>9, StuckTypes DEF StreakInv, InRound

\* The round ends, and with it the streak, or the streak is one round longer.
LEMMA EndRoundStreak ==
    ASSUME AnswerInv, StreakInv, EndRound
    PROVE  StreakInv' /\ (bad' >= MaxBadRounds => n > 0 /\ ~log[n].ok)
  <1>1. /\ at = "calls" /\ left = 0 /\ bad' = (IF argFailures THEN bad + 1 ELSE 0)
        /\ UNCHANGED <<setting, rounds, log>>
        /\ IF bad' >= MaxBadRounds THEN at' = "over" ELSE at' = "model"
    BY DEF EndRound, Finish
  <1>2. /\ n' = n /\ closed = n /\ ended = rounds - 1 /\ ended' = rounds /\ ~InRound' /\ ~InCall'
        /\ at' \notin {"calls", "checking", "executing"}
    BY <1>1 DEF n, InRound, InCall, closed, ended
  <1>3. /\ n > 0 /\ log[n].round = rounds /\ rounds > 0 /\ bad \in Nat /\ bad <= rounds - 1
        /\ argFailures <=> AllBad(log, n, rounds)
    BY <1>1, <1>2 DEF StreakInv, InRound
  <1>4. \A i : BadArguments(log[i])' <=> BadArguments(log[i])
    BY <1>1 DEF BadArguments, Registered
  <1>5. \A k : AllBad(log, n, k)' <=> AllBad(log, n, k)
    BY <1>1, <1>2, <1>4 DEF AllBad
  <1>6. \A i \in 1..n' : log'[i].round <= rounds' /\ (BadArguments(log[i])' => ~log'[i].ok)
    BY <1>1, <1>2, <1>4 DEF StreakInv
  <1>7. /\ \A k \in (rounds - 1 - bad + 1)..(rounds - 1) : AllBad(log, n, k)
        /\ bad < rounds - 1 => ~AllBad(log, n, rounds - 1 - bad)
    BY <1>2 DEF StreakInv
  <1>8. CASE argFailures
    <2>1. bad' = bad + 1 /\ AllBad(log, n, rounds)
      BY <1>1, <1>3, <1>8
    <2>2. \A k \in (rounds - bad' + 1)..rounds : AllBad(log, n, k)
      BY <1>3, <1>7, <2>1, StuckTypes
    <2>3. bad' < rounds => ~AllBad(log, n, rounds - bad')
      <3>1. rounds - bad' = rounds - 1 - bad
        BY <1>3, <2>1, StuckTypes
      <3> QED
        BY <1>3, <1>7, <2>1, <3>1, StuckTypes
    <2>4. bad' \in Nat /\ bad' <= rounds
      BY <1>3, <2>1, StuckTypes
    <2>5. ~log[n].ok
      BY <1>3, <2>1, StuckTypes DEF AllBad, StreakInv
    <2>6. at' # "over" => bad' < MaxBadRounds
      BY <1>1, <2>4, ToolRoundAssumption
    <2>7. \A k \in (ended' - bad' + 1)..ended' : AllBad(log, n, k)'
      BY <1>2, <1>5, <2>2
    <2>8. bad' < ended' => ~AllBad(log, n, ended - bad)'
      BY <1>2, <1>5, <2>3
    <2> QED
      BY <1>2, <1>3, <1>6, <2>4, <2>5, <2>6, <2>7, <2>8 DEF StreakInv
  <1>9. CASE ~argFailures
    <2>1. bad' = 0 /\ ~AllBad(log, n, rounds) /\ MaxBadRounds > 0
      BY <1>1, <1>3, <1>9, ToolRoundAssumption
    <2>2. \A k \in (ended' - bad' + 1)..ended' : AllBad(log, n, k)'
      BY <1>2, <2>1, StuckTypes
    <2>3. ended' - bad' = rounds
      BY <1>2, <2>1, StuckTypes
    <2>4. ~AllBad(log, n, ended - bad)'
      BY <1>5, <2>1, <2>3
    <2>5. bad' \in Nat /\ bad' <= ended' /\ bad' < MaxBadRounds
      BY <1>2, <2>1, StuckTypes, ToolRoundAssumption
    <2> QED
      BY <1>2, <1>6, <2>1, <2>2, <2>4, <2>5, ToolRoundAssumption DEF StreakInv
  <1> QED
    BY <1>8, <1>9

\* A call of this round enters the log.
LEMMA OpenStreak ==
    ASSUME AnswerInv, StreakInv, Open
    PROVE  StreakInv'
  <1>1. PICK r \in Requests : log' = Append(log, r)
    BY DEF Open
  <1>2. /\ at = "calls" /\ at' = "tool" /\ left > 0
        /\ UNCHANGED <<setting, rounds, left, bad, argFailures>>
    BY DEF Open, loopVars
  <1>3. r.round = rounds /\ ~r.ok
    BY DEF Requests, Asked
  <1>4. /\ n' = n + 1 /\ closed = n /\ closed' = n /\ ended = rounds - 1 /\ ended' = rounds - 1
        /\ InRound /\ InCall' /\ InRound'
    BY <1>1, <1>2, StuckTypes DEF n, InRound, InCall, closed, ended
  <1>5. log'[n + 1] = r /\ \A i \in 1..n : log'[i] = log[i]
    BY <1>1, StuckTypes
  <1>6. \A i \in 1..n : BadArguments(log[i])' <=> BadArguments(log[i])
    BY <1>2, <1>5 DEF BadArguments, Registered
  <1>0. n \in Nat /\ rounds \in Nat /\ 1..n \subseteq 1..(n + 1)
        /\ \A i \in 1..(n + 1) : i = n + 1 \/ i \in 1..n
    BY StuckTypes
  <1>7. \A k : k # rounds => (AllBad(log, n, k)' <=> AllBad(log, n, k))
    BY <1>0, <1>3, <1>4, <1>5, <1>6 DEF AllBad
  <1>8. AllBad(log, closed, rounds)' <=> AllBad(log, closed, rounds)
    BY <1>2, <1>4, <1>5, <1>6 DEF AllBad
  <1>9. \A i \in 1..n' : log'[i].round <= rounds' /\ (BadArguments(log[i])' => ~log'[i].ok)
    BY <1>0, <1>2, <1>3, <1>4, <1>5, <1>6 DEF StreakInv
  <1>10. /\ bad' \in Nat /\ bad' <= ended' /\ bad' < MaxBadRounds /\ rounds' > 0
         /\ argFailures' <=> AllBad(log, closed, rounds)'
    BY <1>2, <1>4, <1>8 DEF StreakInv
  <1>11. /\ \A k \in (ended' - bad' + 1)..ended' : AllBad(log, n, k)'
         /\ bad' < ended' => ~AllBad(log, n, ended - bad)'
    <2>1. \A k \in (ended - bad + 1)..ended : k # rounds
      BY <1>4, <1>10, StuckTypes
    <2>2. ended' - bad' = ended - bad /\ ended - bad # rounds
      BY <1>0, <1>2, <1>4, <1>10
    <2> QED
      BY <1>2, <1>4, <1>7, <2>1, <2>2 DEF StreakInv
  <1> QED
    BY <1>2, <1>3, <1>4, <1>5, <1>9, <1>10, <1>11, StuckTypes DEF StreakInv

\* A call of this round ends.
LEMMA CloseStreak ==
    ASSUME AnswerInv, StreakInv, InCall, NEW e \in Entries, NEW comps, Close(e, comps),
           e.round = call.round, e.args = call.args, e.tool = call.tool,
           e.ok => ~BadArguments(call), argFailures' <=> (argFailures /\ BadArguments(call))
    PROVE  StreakInv'
  <1>1. /\ log' = [log EXCEPT ![n] = e] /\ at' = "calls" /\ UNCHANGED <<setting, rounds, bad>>
    BY DEF Close
  <1>2. /\ n' = n /\ n > 0 /\ closed = n - 1 /\ closed' = n /\ ended = rounds - 1
        /\ ended' = rounds - 1 /\ InRound /\ InRound' /\ ~InCall' /\ call = log[n]
        /\ log[n].round = rounds /\ at # "over"
    BY <1>1, StuckTypes DEF n, InRound, InCall, closed, ended, call, StreakInv
  <1>3. \A i \in 1..n : /\ log'[i].round = log[i].round
                        /\ log'[i].args = log[i].args /\ log'[i].tool = log[i].tool
                        /\ log'[i] = IF i = n THEN e ELSE log[i]
    BY <1>1, <1>2, StuckTypes
  <1>4. \A i \in 1..n : BadArguments(log[i])' <=> BadArguments(log[i])
    BY <1>1, <1>3 DEF BadArguments, Registered
  <1>5. \A k : AllBad(log, n, k)' <=> AllBad(log, n, k)
    BY <1>2, <1>3, <1>4 DEF AllBad
  <1>6. AllBad(log, n, rounds) <=> AllBad(log, n - 1, rounds) /\ BadArguments(call)
    <2>1. \A i \in 1..n : i = n \/ i \in 1..(n - 1)
      BY StuckTypes
    <2>2. n \in 1..n /\ 1..(n - 1) \subseteq 1..n
      BY <1>2, StuckTypes
    <2> QED
      BY <1>2, <2>1, <2>2 DEF AllBad
  <1>7. \A i \in 1..n' : log'[i].round <= rounds' /\ (BadArguments(log[i])' => ~log'[i].ok)
    BY <1>1, <1>2, <1>3, <1>4, StuckTypes DEF StreakInv
  <1>8. argFailures' <=> AllBad(log, closed, rounds)'
    <2>1. argFailures <=> AllBad(log, n - 1, rounds)
      BY <1>2 DEF StreakInv
    <2>2. AllBad(log, closed, rounds)' <=> AllBad(log, n, rounds)'
      BY <1>2 DEF AllBad
    <2>3. AllBad(log, n, rounds)' <=> AllBad(log, n, rounds)
      BY <1>1, <1>5 DEF AllBad
    <2> QED
      BY <1>6, <2>1, <2>2, <2>3
  <1>9. /\ \A k \in (ended' - bad' + 1)..ended' : AllBad(log, n, k)'
        /\ bad' < ended' => ~AllBad(log, n, ended - bad)'
        /\ bad' \in Nat /\ bad' <= ended' /\ bad' < MaxBadRounds /\ rounds' > 0
    BY <1>1, <1>2, <1>5 DEF StreakInv
  <1>10. log'[n'].round = rounds'
    BY <1>1, <1>2, <1>3, StuckTypes
  <1> QED
    BY <1>1, <1>2, <1>7, <1>8, <1>9, <1>10 DEF StreakInv

LEMMA AdmittedIsGood == Admitted(call) => ~BadArguments(call)
  BY DEF Admitted, BadArguments

LEMMA FailStreak ==
    ASSUME AnswerInv, StreakInv, InCall, Close(call, <<>>),
           argFailures' <=> (argFailures /\ BadArguments(call))
    PROVE  StreakInv'
  <1>1. call \in Entries /\ ~call.ok
    BY CallIs DEF Fresh
  <1> QED
    BY <1>1, CloseStreak

\* `e` is what became of the call `c`.
Becomes(c, e) == e \in Entries /\ e.round = c.round /\ e.args = c.args /\ e.tool = c.tool

\* A call whose arguments were good has ended, whatever came of it.
LEMMA GoodCallStreak ==
    ASSUME AnswerInv, StreakInv, InCall, ~BadArguments(call), argFailures' = FALSE,
           NEW e, Becomes(call, e), NEW comps, Close(e, comps)
    PROVE  StreakInv'
  BY CloseStreak DEF Becomes

LEMMA OtherToolStreak ==
    ASSUME AnswerInv, StreakInv, OtherTool
    PROVE  StreakInv'
  <1>0. InCall /\ ~BadArguments(call)
    BY AdmittedIsGood DEF OtherTool, InCall
  <1>1. InCall /\ ~BadArguments(call) /\ call \in Entries
    BY <1>0, CallIs
  <1>2. CASE Fail
    BY <1>1, <1>2, FailStreak DEF Fail
  <1>3. ASSUME NEW comps, Succeed(comps)
        PROVE  StreakInv'
    <2> DEFINE e == [call EXCEPT !.ok = TRUE]
    <2>1. Close(e, comps) /\ argFailures' = FALSE
      BY <1>3 DEF Succeed
    <2>2. Becomes(call, e)
      BY <1>1 DEF Becomes, Entries
    <2> HIDE DEF e
    <2> QED
      BY <1>1, <2>1, <2>2, GoodCallStreak
  <1>4. ASSUME NEW rows \in AnyRows, argFailures' = FALSE,
               Close([call EXCEPT !.ok = TRUE, !.rows = rows, !.shown = rows],
                     <<Chart(n, rows, call.args)>>)
        PROVE  StreakInv'
    <2> DEFINE e == [call EXCEPT !.ok = TRUE, !.rows = rows, !.shown = rows]
               comps == <<Chart(n, rows, call.args)>>
    <2>1. rows \in Nat
      BY ToolRoundAssumption
    <2>2. Becomes(call, e)
      BY <1>1, <2>1 DEF Becomes, Entries
    <2>3. Close(e, comps)
      BY <1>4
    <2> HIDE DEF e, comps
    <2> QED
      BY <1>1, <1>4, <2>2, <2>3, GoodCallStreak
  <1> QED
    BY <1>2, <1>3, <1>4 DEF OtherTool

LEMMA ExecuteStreak ==
    ASSUME AnswerInv, StreakInv, Execute
    PROVE  StreakInv'
  <1>0. at = "executing" /\ argFailures' = FALSE
    BY DEF Execute
  <1>1. InCall /\ ~BadArguments(call) /\ argFailures' = FALSE /\ call \in Entries
    <2>1. InCall /\ ~BadArguments(call)
      BY <1>0 DEF InCall, StreakInv
    <2> QED
      BY <1>0, <2>1, CallIs
  <1> DEFINE sent == [call EXCEPT !.sent = Seen]
  <1>2. Becomes(call, sent)
    <2>1. Seen \in Catalog
      BY DEF AnswerInv, RoundInv, RoundTypes, Seen
    <2> QED
      BY <1>1, <2>1 DEF Becomes, Entries
  <1>3. \/ \E rows \in AnyRows : \E comps :
              Close([sent EXCEPT !.ok = TRUE, !.rows = rows, !.shown = Fetched(rows).shown,
                                 !.noted = Fetched(rows).more], comps)
        \/ \E comps : Close([sent EXCEPT !.ok = TRUE], comps)
        \/ \E comps : Close(sent, comps)
    BY DEF Execute
  <1> HIDE DEF sent
  <1>4. ASSUME NEW rows \in AnyRows, NEW comps,
               Close([sent EXCEPT !.ok = TRUE, !.rows = rows, !.shown = Fetched(rows).shown,
                                  !.noted = Fetched(rows).more], comps)
        PROVE  StreakInv'
    <2> DEFINE e == [sent EXCEPT !.ok = TRUE, !.rows = rows, !.shown = Fetched(rows).shown,
                                 !.noted = Fetched(rows).more]
    <2>1. Fetched(rows).shown \in Nat /\ Fetched(rows).more \in BOOLEAN /\ rows \in Nat
      BY ToolRoundAssumption DEF Fetched, Least, Cap, AnswerInv, RoundInv, RoundTypes
    <2>2. Becomes(call, e)
      BY <1>2, <2>1 DEF Becomes, Entries
    <2>3. Close(e, comps)
      BY <1>4
    <2> HIDE DEF e
    <2> QED
      BY <1>1, <2>2, <2>3, GoodCallStreak
  <1>5. ASSUME NEW comps, Close([sent EXCEPT !.ok = TRUE], comps)
        PROVE  StreakInv'
    <2> DEFINE e == [sent EXCEPT !.ok = TRUE]
    <2>1. Becomes(call, e)
      BY <1>2 DEF Becomes, Entries
    <2>2. Close(e, comps)
      BY <1>5
    <2> HIDE DEF e
    <2> QED
      BY <1>1, <2>1, <2>2, GoodCallStreak
  <1>6. ASSUME NEW comps, Close(sent, comps)
        PROVE  StreakInv'
    BY <1>1, <1>2, <1>6, GoodCallStreak
  <1> QED
    BY <1>3, <1>4, <1>5, <1>6

LEMMA StreakKeeps == AnswerInv /\ StreakInv /\ [Next]_vars => StreakInv'
  <1> SUFFICES ASSUME AnswerInv, StreakInv, [Next]_vars
               PROVE  StreakInv'
    OBVIOUS
  <1>1. CASE Command \/ Answer \/ ModelFails \/ LimitStop
    <2>1. at = "model" /\ at' = "over" /\ UNCHANGED <<setting, rounds, left, bad, argFailures, log>>
      BY <1>1 DEF Command, Answer, ModelFails, LimitStop, Finish, loopVars
    <2> QED
      BY <2>1, QuietStreak
  <1>2. CASE ToolCalls
    BY <1>2, ToolCallsStreak
  <1>3. CASE EndRound
    BY <1>3, EndRoundStreak
  <1>4. CASE Open
    BY <1>4, OpenStreak
  <1>5. CASE Refuse
    BY <1>5, FailStreak DEF Refuse, InCall
  <1>6. CASE OtherTool
    BY <1>6, OtherToolStreak
  <1>7. CASE Connects
    <2>1. at = "tool" /\ ~BadArguments(call) /\ at' \in {"checking", "executing"}
          /\ UNCHANGED <<setting, rounds, left, bad, argFailures, log>>
      BY <1>7, AdmittedIsGood DEF Connects, loopVars
    <2> QED
      BY <2>1, QuietStreak
  <1>8. CASE Blocked
    BY <1>8, AdmittedIsGood, FailStreak DEF Blocked, Fail, InCall
  <1>9. CASE Check
    <2>1. at = "checking" /\ ~BadArguments(call) /\ InCall
      BY <1>9 DEF Check, StreakInv, InCall
    <2>2. CASE Fail
      BY <2>1, <2>2, FailStreak DEF Fail
    <2>3. CASE at' = "executing" /\ UNCHANGED <<setting, loopVars, log>>
      BY <2>1, <2>3, QuietStreak DEF loopVars
    <2> QED
      BY <1>9, <2>2, <2>3 DEF Check
  <1>10. CASE Migrate
    BY <1>10, QuietStreak DEF Migrate, loopVars
  <1>11. CASE Execute
    BY <1>11, ExecuteStreak
  <1>12. CASE UNCHANGED vars
    BY <1>12, QuietStreak DEF vars, loopVars
  <1> QED
    BY <1>1, <1>2, <1>3, <1>4, <1>5, <1>6, <1>7, <1>8, <1>9, <1>10, <1>11, <1>12 DEF Next

\* The run goes on: what it adds to the stream is no bar.
LEMMA NoBarAdded ==
    ASSUME AnswerInv, StopInv, at # "over", at' # "over",
           \/ stream' = stream
           \/ \E c \in Component : c.kind \notin {"limit", "stop"} /\ stream' = Append(stream, c)
           \/ \E c, d \in Component : /\ {c.kind, d.kind} \cap {"limit", "stop"} = {}
                                      /\ stream' = Append(stream, c) \o <<d>>
    PROVE  StopInv'
  <1>1. stream \in Seq(Component)
    BY StuckTypes
  <1>2. \A i \in 1..Len(stream) : stream[i].kind \notin {"limit", "stop"}
    BY DEF StopInv
  <1>3. \A i \in 1..Len(stream') : stream'[i].kind \notin {"limit", "stop"}
    <2>1. CASE stream' = stream
      BY <1>2, <2>1
    <2>2. ASSUME NEW c \in Component, c.kind \notin {"limit", "stop"}, stream' = Append(stream, c)
          PROVE  \A i \in 1..Len(stream') : stream'[i].kind \notin {"limit", "stop"}
      BY <1>1, <1>2, <2>2
    <2>3. ASSUME NEW c \in Component, NEW d \in Component,
                 {c.kind, d.kind} \cap {"limit", "stop"} = {}, stream' = Append(stream, c) \o <<d>>
          PROVE  \A i \in 1..Len(stream') : stream'[i].kind \notin {"limit", "stop"}
      <3>1. /\ Len(stream') = Len(stream) + 2 /\ stream'[Len(stream) + 1] = c
            /\ stream'[Len(stream) + 2] = d /\ \A i \in 1..Len(stream) : stream'[i] = stream[i]
        BY <1>1, <2>3
      <3>2. \A i \in 1..Len(stream') :
               i \in 1..Len(stream) \/ i = Len(stream) + 1 \/ i = Len(stream) + 2
        BY <1>1, <3>1
      <3> QED
        BY <1>2, <2>3, <3>1, <3>2
    <2> QED
      BY <2>1, <2>2, <2>3
  <1> QED
    BY <1>3 DEF StopInv

LEMMA KindsOfComponents ==
    /\ \A i, s, q : Card(i, s, q).kind = "card"
    /\ \A i, r, h : DataFrame(i, r, h).kind = "table" /\ Chart(i, r, h).kind = "chart"
    /\ \A b : Text(b).kind = "text" /\ MemorySearch(b).kind = "memory"
    /\ Notification.kind = "notification" /\ LimitBar.kind = "limit" /\ StopBar.kind = "stop"
    /\ ErrorCard.kind = "card"
  BY DEF Card, DataFrame, Chart, Text, MemorySearch, Notification, LimitBar, StopBar, ErrorCard

\* The run ends otherwise than by the bar.
LEMMA NoStopAdded ==
    ASSUME AnswerInv, StopInv, at # "over", NEW comps, Finish(comps),
           \/ comps = <<>>
           \/ \E c \in Component : comps = <<c>> /\ c.kind # "stop"
           \/ \E c, d \in Component : comps = <<c, d>> /\ c.kind # "stop" /\ d.kind # "stop"
    PROVE  StopInv'
  <1>1. stream \in Seq(Component) /\ stream' = stream \o comps /\ at' = "over"
    BY StuckTypes DEF Finish
  <1>2. \A i \in 1..Len(stream) : stream[i].kind # "stop"
    BY DEF StopInv
  <1>3. \A i \in 1..Len(stream') : stream'[i].kind # "stop"
    <2>1. CASE comps = <<>>
      BY <1>1, <1>2, <2>1
    <2>2. ASSUME NEW c \in Component, comps = <<c>>, c.kind # "stop"
          PROVE  \A i \in 1..Len(stream') : stream'[i].kind # "stop"
      <3>1. /\ Len(stream') = Len(stream) + 1 /\ stream'[Len(stream) + 1] = c
            /\ \A i \in 1..Len(stream) : stream'[i] = stream[i]
        BY <1>1, <2>2
      <3> QED
        BY <1>1, <1>2, <2>2, <3>1
    <2>3. ASSUME NEW c \in Component, NEW d \in Component, comps = <<c, d>>,
                 c.kind # "stop", d.kind # "stop"
          PROVE  \A i \in 1..Len(stream') : stream'[i].kind # "stop"
      <3>1. /\ Len(stream') = Len(stream) + 2 /\ stream'[Len(stream) + 1] = c
            /\ stream'[Len(stream) + 2] = d /\ \A i \in 1..Len(stream) : stream'[i] = stream[i]
        BY <1>1, <2>3
      <3>2. \A i \in 1..Len(stream') :
               i \in 1..Len(stream) \/ i = Len(stream) + 1 \/ i = Len(stream) + 2
        BY <1>1, <3>1
      <3> QED
        BY <1>2, <2>3, <3>1, <3>2
    <2> QED
      BY <2>1, <2>2, <2>3
  <1> QED
    BY <1>1, <1>3 DEF StopInv

LEMMA EndRoundStop ==
    ASSUME AnswerInv, StuckInv, EndRound
    PROVE  StopInv'
  <1>1. at = "calls" /\ log' = log
    BY DEF EndRound
  <1>2. bad' >= MaxBadRounds => n > 0 /\ ~log[n].ok
    BY EndRoundStreak DEF StuckInv
  <1>3. CASE bad' >= MaxBadRounds /\ Finish(<<StopBar>>)
    <2>1. stream \in Seq(Component) /\ stream' = Append(stream, StopBar) /\ at' = "over"
      BY <1>3, StuckTypes DEF Finish
    <2>2. \A i \in 1..Len(stream) : stream[i].kind # "limit"
      BY <1>1 DEF StuckInv, StopInv
    <2>3. \A i \in 1..Len(stream') : stream'[i].kind # "limit"
      BY <2>1, <2>2, KindsOfComponents
    <2>4. n' > 0 /\ ~log'[n'].ok
      BY <1>1, <1>2, <1>3 DEF n
    <2> QED
      BY <1>3, <2>1, <2>3, <2>4 DEF StopInv
  <1>4. CASE at' = "model" /\ stream' = stream
    BY <1>1, <1>4, NoBarAdded DEF StuckInv
  <1> QED
    BY <1>3, <1>4 DEF EndRound

LEMMA CloseStop ==
    ASSUME AnswerInv, StopInv, at # "over", NEW e \in Entries, NEW comps, Close(e, comps),
           \/ comps = <<>>
           \/ \E c \in Component : comps = <<c>> /\ c.kind \notin {"limit", "stop"}
    PROVE  StopInv'
  <1> DEFINE card == Card(n, IF e.ok THEN "success" ELSE "error", e.sql)
  <1>1. card \in Component /\ card.kind = "card"
    BY StuckTypes DEF Card, CardType, Component, Entries
  <1>2. stream' = Append(stream, card) \o comps /\ at' # "over" /\ stream \in Seq(Component)
    BY StuckTypes DEF Close
  <1> HIDE DEF card
  <1>3. CASE comps = <<>>
    <2>1. stream' = Append(stream, card)
      BY <1>1, <1>2, <1>3
    <2> QED
      BY <1>1, <1>2, <2>1, NoBarAdded
  <1>4. ASSUME NEW c \in Component, comps = <<c>>, c.kind \notin {"limit", "stop"}
        PROVE  StopInv'
    BY <1>1, <1>2, <1>4, NoBarAdded
  <1> QED
    BY <1>3, <1>4

\* What a tool shows.
LEMMA ResultComponents ==
    /\ \A b \in BOOLEAN : Text(b) \in Component /\ MemorySearch(b) \in Component
    /\ Notification \in Component /\ LimitBar \in Component /\ ErrorCard \in Component
    /\ \A i, rows \in Nat, a \in Arguments : Chart(i, rows, a) \in Component
    /\ \A i, rows \in Nat, st \in Statements : DataFrame(i, rows, st.shape) \in Component
  BY OtherComponents, ErrorCardIs
  DEF OtherComponent, Component, Chart, ChartType, DataFrame, TableType

LEMMA FailStop ==
    ASSUME AnswerInv, StopInv, InCall, Close(call, <<>>)
    PROVE  StopInv'
  <1>1. at # "over" /\ call \in Entries
    BY CallIs DEF InCall
  <1> QED
    BY <1>1, CloseStop

LEMMA OtherToolStop ==
    ASSUME AnswerInv, StopInv, OtherTool
    PROVE  StopInv'
  <1>1. InCall /\ at # "over"
    BY DEF OtherTool, InCall
  <1>2. call \in Entries /\ n \in Nat
    BY <1>1, CallIs
  <1>3. CASE Fail
    BY <1>1, <1>3, FailStop DEF Fail
  <1>4. ASSUME NEW comps, Succeed(comps),
               \/ comps = <<>>
               \/ \E c \in Component : comps = <<c>> /\ c.kind \notin {"limit", "stop"}
        PROVE  StopInv'
    <2> DEFINE e == [call EXCEPT !.ok = TRUE]
    <2>1. Close(e, comps)
      BY <1>4 DEF Succeed
    <2>2. e \in Entries
      BY <1>2 DEF Entries
    <2> HIDE DEF e
    <2> QED
      BY <1>1, <1>4, <2>1, <2>2, CloseStop
  <1>5. CASE Succeed(<<Text(TRUE)>>)
    BY <1>4, <1>5, ResultComponents, KindsOfComponents
  <1>6. ASSUME NEW hit \in BOOLEAN, Succeed(<<MemorySearch(hit)>>)
        PROVE  StopInv'
    BY <1>4, <1>6, ResultComponents, KindsOfComponents
  <1>7. CASE Succeed(<<>>)
    BY <1>4, <1>7
  <1>8. ASSUME NEW rows \in AnyRows,
               Close([call EXCEPT !.ok = TRUE, !.rows = rows, !.shown = rows],
                     <<Chart(n, rows, call.args)>>)
        PROVE  StopInv'
    <2> DEFINE e == [call EXCEPT !.ok = TRUE, !.rows = rows, !.shown = rows]
               comps == <<Chart(n, rows, call.args)>>
    <2>1. rows \in Nat /\ call.args \in Arguments
      BY <1>2, ToolRoundAssumption DEF Entries
    <2>2. e \in Entries
      BY <1>2, <2>1 DEF Entries
    <2>3. \E c \in Component : comps = <<c>> /\ c.kind \notin {"limit", "stop"}
      BY <1>2, <2>1, ResultComponents, KindsOfComponents
    <2>4. Close(e, comps)
      BY <1>8
    <2> HIDE DEF e, comps
    <2> QED
      BY <1>1, <2>2, <2>3, <2>4, CloseStop
  <1> QED
    BY <1>3, <1>5, <1>6, <1>7, <1>8 DEF OtherTool

LEMMA ExecuteStop ==
    ASSUME AnswerInv, StopInv, Execute
    PROVE  StopInv'
  <1>1. at = "executing" /\ InCall /\ at # "over"
    BY DEF Execute, InCall
  <1>2. call \in Entries /\ n \in Nat /\ call.sql \in Statements
    BY <1>1, CallIs
  <1> DEFINE sent == [call EXCEPT !.sent = Seen]
  <1>3. sent \in Entries
    <2>1. Seen \in Catalog
      BY DEF AnswerInv, RoundInv, RoundTypes, Seen
    <2> QED
      BY <1>2, <2>1 DEF Entries
  <1>4. \/ \E rows \in AnyRows :
              Close([sent EXCEPT !.ok = TRUE, !.rows = rows, !.shown = Fetched(rows).shown,
                                 !.noted = Fetched(rows).more],
                    <<DataFrame(n, Fetched(rows).shown, call.sql.shape)>>)
        \/ Close([sent EXCEPT !.ok = TRUE], <<Notification>>)
        \/ Close(sent, <<>>)
    BY DEF Execute
  <1> HIDE DEF sent
  <1>5. ASSUME NEW rows \in AnyRows,
               Close([sent EXCEPT !.ok = TRUE, !.rows = rows, !.shown = Fetched(rows).shown,
                                  !.noted = Fetched(rows).more],
                     <<DataFrame(n, Fetched(rows).shown, call.sql.shape)>>)
        PROVE  StopInv'
    <2> DEFINE e == [sent EXCEPT !.ok = TRUE, !.rows = rows, !.shown = Fetched(rows).shown,
                                 !.noted = Fetched(rows).more]
               comps == <<DataFrame(n, Fetched(rows).shown, call.sql.shape)>>
    <2>1. Fetched(rows).shown \in Nat /\ Fetched(rows).more \in BOOLEAN /\ rows \in Nat
      BY ToolRoundAssumption DEF Fetched, Least, Cap, AnswerInv, RoundInv, RoundTypes
    <2>2. e \in Entries
      BY <1>3, <2>1 DEF Entries
    <2>3. \E c \in Component : comps = <<c>> /\ c.kind \notin {"limit", "stop"}
      BY <1>2, <2>1, ResultComponents, KindsOfComponents
    <2>4. Close(e, comps)
      BY <1>5
    <2> HIDE DEF e, comps
    <2> QED
      BY <1>1, <2>2, <2>3, <2>4, CloseStop
  <1>6. CASE Close([sent EXCEPT !.ok = TRUE], <<Notification>>)
    <2> DEFINE e == [sent EXCEPT !.ok = TRUE]
    <2>1. e \in Entries
      BY <1>3 DEF Entries
    <2>2. Close(e, <<Notification>>)
      BY <1>6
    <2> HIDE DEF e
    <2> QED
      BY <1>1, <2>1, <2>2, CloseStop, ResultComponents, KindsOfComponents
  <1>7. CASE Close(sent, <<>>)
    BY <1>1, <1>3, <1>7, CloseStop
  <1> QED
    BY <1>4, <1>5, <1>6, <1>7

LEMMA StopKeeps == AnswerInv /\ StuckInv /\ [Next]_vars => StopInv'
  <1> SUFFICES ASSUME AnswerInv, StuckInv, [Next]_vars
               PROVE  StopInv'
    OBVIOUS
  <1>0. StopInv
    BY DEF StuckInv
  <1>1. CASE Command
    <2>1. at # "over" /\ Finish(<<Text(FALSE), Text(FALSE)>>)
      BY <1>1 DEF Command
    <2> QED
      BY <1>0, <2>1, NoStopAdded, ResultComponents, KindsOfComponents
  <1>2. CASE Answer
    <2>1. at # "over" /\ (Finish(<<Text(TRUE)>>) \/ Finish(<<>>))
      BY <1>2 DEF Answer
    <2>2. CASE Finish(<<Text(TRUE)>>)
      BY <1>0, <2>1, <2>2, NoStopAdded, ResultComponents, KindsOfComponents
    <2>3. CASE Finish(<<>>)
      BY <1>0, <2>1, <2>3, NoStopAdded
    <2> QED
      BY <2>1, <2>2, <2>3
  <1>3. CASE ModelFails
    <2>1. at # "over" /\ Finish(<<ErrorCard>>)
      BY <1>3 DEF ModelFails
    <2> QED
      BY <1>0, <2>1, NoStopAdded, ResultComponents, KindsOfComponents
  <1>4. CASE LimitStop
    <2>1. at # "over" /\ Finish(<<LimitBar, Text(TRUE)>>)
      BY <1>4 DEF LimitStop
    <2> QED
      BY <1>0, <2>1, NoStopAdded, ResultComponents, KindsOfComponents
  <1>5. CASE ToolCalls
    BY <1>0, <1>5, NoBarAdded DEF ToolCalls
  <1>6. CASE EndRound
    BY <1>6, EndRoundStop
  <1>7. CASE Open
    <2>1. PICK r \in Requests : stream' = Append(stream, Card(n + 1, "running", r.sql))
      BY <1>7 DEF Open
    <2>2. r.sql \in Statements \cup {None}
      BY DEF Requests, Asked
    <2>3. Card(n + 1, "running", r.sql) \in Component
      BY <2>2, StuckTypes DEF Card, CardType, Component
    <2>4. at # "over" /\ at' # "over"
      BY <1>7 DEF Open
    <2> QED
      BY <1>0, <2>1, <2>3, <2>4, NoBarAdded, KindsOfComponents
  <1>8. CASE Refuse
    BY <1>0, <1>8, FailStop DEF Refuse, InCall
  <1>9. CASE OtherTool
    BY <1>0, <1>9, OtherToolStop
  <1>10. CASE Connects
    <2>1. at # "over" /\ at' # "over" /\ stream' = stream
      BY <1>10 DEF Connects
    <2> QED
      BY <1>0, <2>1, NoBarAdded
  <1>11. CASE Blocked
    BY <1>0, <1>11, FailStop DEF Blocked, Fail, InCall
  <1>12. CASE Check
    <2>1. CASE Fail
      BY <1>0, <1>12, <2>1, FailStop DEF Check, Fail, InCall
    <2>2. CASE at' = "executing" /\ stream' = stream
      BY <1>0, <1>12, <2>2, NoBarAdded DEF Check
    <2> QED
      BY <1>12, <2>1, <2>2 DEF Check
  <1>13. CASE Migrate
    <2>1. at # "over" /\ at' # "over" /\ stream' = stream
      BY <1>13 DEF Migrate
    <2> QED
      BY <1>0, <2>1, NoBarAdded
  <1>14. CASE Execute
    BY <1>0, <1>14, ExecuteStop
  <1>15. CASE UNCHANGED vars
    BY <1>0, <1>15 DEF vars, loopVars, StopInv, n
  <1> QED
    BY <1>1, <1>2, <1>3, <1>4, <1>5, <1>6, <1>7, <1>8, <1>9, <1>10, <1>11, <1>12, <1>13, <1>14,
       <1>15 DEF Next

LEMMA StuckInvariant == Spec => [](AnswerInv /\ StuckInv)
  <1>1. Init => AnswerInv /\ StuckInv
    BY AnswerStarts, StuckStarts
  <1>2. (AnswerInv /\ StuckInv) /\ [Next]_vars => (AnswerInv /\ StuckInv)'
    BY AnswerKeeps, StreakKeeps, StopKeeps DEF StuckInv
  <1> QED
    BY <1>1, <1>2, PTL DEF Spec

\* A run gives up exactly after MaxBadRounds rounds in a row of nothing but bad
\* arguments, for every number of them and of calls in a round, and what it then
\* returns is an error (agent.py, the counters of the loop; components_to_blocks).
THEOREM GivesUp == Spec => []GivesUpWhenStuck
  <1> DEFINE streak == (rounds - MaxBadRounds + 1)..rounds
             stuck == /\ rounds >= MaxBadRounds
                      /\ \A i \in DOMAIN log : log[i].round \in streak => BadArguments(log[i])
  <1>1. AnswerInv /\ StuckInv => GivesUpWhenStuck
    <2> SUFFICES ASSUME AnswerInv, StuckInv
                 PROVE  GivesUpWhenStuck
      OBVIOUS
    <2>1. /\ log \in Seq(Entries) /\ n \in Nat /\ DOMAIN log = 1..n /\ rounds \in Nat
          /\ stream \in Seq(Component) /\ bad \in Nat /\ MaxBadRounds \in Nat \ {0}
      BY StuckTypes, ToolRoundAssumption DEF StuckInv, StreakInv
    <2>2. \A k \in (ended - bad + 1)..ended : AllBad(log, n, k)
      BY DEF StuckInv, StreakInv
    <2>3. ASSUME StopBar \in Range(stream)
          PROVE  stuck /\ at = "over" /\ response.error /\ LimitBar \notin Range(stream)
      <3>1. \E i \in 1..Len(stream) : stream[i].kind = "stop"
        BY <2>1, <2>3, KindsOfComponents DEF Range
      <3>2. /\ at = "over" /\ bad >= MaxBadRounds /\ n > 0 /\ ~log[n].ok
            /\ \A i \in 1..Len(stream) : stream[i].kind # "limit"
        BY <3>1 DEF StuckInv, StopInv
      <3>3. ended = rounds /\ bad <= rounds
        BY <3>2 DEF ended, InRound, InCall, StuckInv, StreakInv
      <3>4. stuck
        <4>1. \A k \in streak : k \in (ended - bad + 1)..ended
          BY <2>1, <3>2, <3>3
        <4>2. rounds >= MaxBadRounds
          BY <2>1, <3>2, <3>3
        <4> HIDE DEF streak
        <4>3. \A k \in streak : AllBad(log, n, k)
          BY <2>2, <4>1
        <4> QED
          BY <2>1, <4>2, <4>3 DEF AllBad
      <3>5. LimitBar \notin Range(stream)
        BY <2>1, <3>2, KindsOfComponents DEF Range
      <3>6. response = Response(stream, setting.details)
        BY <3>2 DEF AnswerInv, EndInv
      <3>7. OpenFailure(log, n)
        BY <2>1, <3>2 DEF OpenFailure
      <3>8. Collapsed(stream).error
        <4>1. closed = n
          BY <3>2 DEF closed, InCall
        <4> QED
          BY <3>7, <4>1 DEF AnswerInv, PassInv, Agrees
      <3>9. response.error
        BY <3>6, <3>8 DEF Response
      <3> QED
        BY <3>2, <3>4, <3>5, <3>9
    <2>4. ASSUME at = "model", stuck
          PROVE  FALSE
      <3>1. ended = rounds /\ bad < MaxBadRounds
        BY <2>4 DEF ended, InRound, InCall, StuckInv, StreakInv
      <3>2. bad < ended /\ ended - bad \in streak
        BY <2>1, <2>4, <3>1
      <3>3. ~AllBad(log, n, ended - bad)
        BY <3>2 DEF StuckInv, StreakInv
      <3> HIDE DEF streak
      <3> QED
        BY <2>1, <2>4, <3>2, <3>3 DEF AllBad
    <2> HIDE DEF stuck
    <2> QED
      <3> USE DEF stuck
      <3> QED
        BY <2>3, <2>4 DEF GivesUpWhenStuck
  <1> QED
    BY <1>1, StuckInvariant, PTL
=============================================================================
