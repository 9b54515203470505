--------------------------- MODULE MemoryImports ---------------------------
(***************************************************************************)
(* The calls that change the saved memory in bulk, against one another: the *)
(* import_memory tool and the admin tools of the server (server.py,         *)
(* memory/admin.py), and import-memory of the command line, a process of    *)
(* its own (cli.py), all of them over import_bundle (memory/importer.py)     *)
(* and MemoryStore (memory/store.py).                                       *)
(*                                                                         *)
(* Four things order them.  Imports hold import_lock, the other writers      *)
(* admin_write_lock, exports none.  Synchronous store work queues for the   *)
(* memory worker of its process, one thread: a cancelled caller drops what   *)
(* has not started, what has started runs on although the lock is free       *)
(* again.  A save runs on one of the store's own threads, one per call at a  *)
(* time, and outlives its caller as well.  And the event loop runs a step    *)
(* of a call at a time.                                                     *)
(***************************************************************************)
EXTENDS Integers, Sequences, FiniteSets, SequencesExt, FiniteSetsExt

CONSTANTS
    Calls,
    Pairs, Docs,    \* normalized (question, sql) pairs and document contents
    Malformed,      \* an item, or a stored row, the bundle models reject
    Foreign,        \* a stored row of another tool than run_sql, or of run_sql
                    \* without a statement: a bundle has no place for it
    Batches,        \* the item lists a client may send, sequences of them
    Agent,          \* who saved the rows found at the start
    StoreThreads,   \* max_workers of the store's executor (2)
    MinRows,        \* _WHOLESALE_MIN_ROWS (5)
    MaxFailures     \* bound on store calls and saves that raise

ASSUME AgentAssumption == Agent \notin Calls
ASSUME BatchesAssumption == Batches \subseteq Seq(Pairs \cup Docs \cup {Malformed})

VARIABLES
    call,       \* what each call is, where it is and what it has seen and saved
    lock,       \* each asyncio.Lock: its holder, then its waiters
    worker,     \* the queue of each process's memory worker, its head may run
    submitted,  \* rows whose save waits for a thread of the store; a row is its
                \* key and, for the properties, the item it was saved for
    saving,     \* rows whose save runs
    rows,       \* the collection
    skipped,    \* last_skipped_rows of the admin tools' store, as a flag
    failures

vars == <<call, lock, worker, submitted, saving, rows, skipped, failures>>

Keys == Pairs \cup Docs
Kinds == {"import", "add", "delete", "clear", "export", "reload", "rehearse"}
Locks == {"import_lock", "admin_write_lock"}
Processes == {"server", "cli"}
Over == {"ok", "failed", "refused", "cancelled"}

Unsent == [at |-> "new", kind |-> "export", items |-> <<>>, next |-> 0, seen |-> {}, errors |-> FALSE]

Init ==
    /\ call = [c \in Calls |-> Unsent]
    /\ lock = [l \in Locks |-> <<>>]
    /\ worker = [p \in Processes |-> <<>>]
    /\ submitted = {}
    /\ saving = {}
    /\ rows \in SUBSET [key : Keys \cup {Malformed, Foreign}, by : {Agent}, at : {0}]
    /\ skipped = FALSE
    /\ failures = 0

LockOf(kind) ==
    CASE kind = "import" -> {"import_lock"}
      [] kind \in {"add", "delete", "clear"} -> {"admin_write_lock"}
      [] OTHER -> {}

ProcessOf(kind) == IF kind \in {"reload", "rehearse"} THEN "cli" ELSE "server"
Imports == {"import", "add", "reload", "rehearse"}

\* The first store call of each kind of call: reload is --clear, rehearse --dry-run.
FirstPhase(kind) ==
    CASE kind \in {"delete", "clear", "reload"} -> "ids"
      [] kind = "export" -> "read"
      [] OTHER -> "baseline"

Job(c) == [call |-> c, on |-> FALSE, phase |-> FirstPhase(call[c].kind), found |-> {}]

\* asyncio.Lock: a release wakes the first waiter, nobody overtakes it.
LockFreed(c) == [l \in Locks |-> RemoveFirst(lock[l], c)]

\* A call is over, with its lock released.
Ends(c, how) ==
    /\ call' = [call EXCEPT ![c].at = how]
    /\ lock' = LockFreed(c)

-----------------------------------------------------------------------------
(* The calls. *)

\* A write on an open endpoint and a bundle with a malformed item are refused; add
\* collects malformed items instead.  Exports and the command line take no lock.
Send(c) ==
    /\ call[c].at = "new"
    /\ \E kind \in Kinds, batch \in Batches :
        LET items == IF kind \in Imports THEN batch ELSE <<>>
            flawed == Malformed \in ToSet(items)
            sent(at) == [call EXCEPT ![c] = [at |-> at, kind |-> kind, items |-> items, next |-> 0,
                                             seen |-> {}, errors |-> flawed]]
        IN  \/ /\ LockOf(kind) # {} \/ flawed
               /\ call' = sent("refused")
               /\ UNCHANGED lock
            \/ /\ flawed => kind = "add"
               /\ call' = sent("waiting")
               /\ lock' = [l \in Locks |-> IF l \in LockOf(kind) THEN Append(lock[l], c) ELSE lock[l]]
    /\ UNCHANGED <<worker, submitted, saving, rows, skipped, failures>>

\* Mutant of HasLock: the lock keeps nobody out.
HasLockAnyway(c) == \A l \in LockOf(call[c].kind) : c \in ToSet(lock[l])

HasLock(c) == \A l \in LockOf(call[c].kind) : Head(lock[l]) = c

\* With its lock, a call hands its store work to the memory worker.
Submit(c) ==
    /\ call[c].at = "waiting" /\ HasLock(c)
    /\ call' = [call EXCEPT ![c].at = "worker"]
    /\ worker' = [worker EXCEPT ![ProcessOf(call[c].kind)] = Append(@, Job(c))]
    /\ UNCHANGED <<lock, submitted, saving, rows, skipped, failures>>

\* A client gives up, or its connection ends.
Dropped(p, c) ==
    LET queued == {i \in DOMAIN worker[p] : worker[p][i].call = c /\ ~worker[p][i].on}
    IN  IF queued = {} THEN worker[p] ELSE RemoveAt(worker[p], Min(queued))

\* Mutant of Cancel: only a call that ends by itself leaves its lock.
CancelHoldingLock(c) ==
    /\ call[c].at \in {"waiting", "worker", "saving"} /\ ProcessOf(call[c].kind) = "server"
    /\ call' = [call EXCEPT ![c].at = "cancelled"]
    /\ worker' = [p \in Processes |-> Dropped(p, c)]
    /\ submitted' = {r \in submitted : r.by # c}
    /\ UNCHANGED <<lock, saving, rows, skipped, failures>>

\* What has not started is dropped, what runs stays behind.
Cancel(c) ==
    /\ call[c].at \in {"waiting", "worker", "saving"} /\ ProcessOf(call[c].kind) = "server"
    /\ Ends(c, "cancelled")
    /\ worker' = [p \in Processes |-> Dropped(p, c)]
    /\ submitted' = {r \in submitted : r.by # c}
    /\ UNCHANGED <<saving, rows, skipped, failures>>

-----------------------------------------------------------------------------
(* The memory worker. *)

\* Mutant of Take: two threads.
TakeTwo(p) ==
    /\ \E i \in DOMAIN worker[p] :
        /\ ~worker[p][i].on /\ i <= 2
        /\ worker' = [worker EXCEPT ![p][i].on = TRUE]
    /\ UNCHANGED <<call, lock, submitted, saving, rows, skipped, failures>>

Take(p) ==
    /\ worker[p] # <<>> /\ ~Head(worker[p]).on
    /\ worker' = [worker EXCEPT ![p][1].on = TRUE]
    /\ UNCHANGED <<call, lock, submitted, saving, rows, skipped, failures>>

JobAt(p, i, phase) == worker[p][i].on /\ worker[p][i].phase = phase
JobLeaves(p, i) == worker' = [worker EXCEPT ![p] = RemoveAt(@, i)]

\* The caller, if it is still there, gets the outcome.
Returned(c, how) == IF call[c].at = "worker" THEN Ends(c, how) ELSE UNCHANGED <<call, lock>>

\* The rows a call means: a full clear all, clear_memories of a type that type,
\* delete_memory one id, which may have gone.
Meant(kind) ==
    CASE kind = "delete" -> {{r} : r \in rows} \cup {{}}
      [] kind = "clear"  -> {rows, {r \in rows : r.key \in Docs}, {r \in rows : r.key \notin Docs}}
      [] kind = "reload" -> {rows}

\* clear and delete_ids: the ids first; without any there is nothing to delete,
\* which only delete_memory calls a failure.
ReadIds(p, i) ==
    LET c == worker[p][i].call IN
    /\ JobAt(p, i, "ids")
    /\ \E found \in Meant(call[c].kind) :
        IF found # {}
        THEN /\ worker' = [worker EXCEPT ![p][i].phase = "delete", ![p][i].found = found]
             /\ UNCHANGED <<call, lock>>
        ELSE IF call[c].kind = "reload"
        THEN /\ worker' = [worker EXCEPT ![p][i].phase = "baseline"]
             /\ UNCHANGED <<call, lock>>
        ELSE /\ JobLeaves(p, i)
             /\ Returned(c, IF call[c].kind = "delete" THEN "failed" ELSE "ok")
    /\ UNCHANGED <<submitted, saving, rows, skipped, failures>>

Delete(p, i) ==
    LET job == worker[p][i] IN
    /\ JobAt(p, i, "delete")
    /\ rows' = rows \ job.found
    /\ IF call[job.call].kind = "reload"
       THEN /\ worker' = [worker EXCEPT ![p][i].phase = "baseline"]
            /\ UNCHANGED <<call, lock>>
       ELSE /\ JobLeaves(p, i)
            /\ Returned(job.call, "ok")
    /\ UNCHANGED <<submitted, saving, skipped, failures>>

BadRows == {r \in rows : r.key = Malformed}

\* iter_all refuses a collection of which it can represent almost nothing.
Corrupt == Cardinality(rows) >= MinRows /\ 10 * Cardinality(BadRows) >= 9 * Cardinality(rows)

\* iter_all leaves its count in the store it was called on; the admin tools share one.
Counted(kind) == skipped' = IF kind \in {"add", "export"} THEN BadRows # {} ELSE skipped

\* The first well-formed item from i on that is not in seen, or 0.
Unseen(items, seen, i) ==
    LET fresh == {j \in i..Len(items) : items[j] \notin seen \cup {Malformed}}
    IN  IF fresh = {} THEN 0 ELSE Min(fresh)

\* "Partial failure is failure".
Verdict(state) == IF state.errors THEN "failed" ELSE "ok"

\* import_bundle goes on at item i of the call, now in the given state: to the
\* next save, or to its report.  A dry run saves nothing.
Advance(c, state, i) ==
    LET n == Unseen(state.items, state.seen, i) IN
    IF n = 0 \/ state.kind = "rehearse"
    THEN /\ call' = [call EXCEPT ![c] = [state EXCEPT !.at = Verdict(state)]]
         /\ lock' = LockFreed(c)
         /\ UNCHANGED submitted
    ELSE /\ call' = [call EXCEPT ![c] = [state EXCEPT !.at = "saving", !.next = n,
                                                      !.seen = @ \cup {state.items[n]}]]
         /\ submitted' = submitted \cup {[key |-> state.items[n], by |-> c, at |-> n]}
         /\ UNCHANGED lock

\* _baseline: the keys iter_all can represent.  (A foreign row has no key of its own
\* in the code; no item is ever a duplicate of one.)
ReadBaseline(p, i) ==
    LET c == worker[p][i].call IN
    /\ JobAt(p, i, "baseline")
    /\ Counted(call[c].kind)
    /\ JobLeaves(p, i)
    /\ IF call[c].at # "worker" THEN UNCHANGED <<call, lock, submitted>>
       ELSE IF Corrupt THEN Ends(c, "failed") /\ UNCHANGED submitted
       ELSE Advance(c, [call[c] EXCEPT !.seen = {r.key : r \in rows \ BadRows}], 1)
    /\ UNCHANGED <<saving, rows, failures>>

Formats == {"json", "csv"}

\* export_memories: iter_all, then its count, in one call of the worker; "found" is
\* what it read.  Malformed rows are counted, foreign ones passed over in silence.
ReadExport(p, i) ==
    /\ JobAt(p, i, "read")
    /\ Counted("export")
    /\ IF Corrupt
       THEN JobLeaves(p, i) /\ Returned(worker[p][i].call, "failed")
       ELSE /\ \E format \in Formats :
                 worker' = [worker EXCEPT ![p][i].phase = format, ![p][i].found = rows]
            /\ UNCHANGED <<call, lock>>
    /\ UNCHANGED <<submitted, saving, rows, failures>>

\* What a blob of a format can carry: a CSV has no documents.
Carried(format) == IF format = "csv" THEN Pairs ELSE Keys

\* A lossy export is an error: rows that were counted, or documents in a CSV.
ReportExport(p, i) ==
    LET job == worker[p][i]
        lossy == skipped \/ (job.phase = "csv" /\ \E r \in job.found : r.key \in Docs)
    IN  /\ job.on /\ job.phase \in Formats
        /\ JobLeaves(p, i)
        /\ Returned(job.call, IF lossy THEN "failed" ELSE "ok")
        /\ UNCHANGED <<submitted, saving, rows, skipped, failures>>

\* The store raises: the call fails, and what a clear has deleted is gone.
StoreFails(p, i) ==
    /\ worker[p][i].on /\ worker[p][i].phase \notin Formats /\ failures < MaxFailures
    /\ failures' = failures + 1
    /\ JobLeaves(p, i)
    /\ Returned(worker[p][i].call, "failed")
    /\ UNCHANGED <<submitted, saving, rows, skipped>>

-----------------------------------------------------------------------------
(* The saves. *)

SaveStarts(r) ==
    /\ r \in submitted /\ Cardinality(saving) < StoreThreads
    /\ submitted' = submitted \ {r}
    /\ saving' = saving \cup {r}
    /\ UNCHANGED <<call, lock, worker, rows, skipped, failures>>

\* An item is saved; its call, if it is still there, goes on to the next.
SaveLands(r) ==
    /\ r \in saving
    /\ saving' = saving \ {r}
    /\ rows' = rows \cup {r}
    /\ IF call[r.by].at = "saving"
       THEN Advance(r.by, call[r.by], r.at + 1)
       ELSE UNCHANGED <<call, lock, submitted>>
    /\ UNCHANGED <<worker, skipped, failures>>

\* A save raises: an OSError, MemoryError or SystemError ends the import, another
\* exception is the item's error.
SaveRaises(r) ==
    /\ r \in saving /\ failures < MaxFailures
    /\ failures' = failures + 1
    /\ saving' = saving \ {r}
    /\ IF call[r.by].at # "saving" THEN UNCHANGED <<call, lock, submitted>>
       ELSE \/ Ends(r.by, "failed") /\ UNCHANGED submitted
            \/ Advance(r.by, [call[r.by] EXCEPT !.errors = TRUE], r.at + 1)
    /\ UNCHANGED <<worker, rows, skipped>>

WorkerStep(p) ==
    \/ Take(p)
    \/ \E i \in DOMAIN worker[p] :
        ReadIds(p, i) \/ Delete(p, i) \/ ReadBaseline(p, i) \/ ReadExport(p, i) \/ ReportExport(p, i)

Next ==
    \/ \E c \in Calls : Send(c) \/ Submit(c) \/ Cancel(c)
    \/ \E p \in Processes : WorkerStep(p) \/ \E i \in DOMAIN worker[p] : StoreFails(p, i)
    \/ \E r \in submitted : SaveStarts(r)
    \/ \E r \in saving : SaveLands(r) \/ SaveRaises(r)

Spec == Init /\ [][Next]_vars

(* The event loop runs a call whose lock is free, the worker takes the next   *)
(* call, store calls and saves return.                                       *)
Fairness ==
    /\ \A c \in Calls : WF_vars(Submit(c))
    /\ \A p \in Processes : WF_vars(WorkerStep(p))
    /\ WF_vars(\E r \in submitted : SaveStarts(r))
    /\ WF_vars(\E r \in saving : SaveLands(r))

-----------------------------------------------------------------------------
Guards(r) == IF r.by = Agent THEN {} ELSE LockOf(call[r.by].kind)

(* "re-import is safe" (server.py:422), as far as one lock reaches: the        *)
(* imports, and the additions, never save one item twice, however they          *)
(* overlap.  A cancelled call may: its last save can land behind the           *)
(* baseline of the next one.                                                 *)
NoDoubleSave ==
    \A r, s \in rows :
        /\ r # s /\ r.key = s.key
        /\ Guards(r) \cap Guards(s) # {}
        => call[r.by].at = "cancelled" \/ call[s.by].at = "cancelled"

(* A successful add_memories leaves every item it was given in the store: no   *)
(* delete or clear of the server comes between its baseline and its end, not   *)
(* even one whose caller is gone and whose lock is free.  (The command line     *)
(* of another process may clear at any time.)                                 *)
AddedIsStored ==
    [][\A c \in Calls :
         /\ call[c].at \notin Over /\ call[c].kind = "add" /\ call'[c].at = "ok"
         /\ \A d \in Calls : call[d].kind # "reload"
         => ToSet(call[c].items) \subseteq {r.key : r \in rows'}]_vars

(* "a destroyed backup never serializes as an empty success" (admin.py:322):    *)
(* the blob of an export that succeeds carries every row it read that a bundle *)
(* has a place for.  The count that tells it of the others is an attribute of  *)
(* the store, which every addition and every other export overwrites: it is   *)
(* this export's own as long as one thread runs them all.  Foreign rows are    *)
(* the exception: they are left out of a success, and nothing counts them.     *)
ExportHeldEverything ==
    [][\A c \in Calls :
         call[c].kind = "export" /\ call[c].at = "worker" /\ call'[c].at = "ok" =>
            \E i \in DOMAIN worker["server"] :
               LET job == worker["server"][i]
               IN  /\ job.call = c
                   /\ {r.key : r \in job.found} \subseteq Carried(job.phase) \cup {Foreign}]_vars

(* Every call that is sent ends, whoever gave up before it.                   *)
EveryCallEnds == \A c \in Calls : call[c].at = "waiting" ~> call[c].at \in Over
=============================================================================
