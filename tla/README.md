# SQL Lens: a TLA+ development

SQL Lens (`src/src/sqllens`) is an MCP server that answers questions about a
database: a tool call runs an agent (a model, tools, a vector memory) and
returns its answer. This directory models the parts of the server whose
correctness depends on order: who may run when, what a cancelled, failed or
crashed step leaves behind, and what a bound does when it is reached. TLC checks
the models on small instances; TLAPS proves the main results for every value of
the constants. `PROJECT.json` maps each definition to the lines it models, and
lists the runs, the mutants, the hazards, the findings and the theorems.

## 1. Inventory

Everything below runs in one process. The MCP tools, the agent loop, the
conversation store and the locks live on one asyncio event loop, where only an
`await` that suspends lets another task in. Four kinds of threads work beside
it: SQL workers (8), the agent memory's executor (2), the memory worker of the
admin tools (1) and the default executor (profile writes).

| Part | State | Operations | What makes it correct |
|---|---|---|---|
| Turn queue (`tools/query_database.py`) | registry of entries, each a lock and a user count | arrive, wait, take the turn, leave, cancel | one run per conversation, in order; no second lock; no leak; no lost wake-up |
| Query run (`tools/query_database.py`, `agent/core/agent/agent.py`) | the conversation's messages, the run's locals | baseline, search, model request, tools, trim, rollback, save | a history holds whole turns of calls that ended well, and can be replayed |
| Conversation store (`conversation_store.py`) | LRU map of `Conversation` objects | get, update, truncate, evict | an eviction in the middle of a run loses no finished turn |
| Agent memory (`agent/integrations/chromadb`) | lazily opened client, open error | open, search, save, delete | a failed open is reported by the turns it concerns, and by no other |
| SQL worker pool (`agent/integrations/sql_threads.py`) | semaphore, thread pool | admit, wait, submit, release | permits are conserved, waits bounded, rejected calls never run |
| Memory listing (`memory/store.py`, `_memory_consistency.py`) | the collection, a generation, active writers | page, check; write | a listing that succeeds is one state of the collection |
| Profile store (`profiles.py`, `_atomic.py`) | cache, JSON file | load, upsert, delete | cache, file and answers agree, across failures and restarts |
| Memory imports (`memory/importer.py`, `memory/admin.py`, `memory/exporter.py`) | dedup baseline, two locks, a worker thread, `last_skipped_rows` | add, import, clear, delete, export | an overlap saves nothing twice and loses no addition; a lossy export says so |
| Tool registry, runners, guards (`agent/core/registry.py`, `agent/tools/run_sql.py`, `safety/`) | the calls of a round, the database's catalog | check, validate, guard, verify, run, cap | only permitted, scoped reads reach the database; every call yields a result |
| Response formatting (`tools/_format.py`) | the fold over the stream of components | collapse, choose, trim, trace | what is shown is the result of the last data query, cuts are told |
| HTTP lifespan (`transport/http.py`), agent singleton (`tools/_agent.py`) | session manager, readiness latch, the agent | startup, warm-up, shutdown, request | the manager is left once; readiness and acknowledgements are true |
| Configuration and commands (`config.py`, `cli.py`, `preflight.py`, `auth/`) | file, environment, exit code | init, validate, serve, embed | no server is open by accident; what validates, serves |
| Verification (`eval/`, `cli.py`) | cases, verdicts | load, ask, compare, report | green means verified |
| Installer (`installers/claude_desktop.py`) | three files and a backup | write, back up, revert | a failed install leaves what it found; no entry points at missing files |

How they interact: `query_database` takes a turn, runs the agent, and the agent
calls the conversation store, the memory (through its executor), the SQL pool
(through the guards and runners) and the registry; the formatter folds the
components the run has emitted. The memory tools of the admin API and the
agent's own memory write the same Chroma collection from different threads; only
`CollectionState` connects them. The profile tools and `query_database` share
one `ProfileStore`. A command of the CLI is a process of its own: commands meet
in files (the configuration, Claude Desktop's file, the memory directory).

Hard behaviours: cancellation at every suspension (the client closes a request),
the two-step handover of asyncio's locks, work that goes on on a thread after its
caller has gone, failures between two steps, eviction under a running turn, and
shared state (`open_error`, the profile cache) that changes between two reads.
Each is a hazard of `PROJECT.json` at the line where it bites.

## 2. Modules

| Module | Models |
|---|---|
| `SerialTurns` | what the queue promises: exclusive turns in the order of arrival; no lock, no registry |
| `TurnQueue` | `_conversation_turn`, `_release_queue_entry`, with `asyncio.Lock` beneath them |
| `AtomicTurns` | what `query_database` promises about conversations: a call has one to itself and ends in one step with its messages behind what it found, or with none |
| `QueryTurns` | a whole `query_database` call; EXTENDS `TurnQueue`, whose actions it conjoins with the run |
| `SqlWorkers` | `run_blocking_sql`, the semaphore and the pool |
| `MemoryListing` | `iter_records` against `CollectionState` and the writers |
| `MemoryImports` | the memory tools and `import-memory`: locks, worker threads, baseline, export |
| `ProfileStore` | load, upsert, delete, atomic replacement, crash, restart |
| `SqlGuards` | the guards as operators over an abstract statement: read-only, row rules, catalog check |
| `ResponseFormat` | `components_to_blocks`, the budgets, `build_agent_trace`; EXTENDS `SqlGuards` |
| `ToolRound` | the agent loop call by call, its limits, registry, runner and stream; EXTENDS `ResponseFormat` |
| `Installer` | `run_install`, one access to the disk at a time |
| `Deployment` | the configuration, `init`, `validate`, `serve` over HTTP or stdio, the embedder's factory |
| `HttpLifespan` | `_SessionManagerLifespan`, the readiness latch, `get_agent`, the warm-up |
| `MemoryOpen` | `_get_client` on two threads and `open_error` |
| `Verification` | `verify-memory` and its exit code |
| `Commands` | one process of the command line: EXTENDS the five above, a behaviour is about one of them |
| `TurnQueueProofs`, `QueryTurnsProofs`, `SqlWorkersProofs`, `MemoryListingProofs`, `MemoryImportsProofs`, `ProfileStoreProofs`, `CommandsProofs`, `ToolRoundProofs` | the proofs, section 5 |
| `MC*` | the instances for TLC: symmetry, and a stuttering step for the states in which all work is over |

Deadlock is checked everywhere. A system whose calls are all over has no step;
`Termination` in the MC modules lets exactly those states stutter, so any other
state without a step is an error.

### State and actions against the code

**TurnQueue.** An action is the code between two suspension points. `Arrive` is
`_conversation_turn` up to its `yield`, or to the suspension in
`lock.acquire()`; `Resume` and `AbortWait` are the two ways out of it; `Leave`
is the `finally`. `queues` is `_CONVERSATION_QUEUES`, `users` the entry's
count; `locked`, `waiters` and `fut` are the lock's own fields, because
asyncio hands a lock over in two steps (a released lock is free until the woken
task runs) and the interesting interleavings lie between them. `CancelWait` is
`task.cancel()`, which the task sees in a later step: `doomed`. An entry is named
after the call that minted it.

**QueryTurns.** A run suspends in a slash command, in the memory search, in a
model request and in the tools of a round; `step` says where. What lies between
is one action: `ModelAnswers`, for instance, adds the reply, saves, trims, reads
`open_error`, rolls back and gives the turn back, since no `await` of that chain
suspends. `msgs` are the messages of each `Conversation` object, known by the call
that added them and their kind; `held` and `lru` are the store, `base` the
baseline, `memory` the shared client. Messages of kind `mixed` and `asking`
carry a `tool_use` block that is no tool call, the case the trim exists for.
`blind` records the runs whose own search could not open the store.

**SqlWorkers.** Callers on the loop, driver calls on threads, permits that come
back through `call_soon_threadsafe`. `asyncio.Semaphore` is modelled as Python
3.11 implements it: `GivePermits` is the loop of `_wake_up_next` calls that
`release` and `acquire` run. `expired` and `doomed` keep a timer apart from a
client's cancellation, which `asyncio.timeout` tells apart too. `lost` counts the
permits of `_release_slot`'s error branch.

**MemoryListing.** One action is one locked section of `CollectionState` or one
access to Chroma, which a writer performs row by row. `Choose` is what a writer
settles before it enters `writing()`, so a delete or a hit may be about rows that
have gone by then. `rows` is in the order in which `get(limit, offset)` pages it.

**ProfileStore.** `Ask` is the tool up to its lock, `Submit` the change of the
cache and `_save` up to its `await`, `WriteLands` and `WriteFails` are
`atomic_write_bytes` on a thread, `SaveReturns`, `SaveFails` and `CancelSaving`
the caller's side. `profile_admin_lock` encloses the store's own lock in both
tools, so the two are one. `Crash` may happen at any point; `Restart` runs
`_read_from_disk`, perhaps after the operator has renamed legacy names. Any start may
fail to read an intact file (an `OSError`): the cache is then empty, the load error
set and writes enabled, and `unread` holds until the first save replaces the file;
`Seen` is what the process takes its file for. `confirmed` and `erased` are history
variables: what callers have been told, and the names lost in such a save.

**MemoryImports.** A call holds its asyncio lock while its work queues for the
worker thread of its process (`run_memory_call`); `Cancel` frees the lock and
leaves the work where it is, as `asyncio.wrap_future` does. `worker[p]` is the
thread's queue, its head runs step by step: clear or baseline, then an item at a
time, each save on a thread of the store (`submitted`, `saving`). `skipped`
is `last_skipped_rows`. A row carries, for the properties, the item it was
saved for; the code does not see it. Two kinds of row are in no bundle: `Malformed`
ones, which `iter_all` counts, and `Foreign` ones (of another tool, or a `run_sql`
row without SQL), which it passes over.

**ToolRound, SqlGuards, ResponseFormat.** A statement is its root, its scopes (a
CTE, a derived table or the main query) with their sources, what lies outside
the scopes, and whether it writes or calls a denied function. The guards are the
code's traversals of that structure. `log` has one record per tool call: what was
asked, the catalog it was sent under (`sent`) and what came back; the properties
compare it with `response`, which is computed from `stream`, the emitted
components, alone. The formatter's passes over the stream, and over the blocks under the
budget, are recursive functions. `Migrate` is another client that turns a table into a view
between the check and the statement; SQLite's transaction shields its
statement (`snapshot`), the other engines' does not. Each entry of `log` has the
round it was asked in, so a property can count rounds where the loop counts in a
variable (`bad`). A chart's spec may be `huge`, over the budget without its rows.
That a read-only database is only read is a guard on the one path to a send and no
property: stated of this model it would say nothing but the guard.

**Installer.** A TOML is known by the options it was generated from, or is
somebody else's (`Hand`); a launcher depends on the directory and the executable
only, so several options may share one (`LauncherOf`). A backup's name has the
second of its run: a backup may overwrite one of the same second (`BackupsAfter`),
and `ReplacedConfigIsBackedUp` speaks of the moment of the replacement. Each read
and write is an action that may fail;
`KillInstall` may strike between any two, and inside a write leaves the old
content or the new one (`os.replace`). `DesktopEdits` is Claude Desktop. `raced`
and `previous` are history variables.

**Deployment.** A configuration is what decides a command: the mode, the
token, the bind address, `insecure`, the key. `Effective` is pydantic's order of
sources (environment before file). An authenticator belongs to an HTTP application
(`OverHttp`: `serve` over HTTP, and every embedder); stdio has none. A start may still
fail after the probes (the agent cannot be built, the port is taken): that is another
exit than a refusal. `cleared` remembers that a full validation has passed and nothing
has changed since.

**HttpLifespan.** An action is the code between two awaits of the lifespan
handler; `Cut` is a `BaseException` (cancellation) at one of them. The host may
send any message in any order, open several scopes and drop one. `answer`
is what it was told.

**MemoryOpen.** One action per access to `_client` and `_open_error`, since the
two executor threads share them without a lock.

**Verification.** A case is asked, compared and counted; an agent error is a
verdict of its case, Ctrl-C ends the command. Tolerances are in hundredths of a
percent; `--fail-under nan` passes the option's range and never the report.

## 3. Runs

| Run | Shows | Bounds, and why they are enough |
|---|---|---|
| `TurnQueue` | exclusion, no leak, refinement of `SerialTurns`, no lost wake-up | 4 calls, 2 conversations: a holder, a woken waiter, one behind it and a newcomer; the second conversation shows entries kept apart |
| `QueryTurns` | histories: nothing of a cancelled or memory-less call, replayable, earlier turns kept; a finished turn survives eviction; refinement of `AtomicTurns` | 3 calls, 2 conversations, a store of 1, 2 rounds, 2 bad rounds: two turns of history under a third, and conversations evicted, resaved and recreated |
| `QueryTurnsLive` | every queued call ends | 3 calls, 1 conversation, 1 round |
| `BlindTurn` | violation, finding 2 | 2 calls, 2 conversations |
| `UserAfterResults` | violation, finding 3 | 2 calls, 1 conversation |
| `SqlWorkers` | permits conserved, never idle beside a waiter, in order; every wait ends | 4 calls, 2 permits, 1 lost: two holders, a woken caller, and one behind it or a newcomer; a driver call may keep its permit for ever |
| `MemoryListing` | a listing is the collection; every listing ends | 3 rows in pages of 2 (a full page, a short one; two rows are an exact multiple), 2 writers, up to 3 writes |
| `ProfileStore` | cache and file agree, nothing confirmed is lost, legacy names are kept, but for a file the process could not read | 3 calls, 2 names of which one is the default, 2 bodies, 1 crash |
| `ProfileDivergence` | violation, finding 1 | 2 calls, no crash |
| `Commands` | installs that fail, are killed or are repeated; validation and serving; the lifespan; opening the memory; verification | 2 options, 2 installs (a run finds what the last one left), 1 edit; 14 configuration files (stdio with a bearer token among them), 6 environments, 2 commands and a change between them; 5 lifespan messages (startup, failure, startup, shutdown, shutdown); 3 turns for 2 threads; 3 cases, no tolerance, NaN, and 5 of which two lie on either side of two thirds |
| `MemoryImports` | no double save under one lock, no addition lost, exports that say what they leave out, every call ends | 2 calls of any kind, a pair and a document, a malformed and a foreign row, 1 failure: the second call overlaps the first, its cancelled rest, or an agent's save. Also an export, a clear and an addition that all go well: the last two can change the count between the two steps of the first |
| `ToolRound` | scoped reads, current answers, told losses, clean traces, giving up exactly when stuck | 2 calls and a third without SQL, 3 rounds, of which 2 bad ones in a row end a run; 14 statement shapes (shadowing CTEs, derived tables, views, nested writes, routines), every kind of request metadata, caps of 1 to 3 rows with 0, 1 or 3 found: below, at and over each cap. After two calls with SQL the third is a text in a round of its own, up to the round limit; without SQL all three are of any kind, which gives streaks at once, after a good round, broken by one, and rounds of several calls (`Bounded`) |

Bounds that are not the code's: `MaxHits`, `MaxGeneration`, `MaxLost`, `MaxCrashes`,
`MaxInstalls`, `MaxEdits`, `MaxCommands`, `MaxChanges`, `MaxMessages`, `MaxFailures`,
`MaxCalls`, `MaxCases`. `MaxConversations`, `MaxRounds`, `MaxBadRounds`, `Slots`,
`PageSize`, `MinRows`, `MaxRows`, `TableRows`, `BlockBudget` and `TraceSteps` are
constants of the code with smaller values (a budget counts blocks, not bytes).
Symmetry is used only in runs without liveness;
the calls of `MemoryImports` are named in the order in which they are sent instead. The five sessions of `Commands`
share no variable, so its state space is the sum of theirs and not the product.

Each property of a passing run has a mutant in the module it concerns, next to
the definition it replaces: the form a plausible bug would give it, under which
TLC finds the property violated.

### Fairness

- `TurnQueue`: `Resume` and `AbortWait` (the event loop runs what is due) and
  `Leave` (a turn ends). The last is an assumption only there:
  `QueryTurnsLive` replaces it by fairness of the run's own steps, and the
  bounded loop makes the turn end. It rests on requests that return or time out:
  the model client's timeout, the wait limit of the SQL pool, the drivers.
- `SqlWorkers`: what is due on the loop, the timer included. No driver call is
  assumed to return, since `statement_timeout_ms` may be 0.
- `MemoryListing`: the memory worker's own steps; writers need never move.
- `MemoryImports`: a call whose lock is free is run by the loop, the worker takes
  the next call, store calls and saves return. Nothing is assumed of failures.

Nothing is assumed of clients: they need not call, wait or cancel.

## 4. Findings

1. **A cancelled profile write splits cache and disk** (`profiles.py:249`).
   `upsert` promises that "the cache and disk never diverge" (`:239`), and rolls the
   cache back on any `BaseException`. A cancellation reaches it while the thread
   goes on, and the file gets the value the cache has just lost. Run
   `ProfileDivergence`; `CacheIsOnDisk` and `ConfirmedIsOnDisk` state what holds
   with such writes set apart (`Abandoned`).
2. **A turn without saved memory can read as a success**
   (`query_database.py:700`, against the comment at `:754`). `open_error` is the
   state of the shared memory at the end of the turn, not what the turn met.
   Run `BlindTurn`.
3. **A user message can follow tool results directly** (`agent.py:1046`, against
   the comment at `agent.py:1118`): after the round limit, the bad-round stop, a failed
   request or an empty reply. Run `UserAfterResults`.

Divergences met that no run states on its own:

- An unreadable launcher (`claude_desktop.py:551`) ends `run_install` outside any
  `try`: the TOML already written stays. `FailedInstallUndone` sets this step,
  and the two of the JSON file after the validation, apart.
- "Re-import is safe" (`server.py:422`) holds as far as one lock reaches: an
  import that was cancelled while a save was on its thread, or an import next to
  an `add_memories` (another lock), can save a pair twice. `NoDoubleSave` says where
  it holds.
- An export can leave rows out and succeed: `iter_all` skips the rows of other tools
  (`save_question_tool_args` stores any tool name) and `run_sql` rows without SQL by
  `continue`, without counting them (`store.py:221`), so `lossy` stays false, although
  `admin.py:322` has it true when "data that EXISTS in the store was dropped". The
  docstring of `iter_all` (`store.py:173`) says that such rows are skipped.
  `ExportHeldEverything` sets them (`Foreign`) apart.
- `run_sql.py:170` reports `len(df)`, always 1, as the rows a non-read statement has
  affected.
- A table whose header alone is over its budget is dropped without a block, a
  notice or a count (`_format.py:998`), as is a chart whose spec is (`:1138`); the
  docstring of `components_to_blocks` says nothing is dropped silently. `LossesAreTold`
  sets those (`huge`) apart.
- A file of profiles that cannot be read at a start is replaced by the first save:
  profiles confirmed by an earlier process, and legacy names, are gone. The docstring
  (`profiles.py:98`) announces it, so it is no finding; `ConfirmedIsOnDisk` and
  `LegacyNamesKept` say that this is the only way, and that the load error is set.
  (A file that is no UTF-8 raises a `UnicodeDecodeError`, which nobody catches: the
  server does not start.)
- Outside SQLite the catalog check and the statement are two transactions.
  `RowsAreScoped` claims the scope there only while the catalog does not change.

## 5. Proofs

**TurnQueue, for every finite set of calls and any set of conversations**
(assumption `CallsAssumption`). None of the properties is inductive: nothing in
mutual exclusion says that a waiter is in the deque of the entry it counts on.
The invariant `QInv` of `TurnQueueProofs` adds the missing relations: an entry's
`users` is the number of live calls that use it; the deque of an entry holds
exactly its waiters, each once; the lock is held exactly while one of the
entry's calls has the turn; at most the head of a free lock's queue, cancelled
waiters apart, is woken. Then `_release_queue_entry` sees zero only when nobody is
left, so a registered entry is never replaced under a live call
(`RegistryAgrees`), and two turns on one conversation would be two holders of
one lock (`MutualExclusion`). Counting uses the cardinality facts of
`FiniteSetTheorems`. One lemma per action; `Invariance` combines them.

**Refinement.** `TurnQueueProofs` also proves `Spec => ImplementsSerialTurns` under
the mapping of `TurnQueue`: a cancelled waiter is out of line from the
cancellation on, and the calls ahead of a waiter are those before it in the deque.
`Arrive` maps to `AskAndBegin` or `Ask`, `Resume` to `Begin` (a woken call has
nobody ahead: that is what `QInv` gives), `CancelWait` to `GiveUp`, `Leave` to `End`,
`AbortWait` to a stutter.

**QueryTurns.** `RunsUseTheQueue`: each action of a whole call is a step of the queue
or leaves it alone, so `TurnsSpec => Spec`, and `RunsExclude` carries the queue's
safety over to whole calls. On that rests the invariant `HInv` of the histories, for
every finite set of calls, any conversations and any bounds: a stored object, and the
one a run works on, belong to their conversation and are the same unless it was
evicted (`ObjectsInv`); an object at rest is `Whole`, that is, blocks of messages
of calls that ended well, without an open tool use (`RestInv`); under a run it is
whole up to the run's baseline, and all behind it is the run's own (`RunInv`).
The last is what the rollback relies on, and it needs exclusion: a second run on the
conversation would put its messages behind the first one's baseline.
`TrimmedIsWhole` says what the trim does: it cuts before the first open tool use, and
the message before the cut is never one that waits for results.
`BlocksPerCall`, `NothingOfDroppedCalls`, `EveryHistoryReplays` and `EarlierTurnsStay`
follow. `FinishedTurnsAreStored` is about the store: `_remember` appends the id it saves and
evicts from the other end, so with a cap of at least one (`BoundsAssumption`) it never
evicts what it was called for (`RememberKeeps`).

`CallsAreTransactions` proves that whole calls implement `AtomicTurns`. To the
abstract side a conversation in use still holds what its run found
(`historyBar`), so the steps of a run that goes on are invisible (`GoIsInvisible`:
it adds behind the baseline only) and its end is one step. A call that gets its
turn maps to `Begin` (`StartIsBegin`), a waiter that leaves to `GiveUp`. The end
(`EndIsOver`) maps to `Finish`, to `Fail` when the model request raised, whose
conversation may have been evicted and is not saved, or to `Drop` when the call was
cancelled or the memory could not be opened: what is stored then is whole, the call
is not settled, so nothing of it can be left. Evicted conversations are
forgotten as a whole, which `OthersStay` allows at every step. `ProgressSteps` reduces
the steps of a run to two shapes, `GoStep` and `EndStep`, for this proof and for
the invariant. `TurnsNeverInterleave` is proved (`BlocksPerCall`) and no run checks it:
between turns `TurnsAreAtomic` says more.

**MemoryListing**, for every page size, any finite set of writers and any ids.
`LInv` has three parts: the types; `MarkInv`, that `active` is the number of
writers inside `writing()`; and `PrefixInv`, that as long as the generation is
the one of the snapshot and nobody writes, what was yielded and the page in hand
are a prefix of the collection that ends at the offset. `WriteBegins` moves the
generation before any row changes, so every later row change finds the proviso
false, and `ListingExact` follows: the last check passes only if the prefix is the
whole.

**SqlWorkers**, for every finite set of calls and number of permits
(`PoolAssumption`). `PoolInv` adds to `PermitsConserved` and `NoIdlePermit` that the
line holds exactly the callers that wait, each once (`LineInv`), and that who
waits, gave up or was not submitted has no call in the pool, and a caller that
was told to stop no longer waits for a permit (`CallInv`). The lemma `Giving`
says once what `GivePermits` does, whatever the line: of n permits some go to a
set H of pending callers, one each, nobody past another, and if any was there to
give, the first pending one has it. It rests on ranks: who has fewer than m unserved
callers before him is one of at most m. Conservation is then counting,
`NoIdlePermit` and `ArrivalOrder` follow from the order that `Without` keeps
(`Leaving`). From conservation alone, `NoQueueInThePool`: calls of callers who are
gone count as well.

**MemoryImports**, for any calls, batches and rows and any number of store threads
(`AgentAssumption`: the agent is no call of a client; `BatchesAssumption`: a batch
is a sequence of items). `ImportsInv` follows what a call leaves behind when it is
cancelled. The line of a lock is exactly the calls in hand that need it, each once,
and whoever is past waiting is its head (`LineInv`), so two such calls share no
lock (`Exclusion`). Only the head of a worker's queue runs, and one that still runs
for a cancelled call is in a phase of that call's kind (`JobInv`). A call has at most
one save under way, of the item it is at (`SaveInv`). The holder of a lock has in
`seen` the keys of all rows that calls of that lock saved and were not cancelled, and
no save under way repeats one (`SeenInv`): that is what the fresh baseline buys, and
`ReimportIsSafe` follows. While an addition saves, the server's queue holds no
delete or clear, not even one left behind by a cancelled caller: such a job ran
before the addition's baseline on the one worker thread, and any other waits for the
lock (`AddInv`); hence `AdditionsAreStored`. Between the read of an export and its
report the thread runs nothing else, so the shared flag is still its own
(`ExportInv`), hence `ExportsHoldEverything`: what it read was malformed, foreign, or
is in the blob. `SuccessIsEarned` goes through all ways
in which a call becomes a success.

**ProfileStore** (`StoreAssumption`). `StoreInv` says what the file is while a write is
on its way: the cache without the change of the one call that saves
(`FileInv`), that this call's payload is the cache (`SavingInv`), and whose write
may be running (`JobInv`); all of it provided no cancelled write is behind
(`Tainted`), the exception that finding 1 shows to be necessary. `ConfirmedInv`
allows the moment between a write that has landed and its answer, and the names that
a save over an unread file has erased. `LegacyInv` carries `LegacyNamesKept`: a
process that has loaded such names never submits a write, and one that could not
read them has its load error set until it ends.

**Commands**, session by session; the five share no variable, so each invariant is
kept by the steps of the others (`StepsOfTheParts`).
`InstallerInv` follows the two files through a run: what each holds at each step
(`FilesInv`), that what a revert will put back is what was found (`RevertInv`), that
the plan's view of the configuration is still right when the entry is merged
(`ConfigInv`), and that what a killed run has left is its own or what it found
(`RepeatInv`). `LifespanInv` says that `manager`, `started` and `finalized` agree with
the place of the handler; `exits` is `enters` but for a manager that is open.
`MemoryInv` has the reason for `OpenErrorIsTrue`: `client` never becomes unset,
and an error is cleared only by an open that succeeded. `DeployInv` and
`ClearedInv` follow a configuration through guards and probes: a validation that
passed leaves `Servable`, which only an operator's change ends, and a server over
HTTP has the authenticator of its configuration. They hold for
every set of files, environments, options, turns and thresholds.

**ToolRound** (`ToolRoundAssumption`, `StatementAssumption`, `FormatAssumption`). Three invariants, for every
statement of the abstract syntax, every catalog, any number of calls and all caps
and budgets.

`RoundInv` says of the call at hand, and of every call logged, that a statement that
was sent had passed the guards, and under rules the catalog check of the catalog it
ran under; `ScopedRows` follows by what the guards accept (`CheckedIsScoped`).

`AnswerInv` is about the response, which is computed from the stream of components,
while the properties speak of the log of calls. `Agrees` sets the two side by side
for the calls that have ended (`closed`; the call at hand is in the log before it has
a result): the fold over the stream reports an error exactly if the loop put an error
card there, or a call failed and no data query has succeeded since (`OpenFailure`); its
statement and count are those of the last call that carried one (`QueryAgrees`); its
blocks of rows belong to calls that may show them, tell all their rows, and there is one
for each call that is due one (`BlocksAgree`); the last card of a call has its status
(`CardsAgree`). The call in hand has no
result yet (`Fresh`), so what it ends with is all there is of it. `AskedKeeps`, `ShownAdds` and `EndedKeeps` are
the three ways in which the stream and the log grow; each action is a combination of
them. From the invariant, `AnswersAreCurrent` and `CountsAreCurrent` read the result
off the fold, `LossesAreAnnounced` adds what the budgets do, and `CleanTraces` what
becomes of the last cards.

The fold is a recursive function, not a `RECURSIVE` operator, so the prover can unfold
it: `Recursion` says that such a function exists and satisfies its equation, by
induction in the form of a statement about a set of numbers (`UpTo`), since the
library's induction theorem cannot be instantiated. `CollapsedOneMore` is the equation
the actions use. `TrimmedTells` counts the blocks cut by the budget through a surjection
onto the calls that lost one.

`StuckInv` is about the loop's counters. It relates `bad`, which a round's end changes, to
the log: the rounds ended last, as many as `bad` says, had bad arguments only
(`AllBad`), the round before them had not, and within a round `argFailures` is what its
calls so far amount to (`StreakInv`). A stop's bar is in the stream only after the
limit was reached, at the end, beside no other bar, and the last call failed
(`StopInv`), which with `AnswerInv` makes the response an error. `GivesUp` follows in
both directions: no stop without the streak, and no model request after it.

**Only model-checked**: the five liveness properties (`EveryWaitEnds` of the queue
and of the pool, `EveryCallEnds` of whole calls and of the bulk changes, `EveryListingEnds`), because liveness under
fairness is out of the prover's reach. Every invariant and every action property of a
passing run is a theorem. What the findings rest on is refuted by TLC, not proved.

## 6. Not modelled, and what is next

Left out for good: parsing of SQL (sqlglot), bundles and CSV, the wire formats of the
model clients and of MCP, wording and layout of answers, logging and audit sinks,
the local file system tools and rendering: pure functions or I/O without state that
another part reads. Left out of the modelled parts: token streaming, middleware,
observability hooks, the owner check of the store (one user), rows without
metadata, reads of profiles (they take what the cache holds, and the code promises
nothing of them), the usage counts of memories (best-effort by the code's own
comment at `agent_memory.py:321`), charts over rows that are no objects (`EmitChartParams`
types them), tools other than `run_sql` that carry SQL.

What could come next: the abstract specification of a memory collection that both
`MemoryListing` and `MemoryImports` implement; the transactions of the Postgres and
MySQL runners in detail.
