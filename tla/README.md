# A TLA+ model of commamatrix

commamatrix is a Python framework for LLM agents: one asyncio process that takes
messages from connectors, runs a loop of model calls and tool calls for each of
them, keeps the conversation as a forest of stored items, and can load, reload and
remove its own extensions while it works. This directory holds the formal model of
that code: TLA+ modules, TLC configurations that check them on small instances, and
proofs that TLAPS checks for every instance. Paths below are relative to
`src/src/commamatrix/` unless they begin with `installer/`, which is `src/installer/`.

Nearly everything runs in one event loop, so the unit of atomicity is **the stretch of
code between two awaits**. An action is one such stretch, with everything the code does in
it; other tasks run between two actions. Where the code leaves the loop the unit is
smaller: the write of one file in `PatchFiles` (a thread), one statement in `SqlSchema`
(which a crash may follow), one step of either process in `CodeActExec`, one file or one
process step in `Installer`.

## 1. Inventory

| component | state | operations | hard behaviour | what makes it correct | module |
|---|---|---|---|---|---|
| Run table `core/agent/runner.py`, `builtin/subagent/submit.py` | `_tasks`: key -> Task | `submit` (replace / skip), done-callback, `stop` | late callbacks of displaced tasks, cancellation that travels through awaits, a submitter that is itself cancelled | one current run per key, no stale entry, nobody waits for ever | `AgentRunner` |
| Run loop `core/agent/agent.py` | the `RunCtx`, `last_item_id`, `tool_output_tail`, typing context; the stored items | `handle`, `run`, `_store_history`, `_load_dialog`, `_run_tool_lifecycle`, `_send_and_store_item` | failure or cancellation at any await, runs that share a branch, a dialog switched half-way | the branch, what was delivered and what the model is given agree; hooks run | `DialogRun` |
| Agent lifecycle `core/agent/lifecycle.py` | `_children`, `_registered_children`, `_started`, `_changed`, `_last_scope` | `start`, `refresh`, `stop`, `sync_registered`, `set_scope`, `register`, `_remove_child` | lists changed while they are iterated, failed starts, two locks that `stop` does not take | one component per key, started once, rolled back, fresh after an operation | `AgentLifecycle` |
| Extension runtime `core/extensions.py`, `core/classes/lifecycle_registry.py` | the scope list, `sys.modules`, the class registrations | `add`, `remove`, `reload` | a failing import half-way, a scope list that is shared | the scope is what the successful operations made it | `AgentLifecycle`, `Dispatch` |
| Managers, sources `core/classes/manager.py`, `source.py`, `service.py` | descriptors, fingerprint, instances, active id, the instance registry | `scan`, `invalidate`, `refresh`, `_reconcile_instances`, `start`, `stop` | an instance replaced between two awaits, a `stop()` that raises, a shutdown beside a refresh | instances match descriptors, nothing runs unlisted | `Instances` |
| Ordering `core/classes/ordering.py` | none | `resolve_order` | cycles, ambiguous names, stability | a permutation that respects the constraints | `Ordering` |
| Hooks `components/hook.py`, `instruction.py` | handlers by event | `fire`, `_rebuild` | a refresh during `fire`, a scan that raises | the index is the descriptors; active code runs | `Dispatch` |
| Tools `components/tool.py` | indexes by name, alias, id | `resolve`, `call` | two tools with one public name; defaults, keywords and injected contexts | the tool that was meant, with what was passed | `ToolNames`, `ToolBinding` |
| Connectors `components/connector.py`, `builtin/subagent/*` | listeners; pending internal origins and waiters | `resolve_for_origin`, `register`, `complete`, `waiter` | a result before its waiter, a skipped run | every submission is settled once | not modelled |
| Multi-dialog `builtin/multi_dialog.py` | `state["new_origin"]` | `switch`, `apply_new_origin` | applied by the next delivery | later items go to the new dialog | `DialogRun` |
| SQL storage `builtin/sql/*` | connection, columns, schema versions | `save_event`, `get_branch`, `get_history`, `ensure_table`, `migrate` | connection published early, one transaction for all, crash between statements | a table is usable once it is ensured; what was saved stays | `SqlSchema` |
| HTTP connector `builtin/http_connector/*` | sessions, streams, history cache, invitations | message, stream, events, cancel, history, register; `stop` | cache filled while items arrive, streams cancelled | the cache is the history; a response has its answer | `HttpConnector`, `HttpHistory` |
| HTTP server `components/server.py` | uvicorn task, routes | `start`, `refresh`, `stop` | restart when settings change | one server at most | not modelled |
| CodeAct `builtin/codeact/*` | worker process, connection, RPC tasks | `execute`, `_handle_rpc`, `_cleanup` | crash, timeout, late RPC answers, cancelled cleanup | the process and its tasks are gone afterwards | `CodeActExec` |
| Planner `builtin/planner/*` | `_registered`, the planner | `_reconcile`, `stop` | refresh against stop | timetable = descriptors | not modelled |
| MCP client `builtin/mcp/*` | session, tools per server, configuration | `start`, `refresh`, `refresh_if_changed`, `stop`, `call_tool` | stop during a listing, failed and dying connections, edits of the file | no session is lost; the tools are those served | `McpServers`, `ToolNames` |
| LLM adapters `components/llm_adapter.py`, `builtin/llm_http_adapter/*` | stream accumulators | `build_request`, `parse_stream_event`, `flush_stream` | interleaved fragments of calls, streams that break off, dialogs of several protocols | streamed = whole; the request is the dialog | `LlmCodecs` |
| Workspace tools `builtin/apply_patch.py`, `data_tools.py` | the files, `_filesystem_lock` | `apply_patch`, `data_write` | a failing disk half-way, a cancelled call whose thread goes on | all or nothing, no file vanishes | `PatchText`, `PatchFiles` |
| Installer `installer/windows/*` | `.env`, `entrypoint.py`, the named mutex | the dialog, the first start, `launch`, restart | steps back, breaks between two files, a first start beside a launched program, restarts that release the mutex | the files agree, the password shown serves, one launched program runs | `Installer` |
| Configuration, file storage, CodeAct search, web UI | | | sequential or pure I/O | | not modelled |

How they interact: a connector calls `agent.handle`, which submits one run per
dialog to the run table; the run loop calls hooks, the model, connectors, storage and
tools; tools call `agent.submit_run` (back into the run table) and
`add/remove/reload_extensions` (into the lifecycle), from inside runs. `handle`, `run`
and `submit_run` all begin with `_ensure_started`, so every message also goes through
the lifecycle, which starts, refreshes and stops the managers and through them services
such as the MCP client and the storage. `PROJECT.json` lists the hazards that follow
from this, line by line.

## 2. Modules

| module | models | role |
|---|---|---|
| `RunSlots` | what the run table promises: one slot per key | abstract specification |
| `AgentRunner` | `runner.py` and its callers on asyncio tasks | implements `RunSlots` |
| `CancellationProofs` | | theorems about `AgentRunner` and `PatchFiles` |
| `DialogRun` | `Agent.run()` over one storage, several runs | |
| `DialogRunProofs` | | theorems about `DialogRun` and `HttpHistory` |
| `HttpHistory` | the history page, computed over the store of `DialogRun` | extends `DialogRun` |
| `AgentLifecycle` | `lifecycle.py`, the operations of `agent.py` on it, scope and manager scan | |
| `AgentLifecycleProofs` | | theorems about `AgentLifecycle` |
| `Instances` | the managers that keep running instances, and their registry | |
| `Ordering`, `ToolBinding` | `resolve_order()`; the binding of a call's arguments | operators, no state |
| `Dispatch` | hooks, instructions and tools over their sources | composes `Ordering`, `ToolBinding` |
| `ToolNames` | public names of tools | operators, no state |
| `McpServers` | the MCP client with its servers and configuration | composes `ToolNames` |
| `McpServersProofs` | | theorems about `ToolNames` and `McpServers` |
| `SqlSchema` | the SQL storage on SQLite | |
| `SqlSchemaProofs` | | theorems about `SqlSchema` |
| `HttpConnector` | the requests the HTTP connector serves together | |
| `HttpConnectorProofs` | | theorems about `HttpConnector` |
| `CodeActExec` | one execution, in both processes | |
| `ServiceProofs` | | theorems about `Instances` and `CodeActExec` |
| `LlmCodecs` | the three protocols of the LLM adapter | |
| `PatchText` | parsing of a patch, matching of hunks | operators, no state |
| `PatchFiles` | `apply_patch` and `data_write` on files | composes `PatchText` |
| `Installer` | the installer and the program it leaves | |
| `InstallerProofs` | | theorems about `Installer` |
| `MC...` | | instances for TLC |

### AgentRunner

`tasks` is `AgentRunner._tasks`. `status` follows each run through asyncio: created,
running, unwinding a `CancelledError`, finished with its done-callback still queued,
retired. `replaced[c]` is the await inside `submit()`, `result[c]` the await of the
submitted task (`settle()` of `submit_run`, the gather of an HTTP handler). `Submit`
is the whole of `submit()` up to its await; `SubmitReturns` is the rest, including the
`except (CancelledError, Exception): pass`. `Task.cancel()` is modelled as asyncio does
it: the request is handed on from a task to the task it awaits (`Reached`), and the
error is raised at once only in a body that awaits something else (`Interruptible`).
Callers are clients, or runs whose tools submit further runs; `Targets` says under
which keys. Outside the model: a run that displaces a run which waits for it (asyncio
then hands the cancellation round in a circle).

### DialogRun

`store` is the table of items; an item's position is its id and `prev` its
`previous_item_id`. `run[r]` holds the `RunCtx` and the locals of `Agent.run()`; `pc`
names the await it is suspended at. The awaits `input`, `before`, `ask`, `send`,
`save`, `afterLlm`, `tool`, `retype`, `leave`, `error`, `final` are in the order of the
body. `Fail` and `Cancel` may strike at each of them; a cancelled insert may or may not
have happened. `Branch` is the recursive query of `get_branch()` as a recursive
function, `KnownResults` the filter of `_load_dialog()`. The model's answer is any of
the sets in `Responses`; hooks and tools may fail, set `chain_state`, and tools may
switch the dialog or leave a follow-up item. `shown` and `afterRun` are history
variables. Not in the model: model selection, stream deltas, input items that have an
id already, and tool calls that run concurrently (the loop runs them one by one).

### AgentLifecycle

`lc` is the `AgentLifecycle` with the scope list of the `ExtensionRuntime`; `given` is
the list object the managers hold and `shared` says whether it is still the scope list
itself, which an addition changes in place and a removal or reload replaces. `lc.iter`
are the running `for child in self._children` loops: Python iterates over the live list
until `_sort_children` rebinds the attribute, and goes on over the old list afterwards.
A task in `proc` is a message (`ensure`), an extension operation or `stop()`; the locks
are `HasStartLock` and `refreshing`. `load` numbers the imports of a module, so that
objects of the module before and after a reload can be told apart: what a manager has
`seen` is a set of (module, import) pairs, and a manager's fingerprint changes exactly
when that set does. A component may fail in `start`, `refresh`, `stop` and in its
constructor, a hook may fail, an import may fail before or after its decorator has run.
`hand` is the component whose `stop()` a rollback or `stop()` awaits: its key is looked up
afterwards, which raises when another task has removed it meanwhile. `stop()` then fails
(`ComponentStops`), and a rollback breaks off (`RollBackBreaks`): what it has still to stop
is `left` up, which `up` does not count any more.
Not in the model: cancellation of these calls, the extensions `start` adds by default,
`resolve_order` failing, reloads that leave a module's declarations unchanged, calls
that components make themselves. `stop()` is called on a started agent, as `async with`
does.

### Instances

A `ServiceInstanceManager` over a `PythonServiceSource`: a name is the id of a descriptor, a
version one class object bound to it; versions with one `Qualname` have one fingerprint.
`things` is every instance ever made with the calls it got, `order` the manager's
`_start_order` and `_instances`, `byId` and `byClass` the registry. `sync` is a `start` or
`refresh` in progress with the descriptors its scan found (`want`), `halt` the `stop`, which
takes no lock. `BeginSync` scans, removes what an unavailable source no longer has and picks
the active id; `Drop`, `DropMissing` and `Bring` are the bodies of the loops of
`_reconcile_instances` up to the `await` of `stop()` or `start()`, `Dropped`, `Brought` and
the `...Raises` what follows. Left out: instances whose constructor raises, remote sources.

### Dispatch, Ordering, ToolBinding

`loaded` is `sys.modules` with versions, `listed[k]` the descriptors of a manager, `functions[k]`
the table of a source by id, `index` the handlers of `HookManager` in the order `Ordering`
computes. One extension operation, refresh or stop goes through the managers one `await` at
a time, with the rollback of the failing scan (`RefreshFails`), while a run fires events:
`Fire` takes the list, `Invoke` runs the handler whose turn it is, through the descriptor it
took and the function the source has *now*. A cycle makes a scan raise. `Bind` and
`Proxied` of `ToolBinding` follow `Signature.bind`, `apply_defaults` and `_inject`. One operation and one
run at a time: `AgentLifecycle` has the operations interleave. `Deadlock` is checked here.

### ToolNames, McpServers

`ToolNames` gives the tools of one listing their names, one after the other (`WithTool`,
`Described`), and resolves a name as `ToolManager` does. A safe identifier is a sequence of words; a
public name is the words of alias and name in a row and where the suffixes are, but not where the
alias ends: `a` with `b_c` and `a_b` with `c` have one. Two tools with the called name make the
call fail. `McpServers` has the four callers of the service that change
sessions (start, the lifecycle's refresh, the hook after each tool call, stop), the asyncio
lock with its queue, `conns` with every session ever opened, what the servers would list and
whether they answer, the configuration file and the fingerprint taken of it, and the
`ToolManager`'s tools. A server may refuse, die or change its tools; a gather that is given up
leaves its other requests going on (`Straggler`); the run whose hook it is may be cancelled
(`CancelHook`). `Offered` is what the runtimes have listed at a moment and `Rescanned` what
`ToolManager.scan` makes of it. `ShowTool` and `RunTool` are a name shown to the model and called later.
Left out: transports, the content of results, headers and expansions.

### SqlSchema

Tasks are sequences of steps still to do, one per `await` on the database; a coroutine that
is called puts its steps in front. `disk` is what is committed, `tx[c]` the contents that
connection `c` sees with its open transaction, shared by all tasks that use it; SQLite lets
one connection write; another waits while the first will still be committed, and fails when
nobody is left to do so. `Start` runs the
program with any versions of its tables, `Crash` ends it after any statement and keeps
`disk`. `db` is `SqlStorage._db`, published before `_init_db` is done; `local[k]` the
connection a coroutine got from it. `excused` are the clients whose calls `CallsSucceed` does
not promise: a connection was closed under them, or they began while `known`
(`_known_columns`) named a column that is not there (`StaleCache`, section 5). Left out:
PostgreSQL, the tools over tables, values.

### HttpConnector, HttpHistory

A request is a coroutine; its record holds the locals that survive an `await`. Loading a
history is two actions, the read of the storage and the return of the call, because items are
published in between. A run is a task of its own (`run[r]`), reduced to the one item it stores
and publishes; the next message of its user takes its place in the runner's table (`slot`),
cancels it and is at work while it unwinds, and the request waits in `submit()` (pc
"replace") until it has; a cancellation that reaches the request there is lost
(`Interrupted`, `core/agent/runner.py:60`). `stop()` cancels and gathers the wrappers of the
streams and then closes the sessions. `HttpHistory` defines the trees and heads of the history page
over the store of `DialogRun`, so its property is checked on every forest that two runs
with dialog switches, failures and cancellations can store. Left out: cookies, files, settings.

### CodeActExec

`exec.pc` is the `await` of `execute()`, its cleanup included; `worker` is the process, which
may die at any step; `inbox` and `outbox` are the two directions of the connection; `rpc[c]`
is the task that serves a nested call and `call[c]` the future that waits for it in the
worker. Cancellation may hit every `await`, those of the cleanup too (`exec.abandoned` marks
that it did). `accepted` is the future that hands the connection from its handshake to
`accept()`; a deadline or a cancellation of that await after the handshake loses the
transport (`LostInAccept`). Left out: what the code may import, the text of the output, and
messages of a kind that `worker.py` never sends.

### LlmCodecs

A piece of an answer is a text, a reasoning or a call of some tokens. `acc` is the codec's
accumulator; the events of a response are sent in any order its protocol allows. The token limit
may cut the last piece after any token (`length`, `last`): a chat and an Anthropic stream say so
in their last event, a Responses stream ends with `response.incomplete` (`LastEvent`), and a whole
answer cut inside a call cannot be loaded (`NotReceived`). A stream may be cut off after any event
and end like any other (`Cut`), or fail (`Breaks`). A chat delta may have fields of two kinds
(`ChatMergedDelta`, `ChatMergedFinish`), of which the codec reads one. Blocks are stored as the
run loop does, tools answer, and `BuildRequest` makes the next request of the whole dialog,
with any protocol. Left out: prices, files and images, HTTP errors and retries.

### PatchText, PatchFiles

A line of a file is its indentation, its word and its trailing blanks: that is what the fuzzy
levels of the matching tell apart. A text is its lines as `split("\n")` gives them, so that the
empty text, a blank line and a missing final newline are told apart. `ParsePatch` is the parser,
`ApplyUpdate` the placing of hunks between the split and the join. `PatchFiles` runs calls over the files: all operations are planned, then
each is verified and committed in turn; every write or unlink may fail, and a cancelled call
releases the lock while its thread goes on. A crash keeps the files of the state it
happens in, so the invariants cover it. `writes` records every change of a file, by patches and by
`data_write`. Left out: encodings, the style of newlines, permissions, directories.

### Installer

`session` is the dialog of `bootstrap.py` with its stage and selection; `env[w]` and `entry[w]`
are the two files of a workspace, `dir[w]` says whether `.commamatrix` has entries of any kind,
`admin[w]` whose password the administrator in the database has, `shortcut` what the desktop starts.
`Back` goes one prompt back, `Abort` ends the installation at any point and leaves what was
written, `ClearPartly` is the removal of the data that a file held open breaks off. `Begin` only
looks for programs of the default workspace and the shortcut's, as `Test-CommaMatrixRunning` does.
`InitDb` is `Authorizer.init_db` statement by statement, in the `--initialize` run and in every
program that starts. `phase[p]` follows a process that runs `entrypoint.py` from `AcquireInstance`
(the mutex) to its end, with the restart that stops the agent, releases the mutex and executes the
file again, and `Die`. Left out: downloads, language, icons, host and port values.

## 3. What is checked

TLC explores all reachable states of the instance.

| run | distinct states | shows |
|---|---|---|
| `AgentRunner` | 160 000 | `OneCurrentRun`: at most one run of a key is uncancelled; `NoGhostEntry`: no entry of a finished task; `WaitsForDisplacedRun`; `ImplementsSlots`: refines `RunSlots`; `EveryWaitEnds` |
| `DialogRun` | 706 000 | `OutputsFormOnePath`: what a run stores is one path, whoever else stores; `ModelSeesWhatUserSaw`; `CallsAreAnswered`: one result per call before each question; `HistoryIsWhatWasShown`: shown and stored differ by the last item at most; `AfterRunRuns`; `HistoryShowsEverything`: the history page has each item in exactly one dialog |
| `AgentLifecycle` | 769 000 | `OneComponentPerKey`; `StartedOnce`, `NothingListedIsUp` after failed starts and stops, for all but what a broken rollback has left; `UndisturbedOperationRefreshes` |
| `Instances` | 2 400 000 | `NothingLeaks`: what runs is listed; `RegistryServesTheListed`; `RefreshReconciles`: a refresh that succeeds leaves one running instance per descriptor |
| `Dispatch` | 283 000 | `IndexIsRight`: the index is the listed hooks in an order that meets every constraint, after rollbacks too; `ActiveCodeRuns`: a hook that runs is a hook of a loaded module; `ToolGetsWhatWasPassed` |
| `McpServers` | 1 880 000 | `NoSessionIsForgotten`; `ToolsAreThoseServed`; `CallsReachTheTool`: a name runs the tool it was shown for, or one whose server and remote name read the same |
| `SqlSchema` | 1 740 000 | `ReadyMeansComplete`: a started agent has its whole schema on disk; `SavedIsDurable`; `CallsSucceed` |
| `HttpConnector` | 1 080 000 | `CacheIsHistory`, `ResponseHasAnswer`: nothing published is missed but in one named window |
| `CodeActExec` | 40 000 | `LeavesNothing`: no process, nested call or connection (but one lost in `accept()`) after an execution whose cleanup was not cancelled; `ConnectionIsClosed`: one still in its handshake is closed in the end; `ExecuteEnds` |
| `LlmCodecs` | 1 036 000 | `StreamMatchesWhole`: a streamed answer is stored like a whole one; `RequestKeepsDialog` |
| `PatchFiles` | 87 000 | `AppliedAsMeant`: a patch does what it says or changes nothing; `NothingVanishes`; `LostOnlyAfterCancel`: a patch replaces and deletes what it was planned on |
| `Installer` | 4 570 000 | `SelectionIsInEffect`: both files are of the selection the person ended with; `PasswordIsShown`: a password is shown and serves, unless an installation broke off or a program replaced it; `OneProgramPerWorkspace` |

**Bounds.** *AgentRunner*: two runs of one dialog, two runs of a job key, one client. That is
the least with a displaced run that waits for a displaced run, a late callback against a
successor, and a client that is cancelled while it waits. Runs submit only the job
key here: letting them replace runs of their own dialog or jobs submit jobs multiplies the
run time, and the proofs cover both. *DialogRun*: one run with two rounds of tools (the
second without text), and a second that continues any item of the first at any time; two
dialogs, one cancellation per run, one input item. One more question does not reach a
new kind of state: the locals are reset in each iteration. *AgentLifecycle*: a task that
handles messages, one that operates on extensions and one that stops, two calls each, two
imports per module; one extension brings a component that is a manager, one only
declarations; one component is not a manager. With two operation tasks `OneComponentPerKey`,
`StartedOnce` and `NothingListedIsUp` hold as well (5.4 million states, too long for a
regular run). *Instances*: two services, three versions of which two have one fingerprint,
`MaxMade` 3 instances, 2 changes of the scope, 1 failing call; a replaced instance beside one
that stays needs no more. *Dispatch*: two modules of up to four versions, chosen so that each
pair differs in one thing (event, priority, constraint, cycle, signature, rejected tool), and
two firings, so that one list outlives an operation. *McpServers*: two servers, the
alias of one of which begins with the other's, two specifications, four listings with equal safe
names, names that join to one public name and a duplicate, a workspace tool without an alias that
has the public name of a server's, three connections, one edit, one fault. Two servers whose ids
have one safe form (`SafeId` maps both to one value) hold in 1.6 million states as well; there,
with two faults and three of the listings everything holds as well (6.2 million states), but
only since `ToolsAreThoseServed` ends where a request that was given up is answered late. *SqlSchema*: one table of two versions, one late column, two clients, three
connections, two starts: a crash, an upgrade and a leaked connection each fit. *HttpConnector*:
four requests of one user in the five mixes of `MCWorkloads`; users share nothing but the
invitations, whose mix has three registrations. *CodeActExec*: two nested calls, two
cancellations: the execution and its cleanup. *LlmCodecs*: eight shapes of up to three pieces,
two tokens each so that fragments interleave, two answers, all protocols. *PatchFiles*: every
hunk of two lines on every text of two, two hunks on texts of four lines, blank lines, empty
texts and texts without a final newline among them, combinations of operations over two files,
and two calls together; one fault. *Installer*: two workspaces, two
usable providers and an incomplete one between them, a base and a model of the person's own, one
token, two launched programs, two installations, so that the second meets what the first left. A
second token with one launched program holds as well (1.6 million states), with both it is too long
for a regular run; the proofs are for any number.

**Symmetry** is used where no step tells the values apart: the clients of `SqlSchema`, the
processes of `Installer`. These runs check invariants only.

**Deadlock** is an error in `Dispatch`. The other models stop because their runs, calls and
changes are bounded, so it is switched off there; that a wait ends is `EveryWaitEnds` and
`ExecuteEnds`.

**Fairness.** `AgentRunner` assumes `WF_vars(LoopStep)`: the event loop goes on as long as a
task can move. It includes that the body of a run ends by itself (`Finish`, `Unwind`): model
calls, tools and connectors are called with timeouts, and without that assumption waiting for
a run cannot end. Submissions, cancellations and stop() are not fair. `CodeActExec` assumes it
for what the parent's event loop does by itself: the next step of `execute()` when what it
awaits is there, the two timeouts (`asyncio.wait_for` and the wait for the process), that of
the handshake, a cancelled handler that unwinds, and the worker's own RPC timeout. Nothing is assumed of the
worker's code, the tools or the connection. The other modules check safety only; that every
lifecycle call returns was tried and holds on a smaller instance, but takes as long as the
rest together.

**Mutants.** Each property is paired in `PROJECT.json` with a mutated definition (the
operators marked "Mutant of" in the modules) that it catches: a callback that pops its
successor's entry, a result linked to the tail of an earlier iteration, a rollback that
leaves out the component that failed, a stream that appends each fragment to the last call,
and so on.

## 4. What is proved

Eight modules prove what the runs check on small instances for every value of the constants.
Each rests on an inductive invariant (`IInv`; in `AgentLifecycleProofs` also `HInv`, in `DialogRunProofs` also `SInv`), checked by TLC
before it was proved, with one lemma per action and theorems that follow from `Spec => []IInv`.
Two more have two parts: `ServiceProofs` (`ServicesInv`, `ExecInv`) and `CancellationProofs` (`IInv`
for the runs, `FilesInv` for the calls of the file tools).

| module | theorems | states the run's property |
|---|---|---|
| `CancellationProofs` | `TypeCorrect`, `CurrentRunIsUnique`, `TableIsFresh`, `WaitIsForCleanup`, `RefinesSlots`; `NoBlindOverwrite`, `FilesStay` | all of `AgentRunner` but `EveryWaitEnds`; `LostOnlyAfterCancel`, `NothingVanishes` |
| `DialogRunProofs` | `TypeCorrect`, `OnePathEach`, `StoredIsShown`, `AfterRunFires`, `EveryCallIsAnswered`, `ModelKnowsDialog`, `HistoryIsComplete` | all six: `OutputsFormOnePath`, `HistoryIsWhatWasShown`, `AfterRunRuns`, `CallsAreAnswered`, `ModelSeesWhatUserSaw`, `HistoryShowsEverything` |
| `AgentLifecycleProofs` | `TypeCorrect`, `OneComponent`, `StartsOnce`, `StartIsTransactional`, `UndisturbedRefreshes` | all four |
| `InstallerProofs` | `TypeCorrect`, `OneProgram`, `SelectionHolds`, `PasswordShown` | `OneProgramPerWorkspace`, `SelectionIsInEffect`, `PasswordIsShown` |
| `ServiceProofs` | `TablesAreSound`, `NoneRunsUnlisted`, `RegistryIsRight`, `RefreshLeavesTheWanted`; `ExecTypeCorrect`, `NothingIsLeft`, `PayloadComesFirst` | all three of `Instances`; `LeavesNothing` |
| `HttpConnectorProofs` | `CacheHolds`, `MessageIsAnswered`, `InvitationServesOnce` | both |
| `McpServersProofs` | `TypeCorrect`, `NoSessionForgotten`, `OneRuntime`, `ToolsServed`, `CallsReach`, `NamesTellToolsApart` | all three |
| `SqlSchemaProofs` | `SqlTypeCorrect`, `SqlReadyMeansComplete`, `SqlSavedIsDurable`, `SqlCallsSucceed` | all three |

**Assumptions.** Nothing but the named assumptions on constants, which TLC evaluates on every
run. `RunnerAssumption`, `DialogAssumption`, `CodeActAssumption` and `HttpAssumption` give the
constants their types and keep marks such as `NoOrigin` or `"result"` apart from real values.
`InstallerAssumption` says that a provider keeps its base and its token under two names (in
`providers.json` each does; with one name `.env` could not hold both) and `NamesAssumption` that
`None` is not one of the names written in the code. `LifecycleAssumption` says that the order of
registration names a key once, `InstancesAssumption` that the ids of a scan are distinct
(`PythonServiceSource.scan` keeps the first of several) and that the marks for "nothing" are none
of them. `McpAssumption` says that an id occurs once
in the file, which `_load_specs()` enforces (`builtin/mcp/manager.py:137`), and that the sources of
workspace tools are no servers. `SqlAssumption` says
that the dialog table has a column and finitely many, that there is at least one version, and
that the agent is no client. `PathsAssumption` keeps the mark for "no move" apart from the paths;
`ScenariosAssumption` says that a patch, once parsed, is operations on paths of the workspace, of
which only an update moves its file, and that a file of the initial disk is there or absent.

`StartsOnce` and `StartIsTransactional` have one hypothesis, `OneStopper`: at most one task calls
`stop()`. That is so in the repository, where `stop()` is called on the way out of the agent's own
`async with` (`core/agent/agent.py:355`) or by the one entry point of a program. With two stoppers
both properties fail (section 5).

**AgentRunner.** None of the four invariants is inductive by itself. That a displaced run
does not remove its successor's entry needs that an entry carries its own key
(`NoGhostEntry`); that it never returns to the table needs that a cancelled run has been
accepted before (`CancelledWasAccepted`) and so is never submitted again; that the entry a
submission overwrites is cancelled needs `OneCurrentRun`. `ReachedBounds`, `InterruptedFacts`
and `SameLife` say all the proof needs of cancellation: it reaches at least what it is called
on, and only turns running into unwinding. The refinement is by cases on the actions: a
replacement occupies its slot and vacates those whose runs the cancellation reached; every
other action vacates some slots or stutters.

**PatchFiles.** What `ParsePatch` and `ApplyUpdate` compute stays abstract in the proof: any
operations, any contents. `Stands` says how far a call is with its operations and plans, and that a
planned file is a file. For `LostOnlyAfterCancel` the rest is short: until a call is cancelled, the
one that is busy has the lock (`Exclusive`), so it is the only one at work, and what it verified
still holds when it writes, and when it deletes, the source of a move too (`Checked`). `NothingVanishes` needs where a patch that is alone is among all its operations
(`Progress`): `Apart`, which `_plan_operations()` establishes with its set of touched paths, has
them about different files, so that a write for one disturbs no other; those behind are `Arrived`,
those ahead `Untouched`, and the one in turn is either untouched or, between the write and the
unlink of a move, already arrived (`Halfway`). This is so in every state, so an error, a
cancellation or a crash anywhere leaves it so.

**DialogRun.** The invariant is one of each run, `RunInv(r)`, over the shared store: another
run only appends items that are not its own. `OnePath` ties `last` to the newest own item at
every await of the body, `TailIsNewest` does so for the tail a tool leaves; from both each new
output continues the newest. `Shows` counts: what was shown is what was stored, and one more
exactly while it is being saved. `Ledger(r, k)` is the account of the calls: the first `k` are
answered once each, the next are queued in order, the rest are still to be delivered; the
question can only be asked when `k` is all of them. `Ends` counts the after-run hooks.

`ModelSeesWhatUserSaw` is about what `get_branch()` and the filter of `_load_dialog()` make of the
whole store, so it has an invariant of its own over `IInv`. `Sees(r)`: at every await of the body
the outputs of the run in its dialog are the lines it has shown, in order, but for the one in
delivery; and every call a result is still to come for (`Waiting`) is in the branch already. The
second part is what keeps `_load_dialog()` from dropping the result as one without a call. `PastFacts`
says how the dialog of an item comes from that of the item it continues, and `PastKept` that it
never changes again; both are inductions along the branch, with the lemmas of the last paragraph.

**HttpHistory.** `HistoryShowsEverything` holds of every store of the right type, so `Types` is all it
needs: items continue earlier ones. `LineFacts` and `LineIsChain`: the ancestors of an item are a
chain, and those of its ancestors are among them. `HistoryIsClosed`: because `_history_for_user()`
adds the whole branch of an item cut off from its predecessor, the list has with each item the one before it;
so what `_history_tree()` and `_history_heads()` find on their way up within the list is the branch itself
(`UpwardsIsLine`). The rest is about sets of items: the user's topmost item above an item is a root, the newest item
under a root is a leaf, and the top of its branch is above everything under that root.

**AgentLifecycle.** `start()` and `stop()` walk along the live list by an index, with an await at
each component, while operations of other tasks append to the list, sort it and take components out. `TypeInv` has the shape of the list: a
component of the core or the one registered for its key, each once; `OneComponentPerKey`
follows, since only `Complete` registers and looks first. `Exclusion`: one task has the start
lock, what it starts is not started yet, and `stop()` walks only along a started list. `Startup` is
the account of both walks, without what a broken rollback has left (`Abandoned` takes it out of the
account): before and during a start, what is up is what the start has in hand
(`UpIn`) and what it has not come to is down (`ToStart`); during a stop, what is up is still ahead of
the stop (`ToStop`). `Keeps` says what the walkers rely on when somebody else appends to the
list, sorts it or takes a component out, and `Ends` how each stretch up to the next await ends; the
lemmas about the single stretches have these two as conclusions.

`UndisturbedOperationRefreshes` has an invariant of its own, `HInv`, over `TypeInv` alone and
without `OneStopper`. `Accounted` says at each await of an operation what it has found and done so far:
which component it takes out, that a changed scope is marked, that the registered component is the one of
the scope and what was found last is the scope's, and during the refresh that all components
it has come to see the scope (`Reached`). A step of another task ends `alone`, so only the
operation's own steps count; `Imports` and `Classed` give the class it registers. The proof
attempt found that the property failed without `synced` (section 5).

**Instances.** `OneEach`: a name is listed once, and an instance that is being brought up is not
listed. `Phases`: until a refresh and a stop overlap, one of the two is idle. `Accounted`: what is
up is listed or in hand, and a stop has it before it, so that clearing the tables loses nothing.
`Progress` follows the three loops of a refresh (what goes, what is replaced, what comes): what each
has done, and what is still in `todo`. `Registered` names, at each place, what the
registry may answer with; without it `RegistryServesTheListed` does not survive the step between
a failed start and the removal of its entry.

**Installer.** `OwnersHold`: a process that is past `AcquireInstance` holds the mutex of its
workspace, so two programs cannot; the `--initialize` run takes none, and nothing is proved of it there. `Answering`: what the answers so far have filled in, at every stage,
also after steps back; the basic mode can only be reached with a default provider. `FilesAgree`: unless
an installation broke off between the two files, both give the selection. `Accounts`: a
workspace with data has a known password, or an installation of it broke off, or a program has
replaced the password; the only time when none need be so is while `--initialize` is at work there,
and what it has created by its stop is still in the database, or replaced.

**CodeActExec.** `NothingBeforeAccept` and `PayloadIsFirst` order the messages; `Cleanup` is
the chain of the cleanup's steps: handlers, transport, worker, each of which stays done;
`ClosedForGood`: a closed transport has closed its socket, since the worker connects only before
there is one. `ConnectionIsClosed` is liveness and stays with TLC.

**HttpConnector.** `LoadsAreRecent`: a load that has read the storage has every published item
but those named in `raced`; `Messages` follows a message from what it knew before its run to
the history it answers with; it has no run before it is submitted, and its item is new as long
as it has none, whatever the runs of the same user beside it do. `InvitesAreSpent` and `Places` carry the invitations.

**McpServers.** `LockIsFair`: a caller is at work only while it holds the lock, and each caller is
in line once; without the second part the release could hand the lock to a caller that has left.
`HandIsRight` says what the holder has in hand at each place, `SessionsAreKnown` that every
open session is listed or in hand, `StopIsFinal` that nothing opens after the stop: its last step
needs that the stop has closed all it went through. `OneRuntimePerServer` needs that a session
being opened is of no listed server. `ToolsAreNamed` and `ShownAsNamed` say that a tool of a
server has the safe forms of its ids in its name, before and after any rescan; with that the words
of a public name are those of server and remote name in a row, which is all `CallsReach` needs.
`NamesTellToolsApart` is about `Described`: alias and name tell the tools of one listing apart
although `_suffix` may be applied twice. From the public name, which does not say where the alias
ends, they follow once its number of words is given: the marks within the alias are those that
come after at most that many words, since a name has at least one (`MarksTell`).

**SqlSchema.** Everything rests on `Transactions`: at most one connection has a transaction, it is
open, and it sees all that is committed (`Below`); so no commit takes anything away and a saved row
stays (`Written` says that it is committed before its client returns). The dozen statements of
the storage are brought down to one form each for what a connection sees (`StoreMove`) and what is
left of a task's steps (`WorkMove`), and all else is shown from these. `Tabled` has the tables of
extensions: while the agent starts or refreshes, each of them is still ahead of it, in turn, or
complete. `Left` says which steps are left of the one in turn, in each of the shapes
`ensure_table()` passes through, and what is true of its columns and version there: a migration
that has `n` columns to go has those before them. What the agent has written of tables it commits
with its very next step (`TablesAreAgents`), so a run's commit never finds half a table, and a
crash loses one statement at most; `Records`: the recorded version never promises a column that
is not there, and this is what survives a crash. `FineClients` is what a call without an excuse
relies on: its connection is open and stays open and, while it is the only one, the columns its
last statement names are there or will be asked for by a step before it. The proof attempt found
the stale cache of section 5: without the second excuse `FineClients` is not inductive, and on
instances with five calls, three more than the run has, `CallsSucceed` does not hold.

**Induction over data.** The induction theorems of the library cannot be instantiated here, so
`McpServersProofs` begins with induction of sets: `LeastNumber` (a set of numbers has a least, from the
well-foundedness of finite subsets), `Climb` and `StrongInduction` from it, and
`RecursiveFunction`: a function on `0..N` whose value at each number comes from an earlier one
exists, so a recursive definition says what it seems to. `DescribedFacts` and `OfferedFacts`
are inductions over a listing and over the servers with these lemmas. `DialogRunProofs` has the
same lemmas for `Branch`, `KnownResults` and `Upwards` (`BranchFacts`, `KeepingFacts`, `UpwardsIsLine`).

**Only model-checked**: `EveryWaitEnds` and `ExecuteEnds` (liveness under fairness is outside the
prover); everything about `Dispatch` and `LlmCodecs`, and `AppliedAsMeant` of `PatchFiles` (what a
patch that succeeds has made of the text), which are computations over data.

## 5. Known divergences

Places where the code does not do what a document or comment says, or what a property would
need. Each was found as a counterexample of the formula given, over the variables of the
module named; the runs check the part that does hold.

- `AgentRunner`, `\A t \in cancelled : status[t] = "running" => Awaited(t) # NoTask`: `submit()`
  swallows every `CancelledError` it sees while it awaits the run it replaces
  (`core/agent/runner.py:60`), its caller's own too: that caller goes on beside its
  replacement. `builtin/self_extension/guides/subagent.md:215` says that the new job cancels the old one.
- `DialogRun`, "before each question every call of `Dialog(r)` has a result behind it":
  `_load_dialog()` (`core/agent/agent.py:748`) drops results without calls, as a "provider-valid"
  branch (its docstring) needs, but not calls without results, which failed and
  cancelled runs leave behind. `CallsAreAnswered` is about the run's own calls.
- `DialogRun`, `At(r, "before") /\ run[r].base # NoItem => run[r].chain = store[run[r].base].chain`
  (with a value in `Chains`): `_store_history()` stamps new input items with an empty chain
  (`agent.py:712`) before `_restore_chain_state()` looks for the latest one
  (`guides/runtime.md:64` promises the branch's).
- `DialogRun`, `At(r, "ask")` => every own input is in `Branch(run[r].last)` (with `MaxInputs`
  2): instructions and prompt of `submit_run()` name the same parent
  (`builtin/subagent/submit.py:84,96`) and are only relinked if they name none
  (`agent.py:710`): the first of them is on no branch the model gets (`guides/subagent.md:151`).
- `AgentLifecycle`, `NothingListedIsUp` with `/\ ~lc.comp[c].left` behind it, which says that also a
  rollback that broke off leaves nothing up: when the `stop()` of a component fails in a rollback and an operation has removed that component meanwhile, the handler
  raises `KeyError` (`core/agent/lifecycle.py:216`) and leaves the components started before it up
  (`guides/lifecycle.md:48`: "Startup is transactional").
- `AgentLifecycle`, `\A p \in Procs : Refreshes(p, {"reload"})`: `set_scope()` compares names
  (`core/agent/lifecycle.py:190`), which a reload of the last extension does not change; the
  managers keep the objects of the old import (`guides/runtime.md:26`).
  `test_reload_package_rebuilds_all_scope_modules` of `tests/test_agent.py` does not notice, as
  other modules were added after the one it reloads.
- `AgentLifecycle`, `UndisturbedOperationRefreshes` without `synced` (with three operations of
  one task): when an operation fails after `set_scope()`, `_apply_extensions()` puts the scope
  back (`core/agent/agent.py:325`) but not `_last_scope`, so the same operation, repeated, hands
  nothing on (`core/agent/lifecycle.py:190`): managers keep the objects of the import before,
  and a component that was made again has no scope at all (`guides/runtime.md:26`). The proof
  attempt found it: the scope an operation starts from has to be the one handed on last.
- `AgentLifecycle`, `StartedOnce` and `NothingListedIsUp` with two tasks that call "stop": `stop()`
  takes no lock (`core/agent/lifecycle.py:230`); when two overlap and the agent is started again in
  between, the loop of the second ends on the restarted list and sets `_started` to false
  while components are up, which the next start starts again. Nothing in the repository calls
  `stop()` from two tasks.
- `Instances`, "an instance is of the class in the scope after a reload": the fingerprint of a
  service is its id and qualified name (`core/classes/service.py:73`), so a changed class is
  not replaced (`guides/main.md:154`). And a service that a refresh is starting while `stop()`
  clears the tables is added behind it and runs on.
- `CodeActExec`, `exec.pc = "ended" => WorkerIsStopped`: an execution whose cleanup is itself
  cancelled at its first `await` never reaches the end of the process
  (`builtin/codeact/executor/subproc.py:159`); `builtin/codeact/info.md:418`: "No child process
  is left alive after any of these scenarios".
- `CodeActExec`, `exec.pc = "ended" /\ exec.reason = "cancelled" /\ ~exec.abandoned /\ accepted = "set"
  => socket = "closed"`: the future of
  `accept()` may hold the transport when its await is cancelled or timed out
  (`builtin/codeact/executor/subproc.py:124`); nobody closes it then, only the garbage
  collector; `builtin/codeact/info.md:413`: "transport is closed".
- `LlmCodecs`, calls and results of a request have the form of calls and results, for
  `anthropic_messages`: `_append_message` wraps a block that follows one of its own role as
  text (`builtin/llm_http_adapter/anthropic_messages.py:54-64`). `RequestKeepsDialog` speaks of
  the other two protocols.
- `LlmCodecs`, `rounds[r].ended = "whole" /\ Incomplete(r) /\ r = Len(rounds) => phase = "truncated"`
  for every round `r`: a Responses stream that reached the token limit ends with `response.incomplete`, which `parse_stream_event()` ignores
  (`builtin/llm_http_adapter/responses.py:347-357`). Its texts are lost, the run goes on as if the
  answer were complete, and a call that was cut is executed with `{}`
  (`tests/test_streaming.py:370`: the stop reason of an incomplete response is `LENGTH`).
- `LlmCodecs`, `StreamMatchesWhole` without its conditions on `merged`: a chat delta with content
  returns before its tool calls and its `finish_reason` are read
  (`builtin/llm_http_adapter/chat_completions.py:290-294`). And a whole answer of the chat or
  Responses protocol that was cut inside a call raises `ValueError` (`chat_completions.py:247`,
  `responses.py:208`), where the streamed one is stored with `{}` and fails as truncated.
- `McpServers`, `pc["start"] = "failed"` => every session is closed: one server that refuses
  makes `start()` raise and the lifecycle never stops a service that did not start
  (`builtin/mcp/manager.py:77`; `guides/main.md:153`).
- `McpServers`, `Quiet /\ started /\ confFp = file => descs = file`: the fingerprint of the file is
  taken after the refresh that read it (`builtin/mcp/manager.py:154`); an edit in between is
  never applied by `refresh_if_changed()` (`guides/mcp.md:106`).
- `McpServers`, with `MaxFaults` 2, `Quiet /\ ~troubled /\ pc["start"] = "done" => tools = Rescanned` without
  `troubled' = TRUE` in `Straggler`: the gather of a refresh ends with its first failure
  (`core/classes/manager.py:300`) and its other requests go on; one that is answered after the
  next refresh ended well changes the tools of a runtime, and nothing scans them. And
  `last.ran[1] = last.shown[1]`: of two servers whose ids have one safe form the first in the file
  has the plain alias (`builtin/mcp/source.py:80`), which passes to the other when the first is
  gone; a call made of an older request then reaches the other server. So it does where alias and
  name join to one text (`components/tool.py:569-572`): with both tools
  present every call of that name is ambiguous (`guides/tools.md:78`), with one gone a call made of an
  older request runs the other server's.
- `PatchFiles`, `AppliedAsMeant` with `new = TextOf(spliced, newline)` in `Updated`: a text is split and
  joined at its newlines (`builtin/apply_patch.py:334-346`), and an empty one is one blank line: a
  patch that removes every line of a file leaves `"\n"`, and one that adds a line at the end of an
  empty file makes it `"\nc\n"`.
- `SqlSchema`: after a crash between `CREATE TABLE` and the record of its version
  (`builtin/sql/sql_storage.py:439`) the table counts as version 1, and the migration that
  follows may fail on what is there already, at each start.
  `ReadyMeansComplete` therefore speaks of starts that succeed.
- `SqlSchema`, `CallsSucceed` without the second disjunct of `excused` (`StaleCache`): the
  columns are read again after a failed `ALTER` (`builtin/sql/sql_storage.py:180`) from a
  connection that also sees another task's uncommitted `ALTER`; when that connection is closed the
  column is gone, but `_close()` keeps `_known_columns` (`builtin/sql/sqlite_storage.py:73`), and
  until the next `_init_db()` has read them (`sql_storage.py:162`) a save on the connection
  published before (`:133`) names a column that is not there.
- `HttpHistory`: items of another origin are not in the cached history, so between the return
  of a run and the next load a cached history may list two dialogs where a load has one
  (`builtin/http_connector/connector.py:654`). `HistoryShowsEverything` is about loaded ones.
- `Installer`, `session.stage = "done" /\ ~session.preserve => known[session.workspace]`: `init_db` reads that there is no
  administrator, hashes a password and then updates or inserts a row, over several awaits
  (`builtin/http_connector/auth.py:141-158`), in every process that starts an agent. A program
  launched in the workspace while the installation is at its first start finds the row the
  installation has just inserted and overwrites its password: the one that is shown is void
  (`assets/README.en.md:208`). `PasswordIsShown` excuses such a replacement and nothing else.
- `Installer`, `\A w \in Workspaces : Cardinality(Agents(w)) <= 1`: the agent of `--initialize`
  (`installer/windows/entrypoint.template.py:299-319`) takes no mutex, and
  `Test-CommaMatrixRunning` (`install.ps1:296`) sees neither programs of other workspaces nor those
  launched after it has looked; so the two can be at work in one workspace.
- `Installer`: after an installation that broke off before it showed the password,
  `installer/windows/install.ps1:476` reports that "Existing administrator credentials were
  preserved"; and a kept custom configuration is recognised by `LLM_API_BASE` alone and takes
  the protocol of the provider that uses that name (`installer/windows/bootstrap.py:353`).

Asked of the model, these also fail when calls overlap, with no document that promises
them: a started lifecycle has started all its components (one is skipped when an
operation shifts the list under `start`); a component that was removed is down (`start`
in progress: `_started` is still false, so it is not stopped); an operation refreshes
(a refresh under way clears `_changed` behind it).

## 6. Not modelled

- Connectors and the internal connector of sub-agents: the registration of an origin, its
  waiters and completion. Small beside what was modelled, and next in the plan.
- HTTP server: start, refresh and stop of an external server's task; next in the plan.
- Planner: its reconciliation is an ordinary component of `AgentLifecycle`; the timetable is a
  third-party library.
- CodeAct search: a floating-point ranking over text.
- Configuration, file storage: sequential reading and writing, no state others race for.
- Browser UI: JavaScript that talks to the HTTP connector only. Examples and tests.

What each modelled component leaves out is in its paragraph above and in the notes of
`PROJECT.json`.

## 7. Plan

1. `RunSlots`, `AgentRunner` with its proofs, `DialogRun`, `AgentLifecycle` - done.
2. `Instances`, `CodeActExec`, `HttpConnector`, `SqlSchema`, `McpServers`, `Dispatch`, `PatchFiles`,
   `LlmCodecs`, `Installer` and the operators they use - done.
3. Proofs of `AgentRunner`, `DialogRun`, `HttpHistory`, `AgentLifecycle`, `Instances`, `Installer`, `CodeActExec`,
   `HttpConnector`, `McpServers`, `SqlSchema`, `PatchFiles` - done.
4. `IndexIsRight` of `Dispatch` (what `resolve_order` returns, by induction over its rounds).
5. Internal origins and waiters around `submit_run`, in `AgentRunner`'s run; the HTTP server in
   `AgentLifecycle`'s.
