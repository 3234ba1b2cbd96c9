# harnas-go in TLA+

harnas-go is a runtime for language-model agents. A *Session* is an append-only
log of events; *strategies* installed as hooks act on it; an *agent loop* turns
the log into a provider request, appends the answer, runs the tools it asks for
and starts over. The log can be written through to a storage adapter, so that a
turn survives a crash and can be resumed by another process. This directory
models that machinery, checks it with TLC and proves part of it with TLAPS.

## The system

| Part | State | Operations | Who it talks to |
|---|---|---|---|
| Event log (`log.go`) | `events`, the adapter, the latched write failure | `AppendBatch`, `ClearStorageErr`, `Restore` | every other part; a bound log calls the adapter before it publishes |
| Binding (`persistent_log.go`) | none of its own | `BindStorage` (header, comparison, backfill), `LoadSessionFromStorage` | log and adapter |
| Storage adapters (`storage.go`, `storage_sql.go`) | header and rows, in memory, a file, or two tables | `AppendEvents` with its fence (`expectedNextSeq`), `SaveHeader`, `EventsSince` | shared by processes |
| Integrity (`integrity.go`, `mutations.go`) | none: functions of the events | `AnalyzeDurableLog`, `ApplyMutations`, `PrepareProviderCall`, `PreparedTranscript.current` | called by the loop |
| Agent loop (`agent_loop.go`, `agent.go`) | locals of `Run`: turn, attempt, decisions, pending calls | `Run`, provider call with retries, closing of a step, dispatch of tools | log, hooks, provider, runner |
| Approval (`approval.go`) | none: approvals are events | `ApproveToolUse`, `DenyToolUse` | host, log, runner |
| Hooks (`hooks.go`) | registered handlers, their options by code pointer | `On`, `Invoke`, isolation of panics | called by the loop |
| Guards and permissions (`strategies.go`, `manifest.go`) | counters in the closures of a runtime | decisions on tools, terminal errors | hooks; approvals |
| Compaction strategies (`strategies.go`) | none: `compact` and `revert` events | `MarkerTail`, `TokenMarkerTail`, `SummaryTail`, `ToolOutputCap` | hooks before a provider call; a provider of their own |
| Projections and ingestors (`projection_*.go`, `ingestor_*.go`) | the Gemini ingestor's count of ids | a request from a log, events from a response | provider, loop |
| Tool middleware (`tool_middleware.go`) | window and count of a rate limiter; file hashes in the log | `RateLimiter`, `StaleReadGuard` | wrap tool handlers; the file system |
| Built-in tools (`builtin_tools.go`) | none | read, write, edit a file | file system |
| Session files (`session.go`, `portability.go`) | a file per session | `Save`, `LoadSession`, `Fork`, `VerifySessionPortable` | host |
| Delegation (`tools.go`, `delegation_projection.go`) | parent, root and spawn ids in headers and events | `spawn_agent`, `DelegationTree` | sessions, files |
| Observation (`observation.go`) | subscribers of a bus; count and alarm of a cost tracker | `Subscribe`, `Unsubscribe`, `Emit` | loop, streams, host |
| Shell sessions (`bash_session.go`) | the registry's map of ids; per session the current command, the closed flag, two ring buffers | `Handle` (`run`, `status`, `kill`), `Close`; two readers and a watcher in goroutines | tool handlers, the shell process |
| MCP clients (`mcp/`) | pending requests, closed flag, loaded or degraded tools | `request`, `Close`, `Tools`, `CallTool`; a reader goroutine | tool handlers, the server process |
| Provider streams (`provider_stream.go`) | the partial message and its tool calls | one handler per SSE event | agent loop, observers |
| Everything else | none, or only files | parsing, projections, ingestors, command line | |

What is hard in it: storage shared by processes that append at the same time;
write failures that may or may not have been stored; a crash between an effect
and the event that records it; approvals that arrive in any order, twice, or
after a reload; hooks that change the log while the loop works on a view of it;
provider answers that break the pairing of calls and results; a stream told to
observers before it is known to be whole; compaction over half-finished batches;
guards whose counters live in one process and whose options are shared by kind;
files, windows and buses shared by goroutines and other programs; shell and MCP
subprocesses whose readers, watchers, timeouts and callers race. PROJECT.json
lists each of these at its line under `hazards`.

## Modules

| Module | Models | Kind |
|---|---|---|
| `FencedLog` | what a storage adapter promises the logs bound to it | abstract specification |
| `DurableLog` | `Log`, `BindStorage`, `LoadSessionFromStorage` and the file and SQL adapters, several writers | detailed specification, implements `FencedLog` |
| `DurableLogProofs` | theorems about `DurableLog` | proofs |
| `MCDurableLog` | instance for TLC | model |
| `Transcript` | pending calls, integrity, compaction views, the entry decision of `Run` | operators on event sequences |
| `AgentLoop` | `Run`, the approval API, the host, storage outages, crashes | specification over `Transcript` |
| `AgentLoopProofs` | theorems about `AgentLoop` and the operators of `Transcript` | proofs |
| `MCAgentLoop` | instance for TLC | model |
| `StdioClient`, `StdioClientProofs` | the MCP client over a subprocess, its lazily loaded tools, the server; theorems | specification, proofs |
| `BashSession` | one shell session of `bash_session`, its goroutines and the shell | specification |
| `BashSessionProofs` | theorems about `BashSession` | proofs |
| `MCStdioClient`, `MCBashSession` | instances for TLC | models |
| `ProviderStream` | the three SSE state machines, the three ingestors, `closeProviderStep` on both | specification |
| `Compaction` | the compaction strategies over a loop's log; the requests made of it | specification over `Transcript` |
| `ProviderCallProofs` | theorems about `Compaction` and `ProviderStream`, what goes to a provider and what comes back | proofs |
| `Selection` | loops that keep some items of a list, or those of a map in index order | operators |
| `Guards`, `GuardsProofs` | guards, permissions and credentials as handlers of hooks, through batches, approvals and restarts; theorems | specification, proofs |
| `Workspace` | the file tools under `StaleReadGuard`, system call by system call | specification |
| `RateLimiter` | the limiter of a tool called by several goroutines | specification |
| `Delegation`, `DelegationProofs` | children, forks, session files, crashes in `Save`, the delegation tree; theorems | specification, proofs |
| `Observation` | buses and cost trackers shared by goroutines | specification |
| `ShellRegistry` | the registry of shells, `Close`, and the ring buffers results are cut from | specification |
| `HostProofs` | theorems about `Observation`, `ShellRegistry`, `RateLimiter` and `Workspace`, what a host runs beside and around its sessions | proofs |
| `MCComponents` | the eight components above, from `ProviderStream` on, one at a time | model |

### DurableLog

One variable per piece of state in the code: `rows` and `header` are what the
adapter stores, `mem` is `Log.events`, `latch` is `Log.storageErr`, `session`
tells whether a Session exists and how it came by its adapter. `op` is the
storage operation in progress. An operation is not atomic: the adapter reads
the rows and checks the fence in one step (`AppendBatch`, `Backfill`), publishes
in a second (`Publish`, or `InsertConflict`, `WriteFails`, `CommitUnknown`), and
its caller learns of it in a third (`Acknowledge`). In between, the other
writers act and processes die (`Crash`).

`Backend` selects the adapter. In SQL the second step is the transaction's
inserts and its commit, and the primary key refuses a seq that is taken. In a
file it is the rename of a file that holds the rows read in the first step and
the new ones. `Serial` says that the host keeps the operations of two sessions
apart, as the multi-tenant example does with its claim of a turn. The memory
adapter is the serial case: it has no lock and belongs to one goroutine.

Inserts and commit are one step, since the rows of an open transaction are
invisible to the others; the read of the header and that of the rows in
`LoadSessionFromStorage` are one step, since a header once stored stays stored.
The checks of `AppendBatch` on the number and the seqs of the rows returned
cannot fail with these adapters and are left out.

### Transcript and AgentLoop

An event keeps the type, the call id and the little of its payload that
control depends on. The operators of `Transcript` are the functions of
`integrity.go` and `mutations.go` and the entry decision of `Run`, on sequences.

`AgentLoop` is sequential, as `Run` is: `loop.pc` says between which two effects
it stands, and a step runs to the next append, provider call or tool execution.
Hooks appear as what they may do: decide on a call (`DecideTools`), record a
terminal error (`GuardTrips`), panic with the policy that fails the turn
(`HookFailsTurn`), append to the log before a provider call (`HookAppends`). A
hook whose panic is isolated decides nothing, which is "allow". Every append may
meet an outage (`AppendFails`: it fails, and the rows may be stored all the
same), find the log latched, or be refused because the storage has more rows
than the memory. A process may die at any step (`Crash`) and the session be
loaded again. The storage is the contract of `FencedLog` with one writer.
`pendingToolUses` lists the calls in the order of the log; `InLogOrder` is the
set of such lists of a set of calls, which is one list unless an id is in the
log twice.

Assumed of the surroundings: the loop has a Runner, as every manifest gives it
one; the host resolves only calls whose approval was requested; an unknown
tool, invalid arguments and a failing handler all come down to one result for
the call. Compaction is not in `AgentLoop`: `Compaction` runs the strategies
over a loop of its own, without outages. `TypeOK` of `AgentLoop` and of
`StdioClient` says what the variables hold; the runs spend their time on the
other properties.

### StdioClient

Each caller is in an operation (`op`) at a point of `request` (`pc`): about to
register, to write, blocked in a write, waiting, or about to forget its request.
`c.mu` appears as `mu` only where the code can stop while it holds it, which is
the write into a full pipe; everything else under the mutex is one step that
requires it to be free. `clientState.mu`, held over the two requests and the
notification of a load, is `loading`. Each request has its channel, which
`channels` shows with the request its content answers, so that a misdirected
answer is visible. The reader takes a line and finds its channel in one step
(`ReadLine`) and sends in another (`Send`). The server is external: it may
answer any request it has read, late, twice, or never, send a request of its own
(`ServerAsks`, MCP's ping), print lines of other kinds, and exit. The reader goes
by the id and looks neither at the method nor at the result, and the server
counts its ids itself; so a request of the server's own under a number that is
pending is delivered as the answer, an empty one. `AnswersOwnRequest` names this
exception and no other: the number must be the caller's own, and the answer that
comes later finds nobody. `CloseReturns` is the process ending after SIGTERM,
`CloseKills` the three seconds running out.

### BashSession

`current`, `closed` and the fields of a `bashCommand` are the code's; commands
are numbered instead of having tokens. A stretch under `s.mu` is one step:
`run` up to the writing of the frame, each half of `kill`, `close`, the handling
of one sentinel, the end of `waitShell`. The waits without the lock are states
of a caller (`blocked`, `running`) or of `kill` (`waiting`, `forced`), and the
snapshot of a result is a step of its own since it takes no lock. The shell is
external: it runs one frame after the other, prints on two pipes that are read
independently, and may exit or be killed. `SIGTERM` may or may not end it, so
`Kill` changes nothing and `ShellExits` may follow. After the process has ended,
`cmd.Wait` closes the pipes, and the readers handle only what they had buffered
(`WaitShell`). Background processes of a command and the limit of the buffers
are left to `ShellRegistry`; `status` only reads.

### ProviderStream

`stream` is what a stream handler keeps between frames: its calls by index, with
id and arguments, the stop reason it has seen, its phase. There is an action per
kind of frame of each provider (`AnthropicFrame`, `OpenAIFrame`, `GeminiFrame`),
and `StreamEnds` decides whether the answer is whole and stages it. `observed`
is what the observers were told, `staged` what goes to `closeProviderStep`. The
server is external and sends any frame at any time: an index again, an id that
changes, arguments that do not parse, no last frame, or nothing more. `odd`
marks servers that reuse an index, rename a call, or put text into a thinking
block. `why` keeps the reason of a failure.

The ingestors are operators (`Ingested`) applied to the same answer, so that
`StreamedLikeBuffered` compares the two paths. CHANGELOG.md:34 says that they
"are staged identically"; the property says how far that goes. Where a stream
completes (`SameStep`), the chunks, the calls and what `closeProviderStep` makes
of them are the same, except that

* what the model thought is only ingested: the Anthropic stream lets thinking
  blocks open and close and keeps nothing of them, those of OpenAI and Gemini
  drop reasoning deltas and thought parts (`thought`);
* a stop at a limit ("length", "MAX_TOKENS") is known to the streams of OpenAI and
  Gemini and not to their ingestors, for which it is another reason;
* the Gemini stream reports a stop reason with which a step with calls is closed,
  where the ingestor dispatches them; and its calls have other ids.

Where only the stream fails, the property says what the buffered step does
instead: with a `thinking_delta`, `signature_delta` or `citations_delta`
(`OtherDelta`, a protocol error of the Anthropic stream) the buffered answer is
taken; with arguments that do not parse OpenAI's ingestor makes an empty object;
without a finish reason the ingestors take the answer with "other"; and a call
without a name fails the attempt when streamed, which may be retried, and refuses
the step when buffered, which ends the run. Frames out of order (`why` is
"protocol") and broken connections have no buffered counterpart. Blocks of other
types ("redacted_thinking") open and close as text does; of an error frame only
the failure is kept.

`recurred`
collects the ids that were used before: the Gemini ones are numbered per answer
(stream) or per process (ingestor), the others come from the server.

### Compaction

The log grows by messages, batches of calls dispatched at once or held and
approved one by one, and late results; before each provider call the installed
strategies run, any list of them in any order (`StrategyLists`, each element with
its limits), one after the other on what the one before it left (`hook`).
`SafeRange` is `toolPairSafeRange`; `Visible`,
`ActiveCompacts` and the integrity of the view are those of `Transcript`.
Token estimates are a weight per type of event. A host may revert a compaction
(`RevertCompact`, external). `AnthropicMessages`, `OpenAIMessages` and
`GeminiMessages` are the projections as sequences of turns, with their merging
of neighbours, and the `Accepts` operators say what the code in `src/` and the
providers' rules as the projections rely on them require of a request: each
call followed by its results. Exceptions written into the properties:
`MarkerTail` keeps the last messages by count and may split a pair, after which
`PrepareProviderCall` refuses the transcript; and a request does not pair its
calls when a message was chatted while a call was on hold (`SpokenOver`) or a
summary stands between a call and its result (`SummarisedOver`).

`EachMessageShownOnce` has one exception, which takes two strategies in one
order (`CutsBeforeCap`). A `MarkerTail` may hide a call and keep its huge result;
`ToolOutputCap`, after it in the list and not before it as well, looks the call
up in the whole log, hidden or not, and compacts it a second time with the result.
The call is then behind two active summaries, and when it is the first event of
both, `ApplyMutations` keeps one of them for the place (`CutThenCapped`). In the
other order, or with the strategies that keep pairs, it cannot happen. When
`MarkerTail` is to keep as many messages as there are it appends a compact of
nothing, as in the code; when it is to keep more it panics, and the hook is
isolated.

### Guards

`installed` is the manifest's strategies in order, any list in `Manifests`, each
with its `onError`; a call has a class for each of them ("good", "bad", "other":
what a path, host, name or credential comes to; "other" is also a call that
matches no route of a `CredentialProxy`, which is let by and leaves the counter
alone, and "unsupported" one whose route it cannot serve, which is refused and
not counted). One step is one handler for one
call (`SandboxJudges` and the other `Judges`), so that decisions, strikes and
panics come in the order `dispatchPendingTools` and `Invoke` have them; a batch
with an approval is held, its calls resolved by the host, and judged again by the
resumed loop. A restart installs the strategies anew, with fresh counters, over
the same log. Options are kept by code pointer: of two strategies of one kind the
first loses its `on_error` to the other's registration (`Policy`).
`RefusedNeverRuns` therefore excepts a strike guard at its limit whose panic is
isolated, by its own option or by its twin's: it records the terminal error and
refuses nothing. `TripsAreEarned` reads a strike guard's limit as a row of refused
calls in the log and the repetition guard's three limits as sets of same, failed
and refused calls (results in a row are at most all of them); it excepts a
session in which some call was judged twice.

### Workspace

A file whose content is a version number, sessions that read, write and edit it
under a guard, and programs outside. A tool is the sequence of its system calls:
check of the hash, read, truncation, write, recording of the hash (`call[s].pc`).
A tool may fail or its process stop between two of them (`ToolStops`). `seen`
is a history of the contents a session has been shown or has written; `raced`
and `disturbed` mark that another's write fell inside one of its calls, which is
the exception in `NothingUnseenIsLost`: the guard checks and records without any
lock on the file.

### RateLimiter

The clock is read in one step and the mutex taken in a later one (`ReadClock`,
`Admit`, `Reject`), so the times `admit` sees may go back. `admitted` is the
history of calls let by. The bound that holds is two windows: of `2 * PerMinute
+ 1` calls in a row, the first read the clock a minute before the last was let
by.

### Delegation

Sessions in memory, their files, and the ids drawn so far. `SpawnAgent` creates
the child and makes its two appends to the parent's log, of which the storage
may refuse the first or the second. The child's parent is
`Runner.ParentSession`, which need not be the session that gets the spawn: the
loop (`agent_loop.go:636`) and `ApproveToolUse` (`approval.go:63`) set it before
they run a call, but a host may call `Runner.Run` itself, with none set
(`spawn_agent_test.go:25`, `examples/multitenant/embed.go:189`) or with one that
was forked since. `owner` is any session or none, and `strays` are the children
for which it was another. `Fork` copies a log up to the first event beyond a seq,
with the lineage; `Save` writes a file whole, up to the first payload that the
encoder refuses, or up to some line when the process dies in it (`Die`), with the
line torn or not. `DelegationTree` is read off the logs of `Resolved` sessions.
What `TreesResolve` says is exact: a tree can be read unless a session below
cannot be had, a fork carries the spawns it copied (the child names another
parent), a child is a stray, or a spawn was reported twice.

Payloads come in four classes, by what the canonical encoder (`jcs.go`) and
`json.Encoder` do with them: canonical ones are the same for both; an invalid one
(text that is not UTF-8, as `read_file` may return it, or a type that `writeJCSV1`
does not know) is refused by the first and rewritten by the second; a narrow one
(a `float32`) is taken by both and written differently; NaN is refused by both.
`VerifySessionPortable` (`Portable`) is its four checks: dense rows, each
hashable, `Save` and `LoadSession`, and the same after it. So a session in memory
may fail it, and `SavedIsPortable` says when: exactly when some payload is not
canonical. It says more of files, since they are what crosses to another
implementation: whatever file loads is portable, also of a session that was not,
or of a save that was cut off; and the file of a session in memory holds the first
of its events, as written. A cut-off `Save` may load without an error as a shorter
session: it is portable, and not the one saved. Left out: a host that restores
events with gaps (`Log.Restore`), and metadata that cannot be encoded.

### Observation

`Emit` copies the subscribers under the lock and calls them without it, one step
each; a cost tracker counts and rings under its own lock. A tracker may be on
several buses. `Unsubscribe` compares functions by code, so it takes off the
first tracker of the bus, whosoever it is. `AlarmRingsOnce` holds for a tracker
that was `LeftAlone` by that: it rings once, at or over its threshold, and when
all is quiet and the messages owed to it reach the threshold it has rung.

### ShellRegistry

Several goroutines call the tool on one registry, and `Close`. `session` is two
steps: finding the id (`Handle`) and starting the shell that is not there
(`StartShell`), between which `r.mu` stays held (`registryMu`); `Close` holds it
over one step per session. A call acts on the shell it found after the mutex is
released, so the shell may by then be closed, or forgotten by the registry. Of
the turns in a session `busy` is what is left. The buffers are the code's: the
last `MaxOutput` bytes, the count of all, the flag; bytes are numbered, one
stream stands for the two, and a shell prints at any time, as what a command
leaves running does. A result is read in two steps, the bytes (`RunSnapshots`)
and the flag (`RunAnswers`), since the code takes the buffer's lock anew.

## Runs

| Run | Question | Answer |
|---|---|---|
| `durable_log_sql` | Do interleaved SQL transactions, ambiguous commits and crashes keep what was acknowledged? | yes, and the adapter implements `FencedLog` |
| `durable_log_file` | Does the file adapter, with one session at a time? | yes: the inductive invariant of the proofs holds, and with it what they derive |
| `durable_log_file_shared` | And with two processes at any time? | no: an acknowledged event is lost |
| `agent_loop` | Is every execution accounted for and durable, is no session wedged, does nothing run while it awaits approval? | yes |
| `agent_loop_live` | Does every call of the host return, with retries and reused ids, and does every request show the whole log? | yes |
| `agent_loop_ids` | Does a session stay usable when a provider reuses a call id? | no |
| `agent_loop_approve` | Is an approved call executed exactly once? | no, after an outage it is executed again |
| `agent_loop_retry` | Is a turn safe to retry after `ClearStorageErr`? | no, a tool may have run already |
| `stdio_client` | Do answers reach their requests, does every call return, is nothing left behind? | yes, if the server reads its input |
| `bash_session` | Does the shell run one command at a time, is each completed once with its output, do `kill` and `close` end every wait? | yes |
| `bash_session_output` | Is the command-local output of a result that command's alone? | no, the next command's may be in it |
| `components` | The eight components that share no state, each on its own instance (below) | yes, with the exceptions written into the properties |

The runs answered "no" contradict sentences of the repository, quoted under
`findings`.

`CloseEndsTheServer` has an exception written into it: when the reader has given
up first, because the server printed a line that is not JSON, the client is
closed already and `Close` leaves the process running. No document promises
otherwise.

`components` answers eight questions in one run. `MCComponents` EXTENDS the eight
modules; a behaviour picks a component in its first state and only that one
moves, so the reachable states are the sum of those of the instances, and each
property is checked over all of its component's. The questions: does the log get
of a streamed turn what observers were told (`ObserversAgreeWithLog`), as it
would have got it buffered (`StreamedLikeBuffered`), with ids that do not recur
(`IdsRecurOnlyFromGemini`)? Do compactions keep the transcript acceptable
(`OnlyMarkerTailRefuses`), complete (`EachMessageShownOnce`) and paired in the
request (`RequestPairsCalls`)? Does a refused call ever run (`RefusedNeverRuns`),
and does a guard end a session only for what happened (`TripsAreEarned`)? Does a
guarded session overwrite what it has not seen (`NothingUnseenIsLost`)? How many
calls pass a limiter in a minute (`AtMostTwoWindowsAMinute`)? When can a tree of
sessions be read (`TreesResolve`), when is a session portable and what does its
file hold (`SavedIsPortable`)? Does the alarm of a cost tracker ring once
(`AlarmRingsOnce`)? Can every shell that was started still be killed or closed
(`ShellsAreReachable`), and is the output of a command what was printed from its
start on, the end of it where it does not fit, and then flagged (`OutputIsTail`)?

**Bounds.** `DurableLog`: two writers, three event contents of two types (so that
`BindStorage` can take one for the other), batches of one or two, three rows.
Two writers suffice for every race the code can have, since a step looks at one
other writer's rows only; three rows let a batch, a backfilled event and a
competing append meet. `AgentLoop`: two call ids, so that a batch may mix
decisions and one call may be pending while another is done; three calls of the
host, which allow chat, approval, and resumption; one outage and one crash,
anywhere; two turns. `agent_loop_live` trades the crash and the larger batch
for a second provider attempt and ids that recur.
`StdioClient`: two callers and two calls, so that a load meets a call or
another load and a timed-out request is followed by one that could get its
answer; one line per pipe, so that both a full and an empty pipe occur; requests
of the server's own with ids 1 and 2, which are the first ids a client draws, so
that they meet a pending request, a finished one and none.
`BashSession`: two callers, two commands and one line printed by each, on either
stream: one command may run, be abandoned, killed or completed while the other
waits, starts or is refused. `components`: two calls, one text chunk, two answers
and one restart for a stream (calls interleave, ids recur across answers and
processes), thinking and an odd server in the first attempt only (`MCFirstThoughts`); logs of up to
seven events to which a step is added, batches of two, tails of one message beyond
three, one revert, so that a compaction can fall inside a batch, on top of
another, and be undone, with each strategy alone and each pair of which one looks
at what the other left, `MarkerTail` before `ToolOutputCap` and after it
(`MCStrategyLists`); strike and rejection limits of two, the others
of three, three calls in a session, with one restart, and manifests of one
strategy of each kind or of two that act on each other (`MCManifests`), so that a
limit is reached across batches and not across a restart; two sessions and an outside program with two written contents
besides the empty and the absent file; two calls a minute of two ticks, five
ticks, two callers, which is two full windows and the first call after them;
three sessions, which make a child, its child and a fork, one crash and one odd
payload; beside a third session no odd payload, and with files then no stray, two
files and four rows in memory at most (`MCSlice`), which still has a grandchild, a
spawn reported twice and a parent loaded beside its child; two buses, two trackers, two messages per bus and an alarm at two, so that the alarm
is reached on one bus or across both; two callers of a registry, one id to name
besides those drawn, two shells, a buffer of one byte and two printed, so that
two calls want one id at once, a shell is started after `Close`, and a buffer
drops bytes before, in and after a command.

**Fairness.** In `AgentLoop` only `RunsReturn` needs it: `WF_vars(Running)` says that a `Run`
or an approval, once called, goes on. That is the scheduling of a goroutine
plus the assumption that provider and tools return, for which the clients have
timeouts. Nothing obliges the host to call. In `StdioClient`, callers, reader
and the timer of `Close` go on, and a server that is up reads its input. The
last is an assumption about the server: `write` has no timeout and holds the
mutex, so without it no call need return. In `BashSession`, goroutines and the
timer of `kill` go on; the shell is asked nothing, and a command may run for
ever.

**Stopping.** The specifications bound what the host does (`MaxRuns`,
`MaxRows`), and a session, client or shell on which nobody calls is idle, so
deadlock is not checked. That nobody waits for ever is the business of the
liveness properties.

## Proofs

`DurableLogProofs` proves for any number of writers, events and bounds:

* `TypeCorrect`: `Spec => []TypeOK`;
* `InvariantHolds`, the inductive invariant `IInv`, and from it
  `NothingAcknowledgedIsLost`, `MemoryIsAlwaysStored`, `ConflictsAreReal`: the
  three safety invariants, for an adapter whose operations exclude each other
  (`Exclusive`: SQL, or any adapter under a host that serialises);
* `ImplementsFencedLog`: `Spec => RefinesFencedLog` under the same condition.

`Exclusive` is an assumption of these theorems because without it they are
false: that is the run `durable_log_file_shared`.

`AcknowledgedSurvives` alone is not inductive. Whether an acknowledgement is
true depends on what the operation read, so `IInv` says of each writer that an
operation in progress fits its session (`ModeOK`), that what a binding has
compared or stored is in the rows (`BindOK`), that rows read are still the rows
or the primary key will tell (`FenceOK`), that what is about to be acknowledged
is stored (`StoredOK`), and that a bound memory is a prefix of the rows
(`MemoryOK`); of all of them, that a serialising host lets one operate at a
time (`OneOperation`). The argument: rows change only by `Publish`,
`CommitUnknown` and `SaveHeader`, and under `IInv` and `Exclusive` each of them
leaves the old rows a prefix of the new (`PublishedIsAppended`, `RowsAreKept`);
every fact about the rows in `IInv` is about a prefix (`OthersAreKept`). The
refinement maps a writer's known rows to its memory, or to the position of its
backfill, and each step to one of `FencedLog` or a stutter (`FencedSteps`).
TLC checks `IInv` on the instance of the file adapter, and the safety invariants
and the refinement on that of SQL.

`AgentLoopProofs`, for any numbers of calls, turns, attempts, runs, outages and
crashes, with a provider that may reuse ids unless said otherwise: all eight
safety properties of `AgentLoop` that its runs check,

* `TypeCorrect`, `AwaitingHolds` (`AwaitingNeverExecutes`), `BoundedExecutions`
  (`ExecutionsBounded`), `DurableBeforeExecution` (`ExecutedIsDurable`),
  `ExactAccounts` (`LogAccountsForExecutions`), `TrueOutcomes` (`OutcomeIsTrue`),
  `WholeLogSeen` (`ProviderSeesWholeLog`);
* `StoredStaysIntact` (`StoredIntact`) and `SeldomWedged` (`NeverWedged`) under
  `UniqueIds`: with a provider that reuses ids they are false, which is the run
  `agent_loop_ids`.

None of them is inductive; `LoopInv` is, which TLC found true of the instance of
`agent_loop`, and of one with ids that recur, before it was proved.
Its parts: what a log built by the loop looks like (`SoundLog`: approvals are of
calls in it, calls are pending only after a step that asked for them, and with
unique ids every result follows its one call); the memory is a prefix of the
stored rows, all of them until a write fails (`StorageInv`); the calls in the
queue are pending, each once, and where the next step may execute one its
approval is not open (`QueueInv`); what was prepared is the log or shorter
(`PreparedInv`); executions against results, failures and crashes
(`ExecutionsInv`). `LatchedInv` is the part one finds by failing without it:
nothing in the second pass of `dispatchPendingTools` looks at the latch, so after
a failed write the batch runs on and its results are lost one by one; the bound
holds only because each call of that batch has its next execution covered by the
one failed write. `ResolvedInv` says whose result a resolved approval waits for,
`OutcomeInv` that an idle session with a true outcome has no latch.

The argument goes through what an append can do. `LegalEvent` and `LegalStep` are
the appends the loop makes, events about pending calls or none, and provider
steps on a log without pending calls; `EventSound` and `StepSound` say that they
keep a log sound, `EventEffects` and `StepEffects` what becomes pending, open or
counted by them, `AppendKeeps` that a storage that fails, refuses or stores
without saying so keeps memory and rows together. `Frame` then covers every step
that executes nothing, and there is one lemma per group of actions.
`IntactMeans`, `ReadyMeans` and `PairedIntact` read `analyzeToolReferences` and
`PrepareProviderCall` as statements about calls and their results.

`BashSessionProofs`, for any number of callers, commands and lines:

* `TypeCorrect`: `Spec => []TypeOK`, in which a done channel is closed at most
  once;
* `OneAtATime` and `NobodyLeftWaiting`: `OneCommandAtATime`, `AwaitedGetsDone`;
* `OutputIsComplete`: `CompletedHasAllItsOutput`.

The inductive invariant `BashInv`: every command started is the current one or
has been completed, once (`CompletedOnce`); whatever is waited for or printed
belongs to a command that was started (`OfStarted`); the shell holds the current
command, in its input or running, or nothing (`ShellHoldsCurrent`); and while it
holds it, no sentinel of it is in the pipes (`SentinelsComeLast`), which is why
the readers cannot complete a command the shell still has. Each of the three
ways in which `current` is cleared leaves the shell empty (`CurrentCompleted`).

`OutputInv` rests on it and counts lines. While a command's output can still be
whole, because it is the current one or its sentinels ended it, every line it
printed is in the part of the buffer that `snapshot` shows or still in the pipe
(`NoLineLost`). Its sentinel is the last thing in a pipe (`NothingFollows`), so
once a reader has taken it nothing of the command is left there
(`SentinelRead`), and when both have, nothing is left at all (`ReadToTheEnd`):
what is returned then, and not only what is shown at that moment, is all there
is (`ResultIsWhole`). `waitShell` cuts the pipes but gives the command another
exit code in the same step, which is why a cut output is never taken for a whole
one (`EndIsWhole`).

`StdioClientProofs`, for any number of callers, calls and lines in a pipe:
`TypeCorrect` and all six invariants of the run: `AnswersAreOwn`,
`SendsNeverBlock`, `PendingIsWaited`, `NobodyWaits`, `InitializedOnceHolds`,
`CloseEnds`. They are built one on the other. A load has one holder (`OneLoad`),
which gives `InitializedOnceHolds`. No more ids are drawn than calls and loads
were begun (`IdsAreCounted`, which also counts the callers about to draw one),
and no two callers have the same (`IdsAreOwn`); a line in
either pipe carries a number and the request of that number, or is of no number
(`LinesAreOwn`). So a pending id has its own
channel (`PendingIsOwn`), and it is still empty (`RoomForAll`): an entry is
removed in the step that takes it, so nobody sends twice. From these follow
`AnswersAreOwn` and `SendsNeverBlock`. `AnswersToCome` says where the answer of a
waiting caller is: in its channel, in the reader's hand, or still to come
through `pending`; a reader that has ended leaves the first case only. The last
one, `ClosedByWhom`, tells a client that `Close` closed from one the reader gave
up.

`HostProofs` proves of `Observation`, for any buses, trackers, threshold and
emissions, `AlarmsAreTrue`, from three facts: the copies an `Emit` still has to call are
those of subscribers (`OnTheBus`), a tracker counts each message once
(`CountsOnce`) and, left alone, all it is owed (`CountsWhatItIsOwed`); the
alarm follows (`OneAlarm`).

Of `ShellRegistry`, for any callers, ids and shells and buffers of any size, it
proves:

* `RegistryTypeCorrect`, with what the buffers hold: the end of what was
  printed, and a flag that tells whether that is all (`HoldsEnd`);
* `NoShellIsEverLost`: `ShellsAreReachable`, because whoever starts a shell or
  closes the registry holds the mutex, so that the id to be entered stays new
  and nothing is entered that `Close` has not ended (`NoShellIsLost`);
* `ResultsTellTheEnd`: `OutputIsTail`. Buffers only grow and flags only rise
  (`ShellsGrow`), so what was missing when the output was cut is still told when
  the flag is read (`ResultIsTail`).

Of `RateLimiter`, for any limit, any minute and any number of callers, it proves
`WindowBound`, from `LimiterInv` (`LimiterInvariant`). A window starts a minute
or more after the one before it, whatever late readings arrive in between; the
invariant places each admission in the current window, in the one before it, or
further back, by its distance from the last.

Of `Workspace`, for any number of sessions and contents, it proves
`NothingUnseenTruncated`, from an invariant that says what
a session's hash stands for: a hash it holds is of something it has seen, or was
recorded in a call that others disturbed (`HashIsSeen`); so is one it is about
to record (`RecordIsSeen`); and between a check and a truncation the file is
what was checked or the call was disturbed (`CheckHolds`).

`GuardsProofs`, for any set of manifests, lists of any length, limits, calls and
restarts: `GuardsTypeCorrect`, `RefusalsHold` (`RefusedNeverRuns`) and `TripsHold`
(`TripsAreEarned`).

`RefusalInv` follows a batch: a call that a strategy has judged in it is to be
refused, or the strategy has nothing against it (`MayRun`, `DecisionsInv`); the
second pass runs what is not refused, and the first holds only what is not
(`ToAsk`), so nothing held, approved or run was refused (`ResolvedInv`); only
open calls are asked for (`BatchInv`). `JudgedBy` says how far the pass has
come, and `FirstOpenIsFirst`, which needs that a set of naturals has a least
member (`LeastNatural`), that it leaves no open call out.

`CountersInv` relates each closure's counter to a set of calls in the log. Calls
are judged in the order of the log (`OrderInv`), so until one is judged twice
(`Rejudged`) the calls a strategy has passed are a prefix of it, less the one
under judgement (`Passed`); its strikes are at most the bad ones after the last
good one (`LastBad`, `StrikesInv`), what the repetition guard has seen at most the
calls alike (`SeenInv`), failures and rejections at most those in the log
(`ResultsInv`). A good call resets the strikes and the row alike. Where
`fail_turn` cuts the first pass short, the log has a call as judged that the
later handlers never see; `StrikesInv` lets go there, since the session has
ended. What a trip rests on is not lost again (`EarnedStays`): calls judged for
the first time come after those that were.

`DelegationProofs`, for any number of sessions, events and crashes:

* `SessionsAreSound`: the inductive invariant `DelegationTypeOK /\ DelegationInv`;
* `FilesArePortable`: `SavedIsPortable`;
* `TreesAlwaysResolve`: `TreesResolve`.

A session may be known twice, in memory and in its file, and the two may differ:
the file is older, or was cut off. `Known` says what either of them tells, its
header and its rows, and the invariant is about all that is known. Its rows are
dense, its parent is older than itself, a spawn it made is of a younger session
and a spawn it copied of an older one (`Sound`); whatever is known of the session
a spawn made, that session names this one as its parent, or is a stray
(`Linked`). The second is
why the first must bound the ids: nothing is known of a session before its id is
drawn. A step adds sound and linked rows or keeps a prefix of what was known, perhaps
with other payloads (`NewOrLonger`, `FromBefore`); then the invariant stays (`InvStays`), and there is
one lemma per action.

A link is therefore valid exactly when the child is to be had, the spawn was not
copied and the child is no stray (`LinkIsOwn`). `Below` goes down as many steps as there are sessions:
`BelowIsClosed` shows that this is enough where children are younger, and
`BelowWithin` that nothing else is met, so that a session never meets itself.
Both are inductions over the steps, by the least step at which they would fail
(`LeastNatural`).

`ProviderCallProofs` proves of `Compaction`, for logs of any length, any ids and
lists of strategies of any length and order:

* `CompactionStaysSound`: the inductive invariant `CompactionTypeOK /\ CompactionInv`;
* `MessagesShownOnce`: `EachMessageShownOnce`;
* `OnlyMarkerTailIsRefused`: `OnlyMarkerTailRefuses`;
* `RequestsPairCalls`: `RequestPairsCalls`.

The invariant says of the log that a call has one id, is answered at most once
and after it was made (`CallsSound`); that compacts replace messages before them,
no call without its result, and no message twice but for a call that one cut from
its huge result and a later one replaces with it (`SpansSound`, `Cut`); of lists
without `CutsBeforeCap`, that none is replaced twice at all (`SpansDisjoint`); and, of any list without `MarkerTail`, that a compact replaces a
call together with its result (`PairsWhole`). Whatever is appended, the replaced
messages stay replaced (`PlainCompacts`, `CallsKept`), and each strategy adds
compacts of messages no other replaces (`SafeRangeIs`, `OneCompact`, `CutCompacts`,
`CapCompacts`). The strategies cut only when no call is pending, and this is what
makes the ranges of `toolPairSafeRange` closed. `ToolOutputCap` is the hard one: it
replaces huge results with their calls one by one, and where it has let one go
because its call was replaced, the result must be replaced as well (`HugeWhole`,
which TLC found missing). That holds where a `ToolOutputCap` goes before each
`MarkerTail` (`CapsBeforeCuts`), since between two hooks of one turn nothing huge
is left in view once it has run (`CappedBefore`, `AllHugeReplaced`). `Selection` lists a set of positions in order, and `InOrderIs` and
`ItemsAtIs` say that it lists each once and nothing else; what the code gathers in
a loop is defined by it, so that no induction over the log is needed.

That requests pair their calls needs one more fact of the log: the calls of a step
follow its message, and each has its result before the next message of the
assistant (`CallsTogether`), since a provider is called only when none is pending.
What `PrepareProviderCall` let by and `SpokenOver` and `SummarisedOver` do not
except is then a list of items (`ProjectedPaired`) in which only calls, and then
only results, stand between a call and its result (`PairedItems`). Of such a list
any stretch of the assistant that holds all calls of a step is followed by as many
results, which are theirs (`StepAnswered`, by counting). The messages of each
provider are such stretches, whether neighbours of a role are merged or calls join
the message before them (`RoleStep`, `JoinStep`), and `PartsAre` says how the
messages share the items out.

Of `ProviderStream`, for any number of calls, chunks, attempts and restarts, and
for a server that sends any frames in any order, it proves all three of its
properties:

* `StreamStaysSound`: the inductive invariant `StreamTypeOK /\ StreamInv`;
* `ToldIsStaged`: `ObserversAgreeWithLog`;
* `StreamsAreLikeBuffered`: `StreamedLikeBuffered`;
* `OnlyGeminiIdsRecur`: `IdsRecurOnlyFromGemini`.

Between two frames nothing compares what was told with what will be staged; the
state machines only seem to agree at the end. `StreamInv` says why they do, of
the provider, its state and the notices so far. A tool has an id of its index,
so no two tools share one, and Gemini's are called in order (`ToolsSound`); a
tool block has a tool, and no block is open once the message has stopped
(`BlocksSound`); OpenAI's calls are whole once the finish reason is in, or the
stream has failed (`FinishSound`). Of the notices (`ToldSound`): every complete
call was begun, every tool that is ended so far (`EndedTools`: for Anthropic those
whose block is closed, for OpenAI all of them at the finish reason, for Gemini
each at once) has its end after its beginning, and there are as many ends as
ended tools, which an index that is reused would break: this is what `odd`
excepts. How the turn ended is told once and last (`EndingsSound`), and what is
staged is the message of the chunks told and a use of each tool (`StagedSound`).
`NumberedSound` places the ids of earlier steps: a Gemini stream was staged
before, or the ingestor has counted past them.

One lemma covers each kind of frame, first about any sound stream and what the
frame adds to it (`Listens`, `ToolBlockOpens`, `BlockCloses`, `CallContinues`,
`CallsEnd`, `WholeCallComes`, `FailsSound`), then about the handler
(`FrameSound`). OpenAI ends its calls in the order of a map: any order lists each
call once (`CalledInOrder`), and `CallsEnd` needs no more. The two paths are then
compared by what `closeProviderStep` makes of a step whose calls have ids of
their own (`Closing`) and of one with a call without (`Refusing`). For the streams
that fail, `WhySound` keeps what the reason of a failure says of the tools and the
finish reason, and `FailedIngested` and `UnnamedIngested` what the ingestor makes of
them.

Assumed are the named assumptions on the constants only, which TLC evaluates in
the runs.

Model-checked only: liveness (`RunsReturn`, `CallsReturn`, `CloseAndKillReturn`),
which is beyond the prover. Every other property of a passing run is stated by a
theorem.

## Not modelled, and why

* The bytes of canonical JSON (`Delegation` has which payloads it takes), the
  conformance runner, the command line, the parsing and
  validation of manifests, attachments, skills: conversions and drivers without
  state between calls, most with fixtures of their own. What a manifest leaves
  behind, the installed strategies, is in `Guards`.
* The MCP client over HTTP: a request per call and no state but the lazy load it
  shares with `StdioClient`.
* Content blocks and usage in projections and ingestors: pure conversions. The
  structure of a request, and of a step, is modelled.
* `runtime.go`, `snapshot.go`: copies of a session's state for a host.
* `DescendantTimeline` and the sums of usage over a tree; `DeltaLogger`, the
  collecting subscriber and `Reset` of the bus: they record what `Delegation` and
  `Observation` already tell.
* `Timed`, `Logged` and `Retried` middleware keep nothing; `Off` and `Reset` of
  hooks are not called while a `Run` is under way.
* The framing of shell commands, their environment, and ending a process on
  Windows.
* Files other than the one a guard watches; grep, glob and the other tools that
  only read.
* Nested runs of `spawn_agent` repeat the loop on the child's session, of which
  `Delegation` keeps the log.
* The multi-tenant example's advisory lock depends on PostgreSQL and its
  connection pool; its claim of a turn appears as `Serial`.

## Plan

Done: every module above, and eight modules of proofs. What is left:
`DurableLog`'s file adapter without `Exclusive`, for the weaker facts that survive
a competing rename.
