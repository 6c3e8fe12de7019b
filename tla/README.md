# Verification of the enclave agent

TLA+ models of the agentic assistant in this repository: an agent loop that
calls a language model and tools, the terminal interface and the enclave service
around it, the socket protocol between host and enclave, and the egress proxy.
The models are translated from the source; `PROJECT.json` says which lines each
definition stands for, which mutation of the code each property detects, and
which hazard of the code it is aimed at.

Paths below are relative to `src/`.

## 1. The system

### Components

| component | source | state | operations |
|---|---|---|---|
| agent step loop | `enclave/agent/controller.py` (`run_task`, `_run_step_loop`, `_dispatch_with_retry`), `enclave/tools/router.py` | step results, cost, hash parts, message list, event queue, child tasks of `gather` | call the model, run its tools side by side, retry them, check step and cost limits, time out, fail |
| conversation turn | `controller.py` (`run_conversation_turn`, `_compact_history`), `tui.py` | the shared message list, the session file | turn, compaction, interruption, `/save`, `/clear`, exit, restart |
| permission prompts | `controller.py` (`_check_permission`), `tui.py` (`_permission_callback`, event loop of a turn) | one slot for one future, the queue of requests | ask, prompt, answer, time out, switch the mode |
| enclave service | `enclave/main.py` | one controller with one event queue, a stream task per request | task request, events, result, status, reconfigure |
| task state database | `enclave/memory/state_db.py` | tables tasks, steps, cost_log; one connection, one transaction | create, complete, record step, commit |
| provider configuration | `tui.py`, `enclave/main.py`, `create_llm_client` | configuration, environment, client, preferences file | start, `/model`, reconfigure, save, exit |
| framed protocol | `enclave/vsock/` | byte streams, reader buffers, timers | send, stream, read, dispatch, stop |
| egress proxy | `proxy/main.go` | key ring, a goroutine per connection, listener | accept, read, rotate key, forward, write, shut down |
| process tools | `enclave/tools/bash_tool.py`, `code_executor.py`, `git_tool.py` | processes, three layers of timers | start, wait, give up, retry |
| model clients | `enclave/agent/llm_client.py`, `planner.py` | attempt, backoff; the message list they are handed | convert the messages, ask, wait, retry, recover, give up, read the answer |
| file tools | `edit_file.py`, `multi_edit_tool.py`, `write_file.py`, `read_file.py`, `file_ops.py` | the user's files | read, edit, write, delete |
| memory | `memory_tool.py`, `memory/manager.py` | a bounded list of entries | add, evict, search |
| keys, sealing, attestation | `enclave/crypto/`, `host/attestation/verifier.py` | a master secret | derive, seal, sign, verify |
| host API | `host/api/main.py` | a dictionary of queued tasks | submit, look up |

### How they interact

The terminal interface embeds the service and shares its configuration object,
its controller and its event loop. Everything in one process runs on one asyncio
loop, so that what interleaves is what lies between two awaits. The controller
puts events on an unbounded queue that the interface or a stream task of the
service empties; permission requests go the same way, and their answers come back
through a future in a slot of the interface. A host reaches the service over framed
connections, each with a handler task of its own; handlers share the controller,
its one event queue and the one database connection. Model requests leave through
the proxy, whose goroutines share a key ring under a mutex. The message list of a
conversation is handed whole to a client at every step, and the client can be
exchanged between turns. The tools of a response share the user's files with each
other and with every other process. Three files of its own outlive a process: the
session, the preferences and the database.

### What is hard

* Tool calls of a response run at once, each with retries and timers, and the
  accounts of the task (steps, cost, events, hash parts, messages) have to come out
  as if they had run in order (`AgentLoop`).
* A deadline or an exception may strike at any await; what has begun must not be
  half recorded, and something must be reported exactly once (`AgentLoop`).
* A history is shared between turns, cut by compaction, torn by interruptions,
  and rebuilt from a file (`Conversation`).
* Several calls ask one user through one slot (`Permission`).
* Handlers share a queue and a transaction; the enclave may crash between two
  commits (`EnclaveService`).
* One choice of model and key lives in four places, of which each can be stale or
  lost (`Providers`).
* Timers on both ends of a connection, and in three layers above a process, race
  with what they wait for (`Framing`, `ToolProcesses`).
* Goroutines share a ring (`Proxy`), and a retry loop must not turn a failure into
  an answer (`LLMRetry`).
* Six clients tell one conversation in four formats, each reading back what the
  others said, in histories that are compacted and torn (`LLMClients`).
* Edits of one file run side by side, are repeated when they fail, and write in
  place (`FileTools`).

`PROJECT.json` lists the hazards line by line.

## 2. The modules

One module per component. Each declares its parameters as CONSTANTS with a named
assumption, has one action per operation or handler step, and ends with its
properties. An operator standing directly before the definition it resembles and
used nowhere (for example `IgnoreBudget` before `Guard`) is a wrong variant of it,
kept to show that the properties can tell the two apart.

### TaskLifecycle and AgentLoop

`TaskLifecycle` is what `run_task` promises its caller: paid responses under two
limits, one end, a truthful outcome. `AgentLoop` is the loop itself. `phase` is
where it is suspended: in the model call ("llm") or in `gather` ("tools").
`calls` holds one record per tool call, with its argument check, its attempts and
its place in `_dispatch_with_retry`; `StartAttempt` and `EndAttempt` are the two
sides of an await in `dispatch`. `Collect` is everything after `gather` up to the
next await, the guards of the next step included. `ToolsRaised` is the hole in
`dispatch` (validation outside of its `try`), which lets siblings survive. `CallsUnread` is the way out before `gather`: `.keys()` on
arguments that are valid JSON but no object raises, when the assistant message and the
events of the calls before are out and no call is made. A step of `Timeout` cancels the
children as `gather` does. `AgentLoop` implements
`TaskLifecycle` under the mapping `used <- Used` (the responses that were
recorded).

### Conversation

`history` is the list that the interface and `run_conversation_turn` share. A
message has a kind, the number of the turn or response it belongs to, and a size.
`NextStep` is the top of the loop: limits, then the context guard with
`Compact`, which is `_compact_history` together with the way its caller copies the
result back. `saved` is the session file, with the messages `_save_session` keeps.
What happens inside `gather` is left to `AgentLoop`.

### Permission

The state of each tool call, the single `slot`, what each future was resolved with,
the queue of requests, and the interface, which holds the loop while it prompts.
Calls left over from a turn that an argument check ended may still wait in the next.
`alone` is a history variable: it is true until two calls wait for a permission at
the same time.

### TaskRecords and EnclaveService

The handler of each request step by step (`pc`), with the controller's one queue
(`owner`), the stream tasks, what is written to each connection, the rows as the
shared connection sees them (`db`) and as they are committed (`disk`). A commit
commits what every handler has written. `Crash` loses what is not on disk.
`run_task` is reduced to the events it emits and the steps it returns; `AgentLoop`
has the rest. `TaskRecords` is what a host relies on: an id is run once, what is on
record of it only goes on, and a result is given for what is on record in full. One
write of it may carry several tasks on, as a commit of the shared connection does, and a
crash is no step of it. `EnclaveService` implements it under the mapping
`record <- disk`.

### Providers

A key is a record that says whose key it is. `config`, `env`, `client` and `saved`
are the four places that hold a choice; `request` is the reconfigure request under
way. `HostReconfigures` is the same handler reached by another host, with unknown
providers. `HandleReply` reports the switch and saves it; `SaveFails` is a save that
raises, before or after it has emptied the file, which is only a warning; `ExitInSave` is
an exit in between; `Load` is either way of reading the file, since one that cannot be read
counts as none. `confirmed` is a history variable, the last choice that was reported and
saved, and so is `fault`, what went wrong with the file in the last step. Base URLs and
the context window are left out, and so are two interfaces that share the file.

### Framing

One connection, from both ends. Frames are two cells, header and payload, that
travel one by one, so that the server's timer can strike between them. Time is left
out: a timer may end any wait that is not over.

### Proxy

The goroutine of each connection, the key ring with its mutex (taking a key and
advancing are two steps), and `main` with its signal goroutine. `deaf` are the clients
that have stopped to read (`StopReading`, `ReadAgain`): `conn.Write` has no deadline, so
that nothing makes `WriteFrame` happen for them.

### ToolProcesses

One call of a process tool: attempts, commands of an attempt (a git commit has two),
the timer of the tool, the timer of the router, cancellation, and every process
that was ever started. Time is in ticks, since the property is about how long.

### LLMRetry and LLMClients

`LLMRetry` is one completion: the attempts of a client over classes of responses. Only
OpenRouter and Groq ask again; the others have no retries of their own
(`MaxRetries`). `LLMClients` extends it by what goes in and what comes out. A turn of
`run_conversation_turn` opens with words of the user; every step hands the history to
the client in use, whose conversion (`ToAnthropic`, `ToOpenAI` for four of them,
`ToGemini`) makes `payload`; `Attempt` are the steps of `LLMRetry`; the answer is one of
`Raws` and comes back through the reader of the client (`AnthropicBlocks` and the five
others). An answer has its thinking before its words and its words before its calls; the
client of Anthropic keeps whatever order it is given. The arguments of a call are known by what `json.loads` makes of them, and ids
are numbers, so that ids that are missing, null, drawn and repeated can be told apart.
Gemini is given no ids but the names of the tools, which `NameOf` looks up as the client
does; a history in which this can succeed for every result is `Traceable`.
`CanSay` limits what the API of each provider says; it is external. Compaction and the
ways a turn ends are those of `Conversation`, with less detail.

### FileTools

The calls of one response on one file. `Begin` is all of a tool up to its write: the
check, the read, and what the file is to become (`Change`). The file is read and written
in text mode: `ReadText` makes a `\n` of every end of a line, and `WriteText` makes
`LineSep`, the system's, of every `\n`. `Open`, `Fill` and `Unlink` are the steps of the
file system, between which an exit or a failure may come (`CannotOpen`, `CannotFill`,
`Exit`); `NothingToUnlink` is a deletion that finds the file gone. Siblings run only when
the loop is free, since no tool awaits (`LoopFree`). A failure is repeated as `_dispatch_with_retry` does
(`Return`). `Outside` is any other process. A text is a sequence of letters and ends of
lines, and `CountsOne` is what `str.count(old) == 1` says of it. `log` is a history variable: every
change of the file, with the text it was computed from and whether it was whole.
`edit_file` and its kin belong to the coding registry, `file_ops` to the plain one
(`main.py:163` and `189`), so that calls of the two are never side by side.

## 3. The runs

| run | shows | bounds, and why they are enough |
|---|---|---|
| `agent_loop` | six invariants and an action property, the refinement of `TaskLifecycle`, and termination | 1-2 calls per response, of known and unknown tools with good, bad and raising arguments and with arguments that are no object; up to 2 retries, so that a call can fail, sleep and fail again while its sibling is anywhere; step limits -1, 0 (the default, 2) and 1, budgets 0 (the default, 3) and 1, costs 1 and 2, so that each guard fires first somewhere and a response can overshoot |
| `conversation` | newest message kept, history bounded, results answer their calls, opening kept | the code's own MIN_RECENT_MESSAGES (6) and threshold (70 %) with a window of 12 tokens and messages of one or two: histories of 7, 8 and more messages are compacted, at every position relative to calls and results; 3 turns of up to 2 steps, one restart |
| `permission` | the slot, the answers, and that every call is let go | two calls per response, three responses over up to three turns: enough for a call left behind, one asking now, and a third response after both |
| `service` | frame order, durability, step and cost rows, the refinement of `TaskRecords` | two requests with equal or different ids, 2 events and 2 step rows each, one crash; symmetric in requests and ids |
| `providers` | keys, restarts, the preferences file | two providers with keys and one without, one unknown, 2 models, 2 keys each of which the shell exports one; reads and writes of the file may fail and be cut off at any time; symmetric in the two providers with keys |
| `framing` | answers, ends of calls and of connections | a request of each kind, up to 2 events before the answer, slow payloads and oversize answers |
| `proxy` | rotation, answers, shutdown | 2 connections with 2 pipelined requests and 2 keys: both goroutines contend for the ring and wrap it; each client may stop reading and go on at any time |
| `tool_processes` | success is last, overlap, time, end | limits below, equal to and above the router's; 3 attempts |
| `llm_clients` | the whole conversation reaches every provider, calls and results belong together, no answer is made of a failure | 2 turns of 2 steps, each with any of the six clients: every client is told what every other said; answers with words, thinking, one or two calls, every form of arguments and of ids; compaction as soon as 2 messages are older than the recent 2; 1 retry of OpenRouter and 2 of Groq, which are enough for a first, a middle and a last attempt |
| `file_tools` | no lost update, truthful reports, edits in one place, whole reads | two calls with up to 3 attempts each, one change by another process, one failure; edits of a letter, of a pair that can overlap itself, of an end of a line, of the empty text, lists of edits that depend on one another; texts of up to four characters with ends of lines of every kind, no file, a directory; a system that ends lines with `\r\n`, the one where reading and writing both change them; symmetric in the calls |
| `conversation_empty`, `permission_two` | one disagreement each between the code and what it says (section 6) | the smallest instance that reaches it |

Deadlock is checked but in `tool_processes`, `llm_clients` and `file_tools`, where the
calls or the turns are over and nothing is left to happen.

### Fairness

* `AgentLoop`: the loop and its tools are scheduled, the model client answers or
  raises (its requests have timeouts), and a tool's attempt ends (the router's
  `wait_for`). Nothing is assumed of the deadline, so `Termination` rests on the
  limits alone.
* `Permission`: the user answers an open prompt, which the code waits for without
  a timer, and timers fire once the loop is free. No fairness for tools or turns.
* `Framing`: both ends are scheduled, their timers run, the network delivers.
  A handler need not return; `ConnectionEnds` says so.
* `Proxy`: goroutines are scheduled, the target answers or its 120 s timer ends
  the request, the mutex starves nobody (strong fairness of taking it: Go hands a
  mutex to a waiter after 1 ms). A write goes on whenever its client reads, since a frame
  has an end (strong fairness of writing to a client that is not deaf). Nothing makes a
  client dial, send, read or close, or a signal come; `Answered` therefore speaks of the
  clients that read again and again, next to others that may never do.
* `ToolProcesses`: the loop and its timers run and time passes, as far as the next timer
  that is due. A process need never end.
* The other modules have safety properties only.

## 4. The proofs

`AgentLoopProofs` proves, for all tools, limits, costs, retries and response
sizes that satisfy `AgentAssumption`:

* `TypeCorrect`, `TerminalEventTheorem`, `BudgetTheorem`, `StepsTheorem`,
  `LimitsTheorem`, `RetriesTheorem`, `NoStrayCallsTheorem`: the invariants of the same
  content;
* `HistoryPairedTheorem`: each assistant message is followed by its results, in block
  order. `PairsInv` adds what holds between two calls of the model: while tools run, the
  last message announces exactly the calls that are running;
* `CostTheorem`: the cost is the sum over the steps. `CostInv` carries the running totals
  of the list, which a step extends; that a list has only one list of totals, the one
  the property computes by recursion, follows from the least place where two differ;
* `AccountsTheorem`: the events, the steps and the parts under the hash tell of the same
  calls. Calls that are announced and not recorded are those of the response whose
  tools run, or those before a call whose arguments were no object (`AccountsInv`), and
  they open the last message (`AnnouncedInv`). The members of a list that are in a set are taken by a
  recursive function (`Chosen`), and what it makes of a list that goes on
  (`AllMoreChosen`, `NothingMoreChosen`) is proved for any list and set;
* `ResultFinalTheorem`: after the end nothing changes but the surviving calls;
* `Refinement`: the loop implements `TaskLifecycle`.

They rest on one inductive invariant, `LoopInv`. The properties are not inductive:
that a terminal event is the last one, for example, needs that there is none while
the task runs; the budget needs that `reply`, the cost of the response
whose tools are running, is one of `Costs` and zero outside of the "tools" phase; and
that a call is a survivor only of a raised sibling needs the call states each phase
admits. `LoopInv` has these parts by name. Each action has a step of its own, and the
refinement theorem uses the invariant to see that a step that is not one of
`TaskLifecycle` leaves `Used` alone.

`NetworkProofs` has the four modules on the way of a request. Of `LLMRetry` it proves,
for any number of retries, any cap and any headers, that no answer is made of a failure,
that a passing failure ends a call only after all attempts, and that Groq never waits
longer than its cap, from `RetryInv`: on the last attempt every failing path raises, and
the backoff of Groq never exceeds its cap.

Of `Proxy` it proves `KeysInTurn` for any number of connections, keys and requests.
`ProxyInv` says that the goroutine between taking a key and moving the index, and no
other, holds the mutex (`Locked`); that a connection that was not yet accepted has no
goroutine (`Waiting`), and a busy goroutine has read a request (`Numbered`); and that the
index is the number of keys passed, modulo the length of the ring (`RingCounts`). The arithmetic of remainders it needs (`RestIsRemainder`,
`NextRemainder`) is proved from the definition of `%`.

Of `Framing` it proves `AnswerIsMine` for any number of events, stalls and oversize
responses. Seen from either end, what is in the buffers, on the wire and in the mail of
the sender is one sequence of cells (`Coming` and `Going`): the request as far as it is
not read (`RequestInv`), and the frames of the events the client has not read, with the
response behind them once there is one (`ResponseInv`, `Streams`). `EndInv` ties how a call
ends to the connection: a client that got its response, or failed, and a response that was
too big. That a timer of the server takes a header from this sequence and leaves the payload
is why `Coming` has to admit a payload without its header.

Of `LLMClients` it proves `NothingLost` and `CallsAnswered` for any answers of the models
(any texts, names and lists of calls, ids missing or null), any number of steps and turns,
and any number of recent messages. `ClientInv` says that the request under way was made from
the history as it is (`RequestMade`); of which messages a history is made (`Worded`,
`Replied`, `Gathered`) and what stands behind what in it (`InOrder`): behind calls their
results or words, results behind their calls or behind a summary alone; that a model is
asked only when the last message is not its own (`UserIsLast`); and that tools run only for
a last message with calls (`ToolsCalled`). That a compaction keeps this (`CompactedKeeps`)
is where it matters that the summary is put before the recent messages as words of the user.

What a request tells is then computed from the messages. Every conversion and every reading
joins what it makes of the members of a list, and such a map goes through a join
(`JoinedConcat`, `JoinedFlatten`); so each provider is told a `Piece` of each message, in
order (`ReadByAll`), and without the keys the pieces are the same for all (`ToldByAll`):
that is `NothingLost`. For `CallsAnswered` the items of the pieces get their places in
what is told (`PlacesExist`), and a piece whose calls are followed by a piece of their
results, or of words, is paired (`AnsweringIsPaired`). For Gemini the keys agree only where
`NameOf` finds the name of each call, which it does in a traceable history (`NameFound`).
`FlattenSeq` goes through its list from the left; what it returns is proved from its
definition, by the least counterexample (`FlattenIsLast`). That no answer is made of a
failure holds in the turns as it does in one call (`TurnAnswersTheorem`).

`EnclaveServiceProofs` proves the three invariants of the run, `RunOnceAndOnRecord` and
the refinement of `TaskRecords` for any
requests, task ids, step results and crashes, however many requests are handled at the
same time. `StoreInv` says what the proof has to carry: the row of a task is the one
its handler left at its place, whatever the others wrote and committed through the
shared connection, because no two handlers hold the same task (`RowsHeld`); what is
committed is in the table, and where a handler has just committed, table and disk agree
on its row (`RowsCommitted`); and a task whose row is not committed never ran
(`RunsCounted`).
`CostsInv` adds the states in which the row of a handler is uneven (`Recording`), that a
row nobody holds is the same on disk as in the table (`Orphans`), and that an uneven row
on disk has another handler to blame (`OnDisk`): the handler's own commit comes only
after both inserts. `FramesInv` is about the connections: no event carries a number its
task has not reached (`Numbered`), nothing is on a connection before its task starts
(`Begun`), while a connection streams its queue goes on where the connection is
(`Flows`), and until its handler is done it carries events alone (`Open`). `Flows` has to
speak of the events of every task, since any task feeds the queue of the last to start.
The refinement needs that what is on disk is behind what is in the tables, for every
task (`Behind`), and that what is completed was run (`RanBefore`): then a commit of any
handler is a step of `TaskRecords`, and every other step but the answer is none.

`PermissionProofs` proves `SlotIsWaiting` and `AnswersReachTheirCall` for any number of
calls and turns. The first is inductive once the slot is known to hold a call or nothing.
That the last of the calls that ask is one of them (`LastIsOneOfThem`) is where the
calls have to be finitely many: the least distance from the last call exists because
the order on the naturals is well-founded. For the second, `AloneInv` says that as long as
no two calls ask at once the one that asks has the slot (`AskerHasSlot`); that a request
in the queue of a listening interface is its request, or is left behind by a deadline,
and then nobody asks before the next turn empties the queue (`QueueInv`); and that what a
future was resolved with is what was said for its call (`SaidInv`). That the requests of a
response can be listed in the order of the blocks at all (`CanBeListed`) goes by a least
set that could not.

`ProvidersProofs` proves `KeysGoToTheirProvider`, `RestartKeepsChoice` and
`SavedKeysStay` for any providers, models and keys. `ChoiceInv` says that every place a key
can be in (session, exports, file, request, client of the enclave) holds keys of the
provider it is filed under (`KeysOwn`), that a request on its way carries the key its
provider needs (`RequestComplete`), and that a confirmed choice is on file
(`ChoiceOnFile`): a save that fails leaves the file of the choice before, or tears it, and
then nothing is confirmed.

`FileToolsProofs` proves the four properties of `FileTools` for any number of calls,
any texts and edits, any number of retries, failures and outside changes. `FileInv` says
who holds the loop and in which state (`LoopHeld`), that what a call is about to write is
its change of the file it read (`ChangeReady`), that the file is what the log says
(`DiskLogged`) with nothing but other processes behind what such a call has read
(`BaseLogged`), and that each whole entry of the log is the change its request makes of its
base (`WholeIsChange`). `LineEndsTheorem` says where text mode changes nothing: a text without
`\r` is read as it is, and on a system that ends lines with `\n` every text is written as it
is, so that there an edit changes its one place alone. `FlattenSteps` takes the joins of
`ReadText` and `WriteText` apart. Edits are applied
by a recursive function, and that such a function exists is itself to be proved: were it
not defined somewhere, there would be a least such place, which the step before defines
(`WFMin` on the naturals). This argument by the least counterexample stands in for
induction, whose theorems take an operator, throughout.

`ToolProcessesProofs` proves the three safety properties of `ToolProcesses` for any
limits and any number of retries and processes. `ProcInv` ties the attempt to the
processes that were started (`AttemptsCount`), says that only the last process can be
awaited and what became of each earlier one (`Awaited`), and bounds the elapsed time by
the attempts that are over, each of which had at most its slot (`Time`).

`ConversationProofs` proves the four properties of `Conversation` for histories of any
length, any sizes, windows and limits. Most of it is `ConvInv`: what a well-formed list
is (an opening, results behind their calls or behind a summary, each once), where a
turn has to be for the list to end in calls (`AtTools`), and the same of what the
session file holds. Sizes and the messages that are saved are computed by recursive
functions; `WalkExists` shows once that such a function is defined on the whole list,
and what a step of it is.

Each proof rests on the assumption of its module alone (`AgentAssumption`,
`ConversationAssumption`, `PermissionAssumption`, `ServiceAssumption`,
`ProvidersAssumption`, `LLMRetryAssumption`, `FileToolsAssumption`,
`ToolProcessesAssumption`, `ProxyAssumption`, `FramingAssumption`,
`LLMClientsAssumption`).

Every safety property of the runs is proved. Only model-checked is liveness
(`Termination`, `AskingEnds`, `Answered`, `ShutdownEnds`, both `CallEnds`,
`ConnectionEnds`), which the prover cannot do under fairness.

## 5. Not modelled

* Memory: the memory tool is a bounded list that a call reads or appends to without an
  await; the memory manager with its embeddings is constructed (`enclave/main.py:113`)
  and never called.
* Keys, sealing and signing: calls into libraries without a protocol of their own; the
  sealed store is constructed (`enclave/main.py:106`) and never used. That the receipt
  covers every step is in `AgentLoop` (`hashParts`).
* The attestation verifier: a pure function of a document and the expected
  measurements, which only its tests call.
* The host API gateway queues tasks that nothing takes; search, listing, browser and API
  tools, `list` and `exists` of `file_ops`, prompts and rendering: no state that
  outlives a call.
* `delete` of something that is neither a file nor a directory (a pipe, a device), which
  does nothing and reports success like that of a file that is gone.
* Of what is modelled: which file a path resolves to, the schemas of tools, token counts,
  streamed chunks and the mock client, base URLs, headers and TLS.
* Contents: texts, arguments and outputs beyond the sizes, costs, forms and letters that
  guards and properties tell apart.

## 6. Disagreements between the code and what it says

Checked by a run of their own:

* A compaction that finds no middle empties the history: the list is cleared before
  it is copied onto itself (`CompactionKeepsTheRequest`, `controller.py:730`).
* Two permissions asked at once exchange their answers, so that a call the user denied
  runs (`DeniedNeverRuns`, `tui.py:200`).

Visible in the models, and allowed for in their properties:

* Compaction may keep results whose calls it summarised, and an interrupted turn
  leaves calls that never get results; both are sent to the model
  (`CallsThenResults` says where). What is left may still exceed the window
  (`CallBounded`), although the checkpoint event says that it fits.
* A second task request takes over the event queue of the first (`enable_streaming`
  replaces the one queue, `main.py:246`), so that a client gets the events of another
  task; `client.py:106` takes the request id for correlation, but no event is refused
  for it.
* `/save` and exit drop the assistant's answers, whose content is a list
  (`Persisted`).
* The last event of a task stays in the queue of its stream (`EndTask`): no client
  is ever sent "complete" or "error" as an event.
* After a crash while steps are recorded the task is completed with a total that
  `cost_log` does not have; and one handler's commit can commit half of another's
  step (`CostsFollowSteps`).
* A save of the preferences that fails is a warning behind the report of the switch: the
  choice is in use and not on file, and the next start brings back the one before
  (`SaveFails`, `tui.py:244`). A save that fails after it has emptied the file, or an exit
  there, loses the preferences of all providers; a file that cannot be read counts as
  none, so that the next save drops the keys of the other providers (`Load`,
  `SavedKeysStay`). A failed reconfigure request leaves a provider in the
  configuration, and so in the status, that no client exists for (`Reconfigured`). A new
  key for the model in use is not used (`KeepModel`), and a request without a key does
  not fall back to the stored one (`NewClient`).
* After a switch of the provider the history is compacted for the window of the
  provider of the start (`main.py:408`), and after `/model` the system prompt has
  lost ENCLAVE.md (`tui.py:495`); neither is modelled.
* The server's read timer loses a header whose payload is slow, and a response over
  the maximum size ends the connection in place of an error frame (`TimerEnds`,
  `Respond`).
* A client of the proxy that keeps its connection and does not read blocks its goroutine
  for ever, since `conn.Write` has no deadline (`WriteFrame`, `proxy/main.go:155`); the
  other connections go on (`Answered`).
* The proxy's "graceful shutdown" ends requests that are being forwarded
  (`AcceptFails`).
* No layer ends the process of a command it gave up (`Abandon`), the router's 60
  seconds come before the 120 to 300 that bash promises (`RouterTimesOut`), and of a
  command that fails the model never sees stdout (`bash_tool.py:100`, not modelled).
* `edit_file` promises exactly one location (`edit_file.py:30`) and counts the
  occurrences that do not overlap: of "aa" there is one in "aaa" (`CountsOne`).
* An edit rewrites the end of every line of the file to that of the system, since it reads
  and writes in text mode (`ReadText`, `WriteText`, `edit_file.py:77` and `122`).
* `delete` of a file that somebody removes after `exists()` reports a deletion it did not
  make (`NothingToUnlink`, `file_ops.py:171`).
* A write truncates and then writes, so that a failure in between, a lone surrogate in
  the new text included, leaves a torn file; the retry reports that its text was not
  found (`CannotFill`, `Return`). What another process writes between read and write of a
  tool is lost (`Outside`).
* Arguments that are valid JSON but no object raise after the calls have joined the
  history (`controller.py:816`), which leaves calls without results; `tool_calls: null`
  raises in the reader of OpenRouter (`llm_client.py:844`) (`Join`, `AnswerRaises`). The
  loop of a task raises for the same arguments (`controller.py:583`), when the calls before
  them are announced and none is made (`CallsUnread`).
  Arguments that cannot be parsed become `{}`.
* An answer without choices or words counts as complete, and so does one that was cut at
  `max_tokens`, since no reader looks at the reason for the stop (`Answer`).
* Results are named for Gemini after the first call with their id; ids that are null,
  repeated or compacted away give the wrong name, or "unknown_tool" (`ToGemini`).
* What Groq recovers from a failed generation has no token counts, so that it costs
  nothing (`llm_client.py:1055`).

## 7. Plan

Done, in this order, the most important first: the step loop with its abstract
specification and proofs; conversation and permission, which act on every turn; the
service with its database; providers; framing; proxy; process tools; model clients;
file tools; and the proofs of section 4.

Next:

1. The context window in `Providers`, taken once at the start (`main.py:408`), against
   the window of the client in use.
2. The memory tool as a list with eviction, against a reference definition.
