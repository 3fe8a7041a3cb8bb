# A verification project for Claudey

Claudey is a local proxy for coding agents. It accepts Anthropic and OpenAI
Responses requests, sends them to one of many upstream providers, converts the
streams back, and drives a managed Claude CLI from a chat platform. It is an
asyncio program: its hard parts are what happens *between* two awaits of
several tasks, and what a cancellation leaves behind.

This directory holds TLA+ models of the program, the TLC configurations that
check them, and TLAPS proofs. `PROJECT.json` names, for every definition, the
lines of `src/` it models; every hazard of the code with the properties that are
about it; and for every property a mutation of the model that breaks it.

## 1. Inventory

Paths are below `src/src/claudey/`.

| component | state it keeps | operations | what makes it hard | what makes it correct |
|---|---|---|---|---|
| **Provider admission** `providers/admission.py` | recovery episode (leader, ready time, probe, waiters, terminal time), auth latch, bulkhead, budget of each execution | gate, open, succeed, fail, reject, correct, abandon, close | permits go stale over two waits; results of old attempts; cancellation of a leader | one probe; only it ends a recovery; slots come back; budgets hold; nobody waits for a leader that is gone |
| **Provider generations** `runtime/provider_manager.py` | current and retired generations, leases, cleanup tasks, unpublished candidates, refresh task | acquire, release, replace, refresh, connect, close | cleanup against use; failing or cancelled cleanup; shutdown called twice | no use of a closed runtime; none lost; none closed twice |
| **Listed models** `providers/runtime`, `runtime/codex_catalog.py` | model cache, discovery task, catalog file | discover, test, publish, list | lists asked for under other settings or another session come back late | nothing is listed that may not be used now; the file says what the process lists |
| **Conversation trees** `messaging/trees` | graph, FIFO queue, active claim per tree; one task per claim | admit, claim, record, complete, fail, finish, cancel, remove a subtree, snapshot, restore | finishers against cancels; a task cancelled before it starts; drains that time out | one turn at a time; nothing queued is stranded; what was stopped stays stopped |
| **Workflow, intake, runner** `messaging/workflow.py`, `turn_intake.py`, `node_runner.py`, `commands.py` | stop and clear generations, state lock, tracked messages, startup notice | handle a message, stop, clear, restore, close | an admission crossed by a stop; messages that arrive while the chat is cleared | stop is a boundary; the store follows the trees; a cleared chat is empty |
| **Session store** `messaging/session` | snapshot, dirty flag, timer generation | schedule, flush, clear, write | a timer thread beside the loop; a crash in the debounce | the newest snapshot reaches the file, and stays |
| **Delivery** `messaging/limiter.py`, `platforms/outbox.py` | compacting queue, futures, pause | enqueue, work, retry, shutdown | compaction against the worker; shutdown in a pause | every caller is answered; the newest edit comes last |
| **Transcript** `messaging/transcript`, `event_parser.py` | segments, open blocks, stack of open Tasks | events of a CLI, render | which agent speaks is not in the events; truncation | the main agent's words are shown, a subagent's are not |
| **Voice hand-off** `messaging/voice.py`, `platforms/voice_flow.py` | pending notes, claims | reserve, post, bind, transcribe, hand off, take over | hand-off against stop and clear; a spoken /stop must not wait for itself | exactly one owner |
| **Managed CLI** `cli/managed`, `cli/process_registry.py` | pending and real session ids, closing set, process | get, register, remove, stop all | sessions that fail to stop; ids registered while closing | a session is owned until its exit is confirmed; a stop is final |
| **Application runtime, supervisor** `runtime/application.py`, `cli/commands.py`, `cli/desktop.py` | owners of everything above, restart generation | start, close, restart, stop | ordered shutdown that stops half-way and is retried; requests between two looks | nothing is closed before what uses it; no restart is overlooked |
| **API handlers, responses** `api/response_streams.py`, `api/handlers` | prefetched chunk, cleanup task, bound lease | respond, send, disconnect, close | disconnect, failed send and close at once | one terminal frame, one release |
| **Failover, routing, health** `application/failover.py`, `health.py`, `routing.py` | marks, lockouts, last good node, usage log | resolve, order, choose, record | a failure after content; nodes that become unusable | no failover after content; one answer, one bill |
| **OpenAI-compatible streaming** `providers/openai_chat`, `providers/stream_recovery.py`, `core/anthropic/streaming` | held-back events, ledger, tool buffers | stream, retry, continue, repair | what was already sent | nothing is said twice or left unsaid |
| **Text and tool parsers** `core/anthropic/thinking.py`, `tools.py`, `providers/nvidia_nim/native_tool_stream.py` | mode, held-back tail | feed, flush | tags and markers cut by chunks anywhere | the cuts do not matter |
| **Responses translation** `core/openai_responses/provider_stream.py`, `streaming/assembler.py` | items, blocks, calls | events both ways, retry, finish | items overlap, end twice or never | blocks are opened and closed once, in order |
| **Request conversion, tool names** `core/anthropic/conversion.py`, `core/openai_responses/{input,provider_input,tools}.py`, `core/anthropic/openai_tool_names.py` | ledger of pending calls; aliases | convert a history; encode, decode | text after calls, late results; digests that collide, names in fragments | a history is replayed whole; names come back |
| **Codex account** `providers/openai_codex` | credentials, file lock, revision; listener and attempt of a sign-in | access, refresh, recover, sign in, sign out, close, poll | several processes on one file; threads that outlive their tasks; answers to old attempts | no refresh loses another's session; a sign-in is decided by its own tab |
| **Configuration** `config/settings.py`, `config/admin`, `config/env_files.py` | dotenv files, the managed file, the snapshot in use | load, apply, restart | precedence of sources; hot apply and restarts due | what is saved is in use or said to be due |
| **Registries** `config/combos.py`, `config/custom_providers.py`, `core/secret_crypto.py` | lists and their files, sealed keys | create, update, delete, load | a failing write after the memory was changed; corrupt or foreign files | what was saved is kept |
| **Rate limiter** `core/rate_limit.py` | admission times | acquire, acquire_if | sleepers that wake together | at most N in any window |
| **Failure policy** `providers/failure_policy.py`, `core/failures.py` | - | classify, retry?, latch?, fail over? | four readers of different parts of one exception | they agree |
| Rendering for platforms, CLI launchers, Admin pages, other adapters | - | translation, files, processes | sequential | - |

Interactions. A request takes a *lease* of the current generation, resolves a
name to a chain of nodes and makes *attempts* through the admission controller
of each node's provider; the response owns the lease until its body is closed. A
chat message goes through intake and workflow into a tree; the tree's task runs a
managed CLI, which calls the proxy as any client does; what the CLI prints becomes
a transcript, which delivery edits into a status message. Admin apply replaces
the generation; a restart or a stop closes messaging, then the providers.

## 2. Modules

| module | models | checked by | proofs in |
|---|---|---|---|
| `ProviderAdmission` | the controller and its callers | `MCProviderAdmission` | `ProviderAdmissionProofs` |
| `RecoveryBreaker` | abstract: a circuit breaker with one prober | refined by `ProviderAdmission` | `ProviderAdmissionProofs` |
| `ProviderGenerations` | the provider runtime manager and its callers | `MCLifetimes` | `LifetimesProofs` |
| `RuntimeLifecycle` | abstract: the life of one provider runtime | refined by `ProviderGenerations` | `LifetimesProofs` |
| `ManagedSessions` | session ids, CLI processes, stops | `MCLifetimes` | `LifetimesProofs` |
| `ConversationTrees` | trees, workflow, runner and store | `MCConversationTrees` | `TreesProofs` |
| `SessionPersistence` | the debounced writer of the session store | `MCRecords` | `RecordsProofs` |
| `Transcript` | events of a CLI, nested Tasks, rendering | `MCRecords` | `RecordsProofs` |
| `MessagingDelivery` | compacting queue, worker, retries, close | `MCRecords` | `RecordsProofs` |
| `Queues` | what is left of a queue, and who is ahead in it; used by `ConversationTrees` and `MessagingDelivery` | `MCConversationTrees`, `MCRecords` | `QueueProofs` |
| `RateWindow` | the sliding window of a rate limiter | `MCRecords` | `RecordsProofs` |
| `RequestServing` | routing, failover, health, responses | `MCServing` | `ServingProofs` |
| `RequestConversion` | the history of a conversation, on two wires | `MCServing` | - |
| `ChatStream` | the OpenAI-compatible stream, retries, repair | `MCServing` | `ServingProofs` |
| `ResponsesTranslation` | upstream and downstream Responses streams | `MCServing` | `ServingProofs` |
| `Answers` | both of these side by side | `MCServing` | `ServingProofs` |
| `TextParsers`, `NativeToolStream` | think tags, textual and native tool calls | `MCServing` | `AnswerTextProofs` |
| `AnswerText` | both of these side by side | `MCServing` | `AnswerTextProofs` |
| `ToolNames` | names and aliases of tools on the wire | `MCServing` | `ServingProofs` |
| `ChatOwnership` | voice notes, intake, stop, clear, notice | `MCSurroundings` | `SurroundingsProofs` |
| `AccountSession` | the account several processes share | `MCSurroundings` | `SurroundingsProofs` |
| `AccountLogin` | one interactive sign-in | `MCSurroundings` | `SurroundingsProofs` |
| `AdminConfiguration` | sources, saving, snapshot, restarts due | `MCSurroundings` | `SurroundingsProofs` |
| `Registries` | custom providers and combos | `MCSurroundings` | `SurroundingsProofs` |
| `ServerSupervision` | runs, restarts, ordered start and close | `MCSurroundings` | `SurroundingsProofs` |
| `FailurePolicy` | what an exception means | `MCSurroundings` | `SurroundingsProofs` |
| `ModelListing` | the model cache and the catalog | `MCSurroundings` | `SurroundingsProofs` |

An MC module only fixes constants, and where it extends several components it
chooses one at the start (`subject`, `scene`): each behaviour is about one
component while the others rest, so that one run asks the questions of several
small components that do not share state. Operators such as `LeaderVanishes` or
`AsOfNow`, which no specification uses, are plausible mistakes. A property is
worth stating only when such a mistake breaks it; `PROJECT.json` records which one
does.

### 2.1 ProviderAdmission

A *session* is one logical execution (`ProviderRetrySession`). It is of one of
three kinds: `plain` (`run_with_retry`), `chat` (the OpenAI-compatible stream,
which may open a nested attempt to continue a broken stream) and `codex` (which
may be corrected after a 401 and retried). `pc` is where its coroutine is
suspended; each action runs from one suspension point to the next, which is the
granularity of asyncio. `episode` is `_RecoveryEpisode` with its delay counted
down by `Tick`; `doomed` are the executions an exhausted recovery has named;
`latch` is the auth quarantine; `slots` the free slots of the bulkhead.
`Cancel...` is a `CancelledError` at each kind of suspension, including the close
of a stream.

Abstractions. The sliding window admits eventually (it is `RateWindow`). The
condition's lock is never contended, because its bodies do not suspend; the order
of its waiters is not modelled. Closing a stream does not raise. Codex corrects
once per execution; the model allows it whenever an attempt is left.

`RecoveryBreaker` is what a user of the controller may rely on: it is closed,
waiting, probing or terminal; only a trip opens it; only the prober's answer, or
an authentication rejection, ends a recovery.

### 2.2 ProviderGenerations

Callers are requests (acquire, use, release), Admin calls (replace, full
refresh, connected account) and shutdowns. A *runtime* stands for a generation
and the provider runtime in it. Its cleanup task is separate from its callers,
since the code shields it; a cleanup may fail `MaxFailures` times. The replace
lock, the close lock, background refresh and the set of unpublished candidates
are those of the code. Where the code cancels a child task and gathers it, the
model lets a cancellation arrive only after the child has ended. In a few places
a step of the model is shorter than the run between two awaits of the code, which
adds behaviours and removes none.

`RuntimeLifecycle` is the abstract life of a runtime: discarded unpublished or
published, borrowed and given back, retired, closed once nobody borrows it.

### 2.3 ConversationTrees

A *delivery* is one arrival of a platform message; an admitted one becomes a
*turn*, and the claim of a turn is named by its delivery (`uuid` in the code).
`graph` is the published nodes of all trees, `queue` and `active` the
`MessageNodeQueue` and `_ActiveClaim` of each, `task` the `_TaskSlot` of each
claim, `command` the stop or clear that holds the workflow's state lock, `stored`
the content of the `SessionStore`.

Granularity. `TreeQueueManager._lock` guards bodies that never suspend, and the
status edits made under it are fire and forget: each call of the manager is one
step. A stop or clear is three: the transition with its cancellations, the end of
the drain with the snapshots taken then (`Drained`), and the save of them
(`Save`), which comes through an extra task of `_finish_transition`. The state
lock is held throughout, so admissions wait; runners do not.

`References` are a message's prompt or its status: a user may answer either, and
a clear removes the literal reply subtree (`Above`, `Below`): `Above` is the least
set of references that holds what a message replies to and is closed upwards. No
message replies, directly or not, to itself (`RepliesAssumption`), since a platform
lets nobody reply to what is not there yet. `SlowStop` says
whether a CLI may outlast `CANCEL_TASK_DRAIN_TIMEOUT_S`; the managed session waits
as long before it kills its process.

Abstractions. One chat. The restart takes the SessionStore's content as on disk.
`cli_manager.stop_all`, voice notes, status edits and deletions are left out. A
`/stop` in reply to a turn whose status was cleared and which still unwinds raises
and changes nothing, and is no action.

### 2.4 SessionPersistence

The content of the store is the number of changes made to it. The event loop
saves, flushes and clears; a timer thread is named by the generation it was
started for. `pc` is where each thread is between the blocks that `_lock`,
`_timer_lock` and `_writer_lock` make atomic: `claim` takes the generation,
`snapshot` the content, `write` waits for the writer's lock, `replace` holds it,
`confirm` and `clean` are the two halves of `_mark_clean_if_current`. A clear, and
the scheduling of a save, hold the store's lock throughout; a flush does not. A
crash keeps the file. `kept` is a ghost: what a flush or clear has returned for.

### 2.5 MessagingDelivery

A *request* is one call of the outbox, by one of three routes: its caller awaits
the result, the limiter runs it as a task that retries, or the call itself is
handed to the outbox as a task (what the workflow and runner do with status
edits). `started` is the event loop's order of new tasks, on which the order of
edits rests. `queue` and `entry` are `_queue_list` and `_queue_map`, `job` what the
worker has popped. The worker's states are its suspensions: waiting for work,
asleep in a pause, waiting for the window, in an operation. Closing is the
outbox, then the limiter up to its wait for the worker, then its tasks. Errors
are of three kinds: transient (a task retries), flood (the worker pauses), fatal.

### 2.6 ManagedSessions

A *turn* gets a session from the manager, launches its CLI, registers the id the
CLI reports, and removes the session in its `finally`. An id is that of a pending
session or one of the CLI, by turn, so that a turn can resume its parent's. `lock`
is the manager's lock, held across a whole stop; `life` and `cli` are each
session's `_lifecycle_lock` and `_cli_lock`. `Kill` and `Killed` are the two ends of
the wait for a process. A cancelled turn shields its stop; a second cancellation
abandons the wait and leaves the stop running (`halting`). Turns of one tree run
one after the other, which `ConversationTrees` checks (`TurnsAreOrderly`); the
theorems about sessions do not need it.

### 2.7 RequestServing, ChatStream, ResponsesTranslation and Answers

`RequestServing` follows a request from its name (a tier, a plain name, a gateway
name, a combo) along its chain: `place` is where its response is suspended,
`source` what its current node's generator is, `ended` how it ended, `health` the
process-wide marks and lockouts. What a provider says is reduced to the chunks
these modules tell apart. Cleanup is the response's own task: body closed, then
lease released.

`ChatStream` is one execution of the OpenAI-compatible stream: the upstream says
text, thoughts and tool calls in deltas and may break anywhere; the events held
back (`StreamRecovery`), the blocks of the ledger, the tool buffers, the early
retry, the continuation and the repair are the code's. A continuation may think,
talk and call several tools; the code does all of that at once, the model call by
call (phase "calling", in which the consumer has seen none of it yet). `ResponsesTranslation` has
both directions of the Responses wire: items of an upstream become Anthropic
blocks, and those become items of a client. `Answers` has one of each, side by side.

### 2.8 TextParsers, NativeToolStream, RequestConversion and ToolNames

Pure algorithms, as state machines over their input. A text is a sequence of
tokens which is cut into chunks anywhere; what was shown, taken as thought or as a
call is compared with the uncut text (`AnswerText` has both kinds of texts). `RequestConversion` reads a bounded history
item by item, and replays it to a chat or a Responses upstream; the words of a
client are named by where it sent them, so that their order and their place can
be compared. `ToolNames` is one request with its aliases, made one at a time, and
one call of its answer with its name in fragments, interruptions and a retry. A
name is a sequence of letters and a digest a function of it that may collide.

### 2.9 Transcript, RateWindow and FailurePolicy

`Transcript` is given by what a CLI prints, whole messages or indexed blocks,
with nested Tasks; `MainIsHeard` compares what is shown with who spoke.
`RateWindow` is the deque of acquisitions with sleepers outside the lock; a sleep
may end up to `Resolution` too early. `FailurePolicy` follows one exception
through admission, recovery, the boundary and failover, each of which reads another
part of it: its class, its status, its body, the words of its text.

### 2.10 ChatOwnership, AccountSession and AccountLogin

`ChatOwnership` has the handoff of a voice note (`flow`), the intake of a turn up to
its admission (`turn`, `node`, `token`), a command with its takeover of voice notes,
its join and its deletions (`op`, `joins`, `deletes`), the startup notice, and what
is on the chat, tracked, or refused deletion. The status message of a turn, or its
edit, may not be taken (`StatusFails`), which ends the turn; a handoff that was
cancelled ends at its next wait, before or after a rejected admission (`Unwind`,
`UnwindRejected`). What a turn does in its tree is in
`ConversationTrees`.

`AccountSession` numbers credentials as the server issues them. A call is
suspended at a lock, in the server's answer or in a thread; `stranded` are those
that were lost with a call or a process, `threads` the writes that outlive the
task that awaited them. An account's `history` is what each of its revisions said;
`catalog` is the application's view of it. `AccountLogin` has the listener, the two
ports, the tabs that are still open from other attempts, the device code, the
expiry, and the owner that cancels, signs out or closes.

### 2.11 AdminConfiguration, Registries, ServerSupervision and ModelListing

`AdminConfiguration` maps fields to values in each source; an apply is prepared,
committed or fails; `pending` says which fields are due for a restart. `Registries`
is both registries with memory, file and passphrase. `ServerSupervision` is the
supervisor's thread, the requests to restart and stop, and the owners of one server
as a sequence of stages to close, any of which may fail. `ModelListing` is the cache
and catalog with discovery, Admin calls and provider tests asked under the settings
of some moment and returned in another.

## 3. Runs and bounds

| run | instance | asks |
|---|---|---|
| `admission_callers` | a chat stream and two plain calls that may be cancelled, budget 3, 2 slots, delays 0 and 2, no rejected keys | who leads, who holds a slot, what starts in a recovery, does everybody end |
| `admission_mixed` | one execution of each kind, all cancellable, budget 2, rejected keys | one probe, budgets, doom, refinement of the breaker |
| `trees_turns` | three messages, two of which answer the first by its prompt and its status; one restart | queue, store, task and claim agree; stop is a boundary |
| `trees_slow` | a message delivered twice and its reply; CLIs that outlast the drain | turns do not overlap, outcomes are final, turns end |
| `lifetimes` | *runtimes*: 1 request, 2 Admin calls, 2 shutdowns, all but the last cancellable, 3 runtimes, 1 failing cleanup; *sessions*: 4 turns in 2 trees, 1 cancellation, 1 stop of all, 1 stop that fails | use against cleanup, loss, the life cycle, retired runtimes close, calls return; ownership of CLIs and ids, stop against launch |
| `records` | *file*: 2 changes in each of 2 lives, 1 failing write, 1 crash; *transcript*: 5 events of a CLI with 3 Tasks; *messages*: 3 edits of one message by 2 routes, 3 outages; *window*: 3 callers, 2 per window of 3, 5 acquisitions, time to 8 | order of snapshots, promises over crashes, nothing forgotten; who is heard; compaction, order, close, every caller answered; the window |
| `serving` | a streamed and a plain request on one gateway, a clock of 1; a stream with 2 tools, 4 deltas, 3 attempts; answers of at most 3 items and 2 tries; texts of at most 3 parts, cut anywhere; histories of at most 5 entries; tools with colliding aliases, 3 fragments, 2 tries | one answer, one bill; leases; what is said and not said; blocks; cuts; histories; names |
| `surroundings` | two voice notes, a prompt, a command, the notice; 2 processes on one account with 2 calls, 2 generations, 2 operations and a poll; 3 settings changes; 4 restarts and 2 failing closes; 4 registry writes; 2 sign-ins on 2 ports; 2 calls of model listing over 2 settings; every exception of `MCErrors` | who owns a message; accounts; what is saved; owners; what is listed; what an exception means; commands and sign-ins end |
| `admission_hold_and_wait` | two streams that break, two slots | violated: finding 1 |
| `trees_stop_aborts` | a slow CLI and a cleared status | violated: finding 2 |
| `account_disconnect` | one process, a sign-in and a sign-out | violated: finding 3 |
| `streams_hold_lease` | a client that leaves | violated: finding 4 |

Why these bounds suffice. Admission: a recovery involves a leader, one that
coalesced or waits, and one whose attempt is older than the episode: three
executions. Two slots let one be held while another is wanted. A budget of 3
allows a first attempt, an early retry and a continuation; delay 2 leaves a state
in which it is half over. Runtimes: three are a retired one, the current one and a
candidate; two callers compete for each lock. Trees: three turns are an active
one, a head and a tail of the queue, so that a turn can be taken from the middle;
the siblings answer different references of the same turn, so a clear of one
spares the other. A second delivery of a message is enough to meet the first one's
task. Session file: the second life begins with generations that the first has
used, and each has a writer and one that overtakes it. Delivery: three requests of
one key are one with the worker, one queued and one that takes its place; three
outages are the two retries of a task and the end of them. Sessions: a parent, a
child whose removal may fail, and a sibling that then finds the session it left.
Serving: two requests share the health registry and a runtime; a chain of two nodes
has a node to fail over to and none after it. Chat: two notes compete for what one
command takes over. Account: one process refreshes while the other signs out.
Where a theorem of section 7 states the same property, these bounds do not matter.

Deadlock is checked in `admission_callers`, `trees_turns`, `trees_slow`,
`lifetimes` and `trees_stop_aborts`, where whatever has ended may still rest. It
is not checked where the system really stops: in `admission_mixed` and
`admission_hold_and_wait` the findings of section 6 stop executions for good, and in
the other runs a closed delivery, a request that was answered, a text that was read
or an account that was closed has no further step.

Configurations that leave something out: `admission_callers` has no
authentication failures and does not cancel its stream, and `trees_turns` has no
slow CLI, because the findings below would otherwise hide everything else;
`admission_mixed` and `trees_slow` have them.

## 4. Fairness

The event loop runs every ready task: each step of a coroutine that waits for
nothing is weakly fair, and so are time and the end of an upstream call, which
has timeouts. Cancellation, failures, new messages, Admin calls and commands are
never fair. A waiter of a lock, a slot or a condition is fair only in so far as
asyncio wakes waiters in order: an acquisition that is enabled again and again is
taken in the end. A timer thread that waits for nothing runs, and its
half second passes. A CLI ends eventually, because the CLI's own process does or a
stop kills it; a drain ends with the tasks it waits for or after 5 seconds. A
request's steps, its cleanup and the close of a runtime nobody leases are fair
(`ServingFairness`); so are the flow of each voice note, turn and command
(`ChatFairness`), the supervisor's thread and the end of a server that was told to
exit (`ServerFairness`), a sign-in's own steps, its 15 minutes included
(`LoginFairness`), the delivery's worker, its tasks and its close.

## 5. Properties

Each property's comment says what it means; the hazards of `PROJECT.json` say
where the code is exposed. The central ones:

- `OnlyProbesDuringRecovery`, `AdmissionIsSound`, `DoomedStayOut`,
  `ImplementsBreaker`: the thundering herd cannot happen, a late answer cannot
  confuse a recovery, and budgets hold.
- `NobodyIsStranded`, `EveryExecutionEnds`: nobody waits for somebody who has left,
  and the bulkhead does not shrink.
- `RuntimesAreSafe`, `ImplementsLifecycle`, `RuntimesSettle`: no use during a
  cleanup, nothing lost, retired runtimes close.
- `SessionsAreOwned`, `StopsAreFinal`: no CLI without an owner, none after a stop.
- `TreesAreSound`, `TurnsAreOrderly`, `EveryTurnEnds`: the four views of a turn
  (state, queue, claim, task) never drift apart, and one turn runs at a time.
- `StopIsABoundary`, `StoreMatchesTrees`: what was there at a stop is stopped, and
  a restart accepts what was stored.
- `FileMovesForward`, `PromisesAreKept`, `ChangesAreSaved`: the file is never set
  back, and nothing is forgotten between two timers.
- `DeliveryIsFaithful`, `EveryRequestEnds`: compaction drops operations, never those
  who wait, never the newest.
- `MainIsHeard`: only the main agent's words are shown, and the newest of them.
- `OneAnswerOneBill`, `RuntimeOutlivesResponses`, `EveryAnswerEnds`: a client hears one
  node and one end, and is served by an open runtime.
- `AnswersAreSound`, `NothingIsUnsaid`, `CutsDoNotMatter`, `HistoryIsReplayable`,
  `NamesComeBack`: what was said arrives, whole, once, in order, wherever it is cut.
- `ChatIsOwned`: what was stopped stays stopped, and a cleared chat is empty.
- `AccountsAreSound`: no process destroys the session another has renewed; a
  sign-in is decided by its own tab.
- `ServerIsSupervised`, `NothingSavedIsForgotten`, `AppliesOnlyWhatWasAsked`,
  `RegistriesAreSound`, `ModelsAreTrue`, `FailureIsOneThing`, `WindowIsStrict`,
  `EverythingEnds`.

## 6. Findings

Four are runs that TLC must find violated; `PROJECT.json` quotes the line of the
repository each one contradicts.

1. `admission_hold_and_wait`: as many broken streams as there are slots each keep
   theirs and wait for another one for their continuation, for ever.
2. `trees_stop_aborts`: a stop of everything raises at a turn whose status was
   cleared and launches the turn queued behind it.
3. `account_disconnect`: a sign-out deletes the credentials, and the thread of the
   sign-in it cancelled writes them again.
4. `streams_hold_lease`: a client that leaves has its lease released while the
   provider's stream is still open.

The others were met while modelling and have no run of their own.

- A stream cancelled while it is being closed after its failure was recorded leaves
  a leader that no longer runs (streaming.py:353), and skips the release of its slot
  (http.py:31).
- A Codex execution that leads an episode and gets no access token for its next
  attempt, because the account was disconnected, its refresh rejected, or the task
  cancelled there, leaves the same (openai_codex/provider.py:206). Both are
  disjuncts of `CutOff` in `ProviderAdmissionProofs`.
- A stop saves a snapshot over a newer one and loses the session of a turn it did
  not stop (trees/manager.py:374).
- The next lockout of a model is counted from the end of the last one and may lie
  in the past (health.py:78).
- A gateway model named directly records no last known good path (routing.py:146);
  a Responses request records no success at all.
- The route header names the node that was chosen before any was tried
  (failover.py:54).
- The repair of a tool call held back as an alias or Task buffer emits it past the
  Task interception (streaming.py:685).
- A tier may name a combo that is removed or disabled later (combos.py:245).
- An incomplete response with a call is reported as completed
  (provider_stream.py:209).
- A chunk of white space between two parameters of a textual call ends it, and a
  control token split after its first characters is shown (tools.py:168, 115).
- The messages of a spoken command are not recorded and survive a clear
  (voice_flow.py:144).
- A restart requested after the supervisor's last look at the generation is promised
  and not carried out (commands.py:116).
- A `document` block of a user's message is dropped without a word
  (conversion.py:664).
- A replace that fails has cancelled the discovery under way, and nothing starts it
  again (provider_manager.py:240).

Other behaviours the modules contain, which contradict nothing that is written:

- *Admission.* A 401 answered to an attempt older than the episode drops the
  episode (admission.py:441); `RecoveryBreaker` allows it. Callers behind the gate
  still send a key that was rejected meanwhile. A transient failure recorded while
  the latch is on leaves a leader that the gate has refused.
- *Failures.* A stream event with code 401 or 403 in its body latches the account and
  is reported as upstream 500; one with words of a rate limit is retried. A 403
  whose text speaks of a limit is retried by the stream's recovery and not by
  admission. The recovery ignores the provider's override: a NIM 500 that means a
  full context is retryable there. Timeouts of write, connect and pool are retried
  by admission only. A status of 600 or more, which `ErrorsAssumption` excludes,
  would be reported as retryable and not retried.
- *Store.* `_mark_clean_if_current` may clear the dirty flag after a newer change has
  set it. Nothing is lost, since that change has its own timer and a flush writes
  whether the flag is set or not.
- *Delivery.* A retry of an edit (limiter.py:301-340) is a new operation for its key
  and shows its older text after a newer one, or takes its place in the queue.
- *Chats.* When the edit of a voice note's status message fails after the handoff
  (turn_intake.py:86 awaits it, limiter.py:107 passes the error on), the turn ends,
  nothing records the message and nothing deletes it (voice_flow.py:351): no /clear
  finds it. Nor one that the platform delivered although its send failed.
  `NothingIsForgotten` leaves out the status of such a turn (`turn` is "failed"),
  not its prompt.
- *Sessions.* A second cancellation of a turn while it removes its session leaves the
  session closing until the next stop of everything.
- *Failover.* An unknown combo in the global fallback is not expanded. Deleting the
  custom provider of a chain's first node makes its requests fail instead of fail
  over. `validate_providers` and `mark_provider_down` are called by nobody.
- *Streams.* The arguments heard before a tool's name stay in front after a broken
  stream is continued. A recovered call then has more than an object for its input,
  which JSON clients get empty; a Task, whose arguments wait until they parse, gets
  none at all (ledger.py:112; a recovery flushes nothing). `ToolsAreWhole` excepts
  the calls that began so (`BeganEarly`), and no others. The repair of a Task with
  waiting fragments raises a TypeError, since it parses a list (streaming.py:678),
  and the recovery fails. A long
  continuation that joins nothing that was said is dropped (recovery.py:118). A
  truncated call without arguments completes as `{}`. A 401 on the last attempt is
  a RuntimeError.
- *Responses.* A reasoning item with text and encrypted content becomes two items.
- *Parsers.* Text after a bullet of up to 100 characters may never be shown; text
  around the JSON of a web tool, or between two bullets, is dropped. A chunk after
  the finish reason raises in the native stream.
- *Histories.* A second result for a pending call overwrites the first; a result of an
  unknown call becomes a tool message; an invalid function call takes its output
  with it; with think tags, reasoning beside list contents or tool turns is
  dropped; two calls of one id in a message are a KeyError.
- *Names.* A portable name in fragments starts its block with the first of them
  unless that begins an alias. An alias cut exactly where another tool's name ends is
  that tool. Two tools of a namespace and a function may share a client name; calls
  go to the first.
- *Transcript.* With parallel Tasks, the result of an earlier one also closes later
  ones, whose subagent's words are shown from then on. Results are never shown. Were ids
  of several lengths, a Task could stay open after all have ended (7.3).
- *Account.* A refresh under the lock posts its own token when the newer file is near
  its expiry too. A request cancelled in the middle of a refresh loses the rotated
  token. What `recover_unauthorized` finds connects without a revision.
- *Sign-in.* The browser's page says "Connected" before the code is exchanged, and
  for an attempt that was decided or cancelled (login.py:111). A start cancelled
  inside `candidate_site.start()` leaves its listener bound; the model excludes it.
- *Registries.* The list of combos changes before the file: a change whose write
  failed is carried out by the next save. A corrupt file reads as empty and is
  overwritten. A custom provider that is created again reuses its cached client.
- *Settings.* A later hot apply clears the fields a restart is due for
  (application.py:205). An exported ANTHROPIC_AUTH_TOKEN gives way to the template;
  missing keys take the template's default.
- *Listing.* An older list may be cached over a newer one when the older was asked
  for by a provider test. Lists of custom providers are asked for and never cached.
  An empty catalog is not written. A session that ends by itself stays listed until
  the next poll, one that returns without a revision is not listed until the next
  refresh.
- *Window.* Waiters are not served in order; a sleep that ends early only looks again.

## 7. Proofs

TLC checks small instances; the theorems below hold for every value of the
constants that satisfies the named assumptions of their modules, however many
callers, calls, failures and cancellations there are. Each is proved from an
inductive invariant: it holds at the start, a lemma per action shows that the
action keeps it, and it implies the property. Bounds that a module states for TLC
are constants here and may be anything.

| module | theorem | property |
|---|---|---|
| `ProviderAdmissionProofs` | `SlotsAreHeld`, `BudgetIsRespected`, `OneProbeAtATime`, `ProbesAreHeld` | the parts of `AdmissionIsSound` |
| | `AdmissionStaysSound` | `AdmissionIsSound` |
| | `OnlyProbesStart` | `OnlyProbesDuringRecovery` |
| | `IsCircuitBreaker` | `ImplementsBreaker` |
| | `DoomedStaysOut` | `DoomedStayOut` |
| | `NobodyIsLeftBehind`, `CalmCallersStrandNobody` | `NobodyIsStranded` |
| `LifetimesProofs` | `RuntimesStaySafe` | `RuntimesAreSafe` |
| | `RuntimesLiveOnce` | `ImplementsLifecycle` |
| | `SessionsStayOwned` | `SessionsAreOwned` |
| | `StopsStayFinal` | `StopsAreFinal` |
| `RecordsProofs` | `PersistenceTypes` | the type invariant |
| | `SnapshotsInOrder` | `FileMovesForward` |
| | `PromisesSurvive` | `PromisesAreKept` |
| | `WindowStaysStrict` | `WindowIsStrict` |
| | `MessagesStayFaithful` | `DeliveryIsFaithful` |
| | `MainStaysHeard` | `MainIsHeard`, where ids that are alike cluster |
| `ServingProofs` | `OneAnswerIsBilledOnce` | `OneAnswerOneBill` |
| | `RuntimesOutliveResponses` | `RuntimeOutlivesResponses` |
| | `StreamStaysSound`, `TranslationStaysSound`, `AnswersStaySound` | `AnswersAreSound` and its halves |
| | `NothingIsEverUnsaid` | `NothingIsUnsaid` |
| | `NamesAlwaysComeBack` | `NamesComeBack` |
| | `NamesAreReversible` | two parts of it, without `WordsAssumption` |
| `AnswerTextProofs` | `ThoughtsStayInPlace`, `MarkupStaysUnderstood`, `CutsNeverMatter` | `CutsDoNotMatter` and its halves |
| `SurroundingsProofs` | `ChatStaysOwned` | `ChatIsOwned` |
| | `AccountStaysSound`, `LoginStaysSound`, `AccountsStaySound` | `AccountsAreSound` and its halves |
| | `ProvidersAreKept`, `CombosAreKept`, `RegistriesKeepWhatWasSaved` | `RegistriesAreSound` and its parts |
| | `ServerStaysSupervised` | `ServerIsSupervised` |
| | `NothingStaysForgotten` | `NothingSavedIsForgotten` |
| | `OnlyWhatWasAskedIsApplied` | `AppliesOnlyWhatWasAsked` |
| | `FailureTyped`, `OneFailure` | `FailureIsOneThing` |
| | `ModelsStayTrue` | `ModelsAreTrue` |
| `TreesProofs` | `TreesStaySound` | `TreesAreSound` |
| | `TurnsStayOrderly` | `TurnsAreOrderly` |
| | `EveryTreeCanBeRestored` | the last part of `StoreMatchesTrees`, whatever CLIs do |
| | `StoreKeepsUp` | `StoreMatchesTrees`, with CLIs that end within the drain |
| | `StopsAreBoundaries` | `StopIsABoundary`, with CLIs that end within the drain |

### 7.1 Admission

From `AdmissionAssumption`. `TypeOK` is inductive with `SlotsOwed`, which says what
a session owes the bulkhead at each place. `BudgetInv` adds to `BudgetRespected`
that a session about to claim an attempt still has one, since the check is made
before two waits. `RecoveryInv` is the strengthening for the probe: `SingleProbe`
alone is not inductive, because a session that *holds a permit* of an older
episode might be taken for the prober; so it also says that a permit's generation
is not of the future (`Fresh`), that whoever claimed to lead after a sleep has
slept enough (`Claimed`, `SleepsEnough`), that an active probe is held at a place
from which it is resolved or abandoned (`ProbeIsHeld`), and that what was resolved
is not in flight (`Unresolved`). The refinement maps an episode to the breaker's
mode and its leader to the prober; every step is a breaker step or leaves both
unchanged.

`NobodyIsStranded` is not true of the code without more: three steps strand a
leader or a slot, and `CutOff` names them (a cancellation while a stream is being
closed, no access token before the next attempt, a leader refused at the gate for
a key that another execution's answer had rejected). `NobodyIsLeftBehind` proves it
of every behaviour without such a step, with `WaitersInv` (who waits for what),
`LeadersInv` (a leader whose probe is not out is on its way to the gate or asleep
in its own delay), `SlotsInv` and `SlotsCounted` (a slot is free or held by a
session that will give it back). `CalmCallersStrandNobody` shows that the steps
need their causes: where no key is rejected, no Codex stream calls and only plain
calls can be cancelled (`Calm`), which is the setting of `admission_callers`, the
invariant holds without any restriction of the behaviours.

### 7.2 Lifetimes

`RuntimeInvariant`, from `GenerationsAssumption`: an Admin call holds the replace
lock all along and keeps the shutdown out, a close holds its own (`LocksAreHeld`);
only the current generation has a refresh that may still begin
(`RefreshIsCurrent`), it is open (`CurrentIsOpen`); leases are its holders and its
refresh (`LeasesAreCounted`); a runtime that is being cleaned up has none
(`UnusedAreClosed`); a close that is over has cleaned everything
(`CloseIsComplete`); nothing is lost. The refinement of `RuntimeLifecycle` maps a
runtime to the stage it is in and to its leases with the calls that connect
through it; each action is one step of the life of one runtime, or none.

`SessionInvariant`, from `SessionsAssumption`: a live CLI's session is owned
(`LiveIsOwned`), the tables of ids agree (`TablesAreSound`, `IdsAreOwn`), a session
is forgotten only after it was stopped (`UnstoppedAreOwned`), whoever launches or
kills holds the lifecycle lock (`LifeIsHeld`), and a stop of all that has not failed
still has to stop all that is owned (`AllAreReached`). Nothing in it asks that the
turns of a tree run one after the other.

### 7.3 Records

From `PersistenceAssumption`. A write takes its generation first and its snapshot
later, so the two may not belong together; the generation check makes up for
that. `Snapshots_OK` says so: a snapshot whose generation is still current is what
memory held when that generation began (`Published`), because a change and its
generation happen under the store's lock, which the snapshot needs too. A writer
that has passed the check may be overtaken, but holds the writer's lock, so that
its snapshot is still no older than the file. `Places_OK` is what this needs about
who holds which lock and which timers exist; `Promises_OK` adds that a flush or
clear that is about to return has its snapshot in the file.

`WindowStaysStrict`, from `WindowConstants`: what left the deque is out of the
window, and the deque is shorter than the limit when one more is admitted, so that
the acquisition that many before it has left it.

`MessagesStayFaithful`, from `DeliveryAssumption`. Nothing older is shown because three
places in a row keep the order of the calls of one route: the tasks that have not run
(`TasksKeepOrder`), the entry of a key (`QueueKeepsOrder`) and the operation the worker
has taken (`WorkerKeepsOrder`). Each says that no later call of the route has got ahead
of a first attempt that is still in that place; a retry may be overtaken, and is exempt
in the property for that reason. `SuccessIsShown` says that whoever was told of a success
is not hidden by an earlier first attempt of its route. They need what the calls, tasks
and entries have in common: a request that was not tried has left no trace
(`CallsAreNoted`, `TasksAreReady`), the futures of an entry are of its key and include
its operation's own (`JobsAreWhole`), and each stage of the close leaves behind what the
next one expects (`CloseAdvances`).

`MainStaysHeard`, from `TranscriptAssumption`. The transcript does not know who speaks:
it takes whoever speaks while no Task is open for the main agent. So what has to be shown
is that a Task is open only while one runs, although a result may close another Task than
its own, and all above it. `Owed` matches the open Tasks with running ones, one to one and
each with one of a similar id; a result takes one pair off, or pairs with the wrong Task
are exchanged. That needs ids that are alike to form clusters (`Clusters`), as ids of one
length do, which are alike only if they are equal. Without it the invariant and the
property are false: with t1 like t10 and like t2, and t10 unlike t2, a Task may stay open
after all have ended, and the main agent is not heard any more. The rest is in the view:
each open block is an index of a segment and the one being streamed is the newest
(`StreamIsHeard`), so that its words come after all others (`InOrder`); and what is
rendered fits by cases on where it is cut (`RenderingFits`).

### 7.4 Serving

`ServingInvariant`, from `ServingConstants`, says for each request where it may be
and what it then has: an answer ends once (`Answering`); content was heard of the
node that is being served and of no other (`Speaking`); a node is billed when its
usage was seen, once (`Billing`); the lease is held until the body is closed
(`Leasing`). A runtime is closed only when no lease is held.

`NamesAreReversible`, from `NamesAssumption` and `AsksAssumption`: the aliases are
made one at a time, each different from all names and aliases there are
(`CodecInvariant`), and decoding undoes encoding once every name was looked at.

`NamesAlwaysComeBack` needs `WordsAssumption` as well: no name goes on where an alias
ends. An alias ends in 16 digits of a hash, so a client would have to spell out the alias
of another of its tools and go on; the code does not exclude it, and such a call would be
taken for the other tool when its name is cut there. `NamesInvariant` says for each
moment what was heard: before the block starts, `held` is all that was sent and could
still become an alias, or nothing could and the name is known (`Waits`); from then on, the
block has the name that was called, or a portable one of which it heard a part
(`ShownAsSent`).

`StreamInvariant`, from `ChatConstants`, says what the ledger is in each phase
(`LedgerInPhase`): untouched while nothing was said; while streaming, the active block is
the only one open besides the calls', and a call whose arguments wait for the whole was
given nothing yet and is never given half of them (`BuffersAreUnsaid`, `HalvesAreHeld`);
while a broken stream is recovered, it has grown from what it was when it broke, so that the
continuation and the repair close each block once; at the end all is closed, and every call
whole that did not begin before its name. `NothingIsEverUnsaid` follows step by step: blocks keep
their kind and place and their bodies only grow (`LedgerGrows`).

`TranslationInvariant`, from `TranslationAssumption`, speaks of what the client will have
once it is told all that is held back, since nothing else is the same across a release.
That goes with the translator and with what was heard (`Paired`): the client's slots are
its blocks, of which those open are in progress (`Board`), and hold the text, the thoughts
and the arguments that the items were sent (`Content`); at the end it is all of them
(`Over`). The translator tells several events in one step, and the assembler folds them:
a few facts about `FlattenSeq` and that fold need induction over a length, which `Induct` in
`QueueProofs` gives for sets of numbers, from the pigeonhole principle for finite sets.

`CutsNeverMatter`, from `TextsAssumption` and `FieldsAssumption` (texts are sequences of
strings, no more). Both parsers look for markers whose first symbol is found nowhere else in
them. So a text that grows keeps its first marker, and a marker that is found later began
either where one had begun, or in what came later (`FirstMarkStays`, `KeptIsEnough`): what a
parser lets go plays no part any more. A step of `ThinkTagParser` takes the first tag, or keeps what may become one;
a text of length n needs at most n + 1 of them (`AllSettle`). `AllMayBeCut` is the claim itself: to feed
a text and then more of it ends where the whole of it ends. It is an induction over the
length of what is still to be parsed, again by `Induct`, on the first tag of the text
(`CutAfterTag`) or on none (`CutInText`); `ThinkInvariant` then says that the parser is where
the text heard so far leads in one piece. For the native markup, `NativeInvariant` says what a framer is by
what came in (`Framed`): text without a block, of which what may begin one is kept back, or
the block behind the first start. From this follow that no namespace is shown, though it may
be whole only after two chunks (`ShownHasNoNames`), and that the calls of a field are those
of its block (`BlockTakesAllCalls`).

### 7.5 Chat and account

`ChatInvariant`, from `ChatOwnershipConstants`: a turn received before a stop or a
clear is known by its token (`Turnwise`); a note has a handoff only from its claim
to its end (`Flowwise`); what a command has joined can no longer begin (`Joining`,
`Doomed`), and what it ended is dead (`Dead`); each message on the chat is tracked,
refused, about to be deleted, or of somebody still at work (`MessagesKept`,
`NoticeKept`).

`AccountInvariant`, from `AccountConstants`: whoever is at a step under a lock holds
it (`FileIsLocked`, `StateIsLocked`). While no generation is stranded, the file a
call is about to write or delete holds what the call refreshes, nothing, or a
generation about to expire (`FileIsKnown`), so that a refused refresh does not
delete what another process has renewed. Unless the account was taken unseen, the
history of its revisions says what was connected at each, and the queue of
statuses and the listing say the same (`StatusIsSettled`). `LoginInvariant`: a
listener serves the attempt under way (`NoListenerIsLeft`), a shown tab calls it
(`TabsFindTheirs`), and a grant is of the attempt's own tab or code (`OwnGrant`,
`GrantIsTaken`).

### 7.6 Configuration, failures, listing

`RegistryInvariant` (`RegistryConstants`): one row per id, the memory is what was
entered, an intact file is the memory and is sealed once written with a
passphrase; saved combos are in the list and in an intact file, although the list
changes first. `ServerInvariant` (`SupervisionAssumption`): what uses an owner is
closed before it (`UsersOutlive`), a new server starts over nothing open
(`NewServer`), the registered server is the one that runs (`Registered`).
`ConfigInvariant` (`ConfigurationAssumption`: what a dotenv file gives even against
the environment needs a restart, as the source's one such field does): the managed
file is whole, a prepared update is of the sources as they are, and a field that
needs no restart is in use as it is saved.

`OneFailure` is a case analysis over the classes of exceptions, for any bodies and
words, with statuses from 400 to 599 (`ErrorsAssumption`).

`ListingInvariant` (`ListingConstants`): each publication trims the cache by the
settings and the account of its moment, and whatever changes them is published
itself or has a revision not yet acted on; a session that returns without a
revision has nothing listed.

### 7.7 Conversation trees

`TreesInv`, from `TreesAssumption` and `RepliesAssumption`, for any messages, replies,
deliveries and restarts. The properties are not inductive by themselves: that a turn
is launched once needs that what waits has no task (`ClaimsAreSound`), which needs
that a queue holds each pending turn once (`QueuesMove`) and that nothing which is
published or stored is still on its way to be (`AllHaveEntered`); that the store can
be restored needs the same of the published trees and of the snapshot that a command
is about to save (`NodesAreSound` of the three: a node is legible and hangs below its
root by what it replies to); and that the store agrees when no command is at work
needs what it may lack while one is (`StoreFollows`, `StoreTells`).

Two theorems assume `~SlowStop`, that every CLI ends within
`CANCEL_TASK_DRAIN_TIMEOUT_S`: the part of the invariant called `InTime` says that
whatever was cancelled is being awaited (`CancelledIsAwaited`, `NobodyIsNameless`) and
that what waits came after the last stop and clear (`WaitingIsFresh`). Without the assumption they are
false: `trees_stop_aborts` is a counterexample. The soundness of the trees, the order
and the outcomes of turns, and that every stored tree can be restored, hold either
way.

The stops and clears differ in what they reach and share one lemma, `HaltKeeps`,
about what any of them may do to nodes, claims, queues and the command at work. The
queues are sequences, but nothing about them needs induction: what is left of a queue
is defined by the rank of its places (`Dequeued` in `Queues`), and `QueueProofs` shows
that it has the same entries in the same order but for those taken out, and that an
entry at the end is ahead of nobody. The tasks of `MessagingDelivery` are such a queue too.

### 7.8 Only model-checked

- Liveness: `EveryExecutionEnds`, `EveryTurnEnds`, `RuntimesSettle`, `ChangesAreSaved`,
  `EveryRequestEnds`, `EveryAnswerEnds`, `EverythingEnds`. Fairness and `ENABLED`
  are beyond the prover.
- `HistoryIsReplayable`. The conversion it is about goes over a whole history, with what it
  owes to later turns. The library's induction takes an operator that no prover here can
  instantiate; `Induct` replaces it where a set of numbers will do, as in 7.4, and has not
  been carried through this one. It would need an assumption as well, which the run
  makes (`FromTheCast`): a client uses an id for one call. Where two turns call with the
  same id and one result follows, the first turn takes it and the history is refused.

## 8. Plan

Done: every component of the inventory that keeps state two tasks may share is
modelled, checked and proved about.

Next, in this order:

1. `HistoryIsReplayable` for histories of any length.
2. `ConversationTrees` over `SessionPersistence`, in place of the store that never
   lags.

## 9. Not modelled

Rendering for the platforms, CLI launchers, the list of settings with its validators
and migrations, the Admin pages, the wire formats of single providers, schemas,
images and system prompts, reasoning preferences, token counts, the desktop tray:
they keep no state that two tasks share. Threads, except those of the session store
and of the credential file: the rest of the program is one event loop.
