# Formal models of the OpenHands core

TLA+ modules, TLC configurations and TLAPS proofs for the parts of this
repository in which several actors share state: the event stream every component
talks over, the agent controller with the runtime and the memory that answer it,
the managers that start and close the sessions of a server or of a cluster, the
conversations that requests attach to, the shell sessions of the sandbox, the
condensing of the history, the mirroring of a file store and the refresh of
provider tokens. Paths are relative to `src/openhands/` unless they begin with
`src/`.

Contents: 1 inventory of the system; 2 the modules and how they correspond to
the code; 3 what each run checks; 4 fairness; 5 what is proved; 6 known
deviations; 7 what is not modelled; 8 what could follow; 9 how to run it.

## 1. Inventory

### Event stream and event store (`events/stream.py`, `events/event_store.py`)

- *State.* On disk one JSON file per event and one page file per full block of
  `cache_size` events; in memory `_cur_id` (lazily computed from the directory),
  `_write_page_cache`, the queue, the subscribers and one single-worker thread
  pool per callback.
- *Operations.* `add_event`, `search_events`, `subscribe`, `unsubscribe`,
  `close`, the queue thread `_process_queue`.
- *Interactions.* Every other component calls `add_event` from a thread of its
  own and is called back from its pool. The store outlives the process.
- *Hard.* The id and the page are taken under a lock, but the event file, the
  page file and the queue are written after it is released. `cur_id` is also
  read without the lock. A process may be killed between any two writes, and
  a local write truncates first. Subscribers come and go during a dispatch.
- *Correct when* an id is used once and never again after a restart, pages agree
  with files, what a subscriber saw is on disk, every subscriber that stays gets
  every event once and in order, one that left is not called, close returns.

### Agent controller, runtime, memory, client (`controller/agent_controller.py`, `runtime/base.py`, `memory/memory.py`, `server/session/session.py`)

- *State.* Agent state, pending action, iteration flag, history; the runtime's
  current action; error statuses queued to the session loop; the user's screen.
- *Operations.* `_on_event` with its handlers, `_step`, `set_agent_state_to`,
  `_reset`, `_react_to_exception`; `Runtime._handle_action`;
  `Memory._on_event`; the user's messages, stops, confirmations, rejections.
- *Interactions.* All over the event stream, each subscriber with a queue of its
  own; except error statuses, which the session loop applies from its thread.
- *Hard.* Requests of the user name no action, and arrive late. An action is
  answered by an observation that names its cause; a running agent with a pending
  action is not stepped until that arrives. An action that is confirmed is put on
  the stream a second time. Failures come as events or as statuses.
- *Correct when* an agent that waits has its answer coming, it never hangs in a
  state in which the screen shows it at work, an action is executed once and, if
  it was held for confirmation, only when the user confirmed it, every tool call
  gets its result, and the agent alone cannot exceed its iteration limit.

### Condensing of the history (`memory/view.py`, `memory/condenser/impl/*.py`, `agenthub/codeact_agent/codeact_agent.py`)

- *State.* None but the history: condensations, requests for one and summaries
  are events in it; the view is computed from it at every step.
- *Operations.* `View.from_events`; the pipeline the server builds (window on
  request, masking of browser outputs, summary when the view is too long); the
  agent's step that returns a condensation or asks the LLM.
- *Interactions.* Each condenser works on the view the earlier condensations left;
  what it returns becomes an event, after which the agent is stepped again.
- *Hard.* Slices of the view and ranges of ids disagree at their borders; the
  summary is put at an offset of what is kept; requests come at any time.
- *Correct when* the task and the system message are never forgotten, a summary
  tells of what summaries took out, condensing ends and reaches its size.

### Conversation manager, session, agent session (`server/conversation_manager/standalone_conversation_manager.py`, `server/session/*.py`)

- *State.* Session per conversation, conversation per connection; for each agent
  session its start-up phase, whether it is closed, its runtime.
- *Operations.* `join_conversation`, `maybe_start_agent_loop`, `_start_agent_loop`
  with the eviction at the limit, `close_session`, `_close_session`,
  `_cleanup_stale`, `disconnect_from_session`; `AgentSession.start`, `close`.
- *Interactions.* One asyncio loop; whoever connects, REST calls, the clean-up
  task and the start-up of each session interleave at every `await`.
- *Hard.* Look-ups, counts and lists of connections are used after awaits; several
  closers close one conversation; a session is closed while it starts.
- *Correct when* no session is lost, the limit holds, every session that leaves the
  dictionary is stopped and gives its sandbox back, and every call returns.

### Attached conversations (the same manager, `server/session/conversation.py`)

- *State.* `_active_conversations` with a count, `_detached_conversations`, and per
  `ServerConversation` its event stream and whether its runtime is its own.
- *Operations.* `attach_to_conversation`, `detach_from_conversation`, the first part
  of `_cleanup_stale`, `connect`, `disconnect`.
- *Interactions.* REST requests attach while the conversation's sessions begin and
  end; a session's stream and runtime are taken over if they are there.
- *Hard.* What was there at the first request is kept for the later ones. The lock
  is held while a conversation connects, not while a session starts.
- *Correct when* what a request uses stays connected, what nobody uses is released,
  and a request works on the stream of the session that runs.

### Clustered conversation manager (`src/enterprise/server/clustered_conversation_manager.py`)

- *State.* In Redis an entry per running conversation, with a time-out; per server
  its sessions and connections; messages published.
- *Operations.* Start if the entry could be created; refresh of entries; close, here
  or by message; take-over when an entry is gone; the limit across servers.
- *Interactions.* Servers share only Redis: keys that expire and messages that are
  delivered at most once.
- *Hard.* Servers vanish; a refresh is built before and executed after a close; an
  entry is deleted before its session is closed; counts are taken before awaits.
- *Correct when* a conversation runs on one server at most, its entry is there as
  long as it runs, and a client that stays gets its conversation back.

### Identity provider tokens (`src/enterprise/storage/auth_token_store.py`, `src/enterprise/server/auth/*.py`)

- *State.* A row with the current pair of tokens; its lock; what requests and logins
  have read.
- *Operations.* Read; refresh under `SELECT ... FOR UPDATE` with a double check;
  delete after a failure; store at a login.
- *Interactions.* Requests of one user on several servers share the row; the
  provider accepts a refresh token once.
- *Hard.* The lock has a shorter time-out than the request its holder waits for;
  the answer may be lost; the id used for the deletion was read long before.
- *Correct when* a refresh token is presented once, the stored one still works, and
  no request waits for ever.

### Bash sessions (`runtime/utils/bash.py`)

- *State.* A tmux pane; the last status and the last output reported.
- *Operations.* `execute`: a command, input, an interrupt, a look; polling until a
  prompt or a time-out; clearing the screen.
- *Interactions.* With the shell and its programs through text only.
- *Hard.* The state of the shell is inferred from prompts; programs end after a
  time-out and unobserved; keys are read late.
- *Correct when* a command reported as completed is over and output is reported once.

### Web hooks of file stores (`storage/batched_web_hook.py`)

- *State.* A batch of changes, its size, a timer; batches on their way.
- *Operations.* Change and queue; send by size, by timer, by `flush`; retry.
- *Interactions.* Writers, timer threads, the executor's threads and `flush` share
  the batch under a lock; the file is changed outside it.
- *Hard.* A timer that is cancelled may have fired; `flush` cancels a timer it has
  not started; sends fail and overtake each other.
- *Correct when* no change is left in a batch that nobody will send.

### The rest

Socket handlers (replay, then join), delegates, stuck detection, replay, nested
managers, V1 app server (sandboxes with a quota, start tasks, event callbacks);
and around them agents (prompting and parsing), LLM clients, runtime
implementations, security analyzers, REST routes, settings and secrets,
integrations, the rest of the enterprise server, the front end. PROJECT.json lists
each with its status and reason; section 7 says why these are not modelled.

## 2. Modules

| module | models | state | actions |
|---|---|---|---|
| `DurableLog` | abstract: what an event stream promises | `log`, `seen` | add an entry under a new id, call a subscriber once, restart |
| `EventStream` | stream, store, file store; implements `DurableLog` | disk (`file`, `cached`), writers (`cur`, `pages`, `pc`, `my`, `rpc`, `rid`), delivery (`queue`, `disp`, `item`, `todo`, `keys`, `sub`, `pool`, `work`, `cpc`, `closing`, `exiting`), history (`queued`, `seen`, `prior`, `lost`) | one per step between two points where another thread can come in |
| `AgentController` | controller, runtime, memory, client | `mode`, `ctl` (fields of the controller and the subscribers' queues), `busy`, `running`, `view`, history (`executed`, `issued`, `held`, `approved`, `misled`) | one per handled event, per outcome of a step, per outcome of an action, per user input |
| `Condensing` | view, condensers, the agent's step | `history`, `awaited`, `open`, `resting`, `browses` | one per event that enters the history |
| `ConversationManager` | manager, sessions, agent sessions | `loops`, `conns`, `call`, `sess`, `close` | one per stretch of code between two awaits |
| `Attached` | attached conversations next to sessions | `current`, `phase`, `streams`, `subscribed`, `conv`, `activeConv`, `count`, `detached`, `visit`, `lockedBy` | one per operation, two where a conversation connects |
| `Cluster` | clustered manager, Redis | `alive`, `entries`, `slot`, `clients`, `pipe`, `inbox`, `stopped` | one per stretch between two awaits, per message, per failure |
| `TokenRefresh` | token store, provider | `row`, `holder`, `request`, `login`, `issued`, `old`, `used`, `lost` | one per database statement or answer of the provider |
| `BashSession` | `execute` and the pane | `pane`, `scrolled`, `typed`, `shell`, `printed`, `execute`, `prevStatus`, `prevOutput`, history (`reported`, `misread`) | one per call, look at the pane, step of the terminal |
| `WebHookMirror` | batched web hook | `writer`, `batch`, `batchSize`, `timer`, `fired`, `jobs`, `flushing`, history (`queuedLast`, `settled`) | one per stretch under the lock, per attempt to send |
| `Subsequences` | what a sequence has at some of its places, in order; used by `Condensing` and `BashSession` | | |
| `EventStreamProofs`, `AgentControllerProofs`, `ConversationManagerProofs`, `ClusterProofs`, `BashSessionProofs`, `CondensingProofs` | theorems about the module named | | |
| `ServerPartsProofs` | theorems about `Attached`, `WebHookMirror` and `TokenRefresh`, and about the types of all parts | | |
| `SubsequenceTheorems` | lemmas about `Subsequences` | | |
| `MCEventStream`, `MCAgentController`, `MCServers` | instances of these for TLC | | |

**EventStream.** `TakeId` and `FillPage` are the locked part of `add_event`;
`TruncateFile`/`WriteFile` the write of the event file, `TruncatePage`/`StorePage`
that of the page, `Enqueue` the `put`. With `AtomicFiles` the truncation is
skipped, as an object store replaces an object at once. `ReadCurId`, `ListEvents`,
`SetCurId` are the three steps of the unlocked `cur_id` property. The queue
thread's state is `disp`: it tests the stop flag and `should_continue()` (`CheckStop`;
`Shutdown` makes the latter false), takes an event (`GetEvent`) or finds none within
the time-out of `get` (`GetTimeout`), and submits it to each callback's pool
(`Submit`), in sorted order of the keys read at the start; without an open pool it
dies. `Submit` is one step for the membership test, the look-up of the pool and the
submission: a change of the subscriber between two of these either raises, as it does
when the pool is gone or shut down before the step, or has the effect of one before or
after it. `RunCallback` is a pool worker. `CleanUpLoop`, `CleanUpShutdown`,
`CleanUpPool` and `CleanUpCallback` are what `_clean_up_subscriber` does, for
`unsubscribe` and for `close()`, which calls it for one callback after the other: the
loop of the callback's thread is stopped first, so what its pool has still to run may
raise. `Crash` loses all memory and opens a new stream on the
same disk. An event is its author and number; serialisation, secrets and the
filters of `search_events` are abstracted. `_subscribers` keeps a key when its
last callback goes, so `keys` only grows. Subscribers are modelled with one
callback each, as the code uses them.

**DurableLog** is what the rest of the system may rely on. `EventStream` maps its
complete files to `log` and its `seen` to `seen`; an entry is in the log from the
step in which its file is complete, before it is queued.

**AgentController.** `HandleEvent` is `_on_event`: history, dispatch to the
handler, `should_step`, and the step's checks up to the LLM call; `Think`,
`AskRuntime`, `Say` and `LLMFails` are what that call can lead to, with
everything to the end of `_step`. In between (`busy`) the others move, but the
controller handles no other event. `Alert` is `set_agent_state_to(ERROR)` from the
session loop, which does interleave. `StartAction`, `FinishAction`, `FailAction`
are `Runtime._handle_action`; `AnswerRecall` is `Memory._on_event`. A recall that fails
leaves an error status on the loop of the memory's thread, which has stopped by then
and runs it with the next event of the stream (`unsent`, `ReportFailure`). `Emit` is
`add_event`, which appends to the queue of each subscriber that does something
about the event; that these queues lose nothing and keep the order of calls that do
not overlap is what `EventStream` establishes. What two calls that overlap add may
reach a subscriber in another order than that of the ids (6.1): the controller model
does not include that. A conversation has one of the `Modes`, chosen at the start:
whether confirmation mode is on, whether runtime, memory and LLM may fail, and the
iteration limit. `Reliable` and `Fragile` have confirmation mode on, without failures
and with them, and not every action needs a confirmation there; so what happens in
`Free`, with the mode off, happens in `Fragile` too. The user always acts on a screen that
may be late (`Show` is a step of its own); `misled` notes which actions were put on the
stream again by an answer that he gave to another one.
The runtime executes one action at a time because it has one pool worker.

**Condensing.** `View`, `Masked`, `Window` and `Summarize` are the code's functions,
as operators on the history; an event's id is its place in it. `CondenseForRequest`
and `CondenseForSize` are steps in which the pipeline returns a condensation, `Act`
and `Answer` those in which the LLM is asked. `RequestCondensation` stands for the
LLM's refusal of a long context, in the agent or in the summarizer, and for the
agent's own request. A summary is the set of events it `tells` of. A view that is too
long and has nothing to tell is not condensed: the code raises there (6.14). The
comprehensions of `view.py` and `bash.py` are `AtPlaces` of `Subsequences`, which picks
the places by counting and not by recursion, so that it can be proved about.

**ConversationManager.** `MaybeStart` is the look-up and, when there is room, the
creation without an await; `NotifyOldest`, `CloseOldest`, `OldestClosed`, `Admit`
the loop over the snapshot at the limit. The oldest is any of the snapshot, as
times of the last update are not modelled. A closer is a run of `_close_session`:
`CloseBegin` or `CloseOldest` note its connections, `Kick` shuts them down one by
one and finally pops the session, `CloseAgentSession` and `CloseWaited` close it; the
latter has both outcomes of the test after a nap, and `overdue` is a close that waits
for a start-up of more than 90 seconds. Each of the closers can be at work on one
conversation at the same time. `CleanupPick` decides, `CleanupClose` acts, later, and
`CleanupTimesOut` is the time-out of `wait_all`, which cancels the closes that are not
done. Calls overlap freely: `Replaced` marks the session that a second call for the
same conversation drops from the dictionary. `StartSession` to `StartFails` are
`AgentSession.start`: `StartSession` goes up to `connect()` (the awaits before it do not
suspend), where the session has its runtime; `ConnectRuntime` brings the sandbox up, also
when the runtime has been closed by then, since nothing in `connect()` looks at that.
`runtime.close`, which a thread of an executor does, is merged with its submission.

**Attached.** `ReuseActive`, `ReuseDetached` and `NewConv` are the three ways through
`attach_to_conversation`; `ConnectOk`, `ConnectFails` and `ConnectRaises` the ends of
`connect`, for which the lock is held (`lockedBy`). `SessionMade`, `SessionRuntime`
and `SessionClosed` are what a session does to the stream and its subscriber; its
own life is in `ConversationManager`.

**Cluster.** A slot is a session from the creation of its entry (`TryStart`) to its
end; `CountRunning`, `EvictOldest`, `RegisterSession` are the limit and the
registration, `DeleteEntry` and `CloseSession` the end of `_close_session`.
`BuildPipeline` and `ExecutePipeline` are the refresh. `inbox` holds the messages on
their way to a server; `LoseMessage`, a full inbox and `Vanish` lose them.

**TokenRefresh.** `ReadTokens` is the path without a lock, `LockRow` the one with it
and the second check; `TokenIssued`, `Refused`, `AnswerLost`, `KilledUncommitted` and
`CommitTokens` the ends of a refresh, `DeleteTokens` what any failure leads to.
`FetchTokens`, `SelectRow` and `WriteRow` are a login.

**BashSession.** `Start` and `Refuse` begin a call, `SendKeys` types, `Complete` and
`TimesOut` are the ends of the polling loop. Clearing the screen is two steps, as
`_clear_screen` types C-l (`Complete`) and clears the history a tenth of a second later
(`ClearScreen`), whether the shell has read the C-l or not. `Read`, `PrintOutput` and
`Finish` are the terminal and the program, external; a program may ignore C-c. The pane
is a sequence of prompts, echoes and numbered pieces of output, of which what the last
C-l has `scrolled` out is history. `misread` becomes true when the session looks at the
pane, or clears it, while keys are unread, and when a line of input reaches the shell
because its program has ended: after that the session may be wrong about the shell.

**WebHookMirror.** `ChangeFile` is the change without the lock, `QueueUpdate` the part
with it; `TimerFires` is the moment after which `cancel` no longer stops a timer's
thread, `EnqueueFromTimer` what that does when it gets the lock; `Flush` and
`FlushEnds` bracket the sending under the lock; `Post` is an attempt.

## 3. Runs

Those that must pass:

| run | instance | checks | shows |
|---|---|---|---|
| `EventStream_threads` | 2 writers × 2 events, page of 2, callback 1 comes and goes, 2 stays | `TypeOK NoGap NothingLost QuietWhenOff` | the interleavings of `add_event` do not skip ids; delivery loses nothing and stops with `unsubscribe` |
| `EventStream_crash` | 2 writers × 2 events, page of 2, local files, 2 kills | `SeenIsStored SearchAgrees SeenInCallOrder StoredForever ImplementsLog` | nobody has seen what a restart forgets; nothing complete is overwritten; pages of different threads and processes agree with the files; calls that do not overlap are seen in their order; the stream implements `DurableLog` |
| `EventStream_live` | 2 writers × 1 event, an unlocked reader of `cur_id`, 2 callbacks, a shutdown of the process at any time | `EventuallySeen CloseReturns` | delivery and shutdown |
| `AgentController_live` | two modes, without failures (limit 2) and with them (limit 1), a screen that may be late, stops, 2 inputs | `TypeOK PendingAnswerable NoStall ExecutedOnce ApprovedOnly LimitNeedsUser Rests` | the confirmation protocol, recovery from failures, the iteration limit, and that the agent comes to rest in a state that says so |
| `Servers` | the seven parts below, each by itself | 21 properties | what the table below says |

`Servers` checks modules that share no state in one run: `part` is chosen at the
start and only that part moves (`MCServers`), so the states are those of the parts
added up.

| part | instance | properties |
|---|---|---|
| `ConversationManager` | 2 calls that may overlap, 2 conversations, limit 1 | `TypeOK NoOrphan`; `GoneIsStopped CallReturns` |
| `Attached` | 2 requests, 2 sessions one after the other, 3 objects | `UsedStaysConnected`; `UnusedIsReleased` |
| `Cluster` | 2 servers, 2 conversations, limit 1, 2 sessions at a time, 2 calls, 1 failure, messages lost | `ClusterTypeOK OneLoop Announced`; `Recovers` |
| `TokenRefresh` | 2 requests, 1 login, 3 pairs, 1 lost answer or kill | `PresentedOnce StoredUsable`; `RequestEnds` |
| `BashSession` | 3 calls of any kind, 2 pieces of output, programs that may ignore C-c | `CompletedIsOver OutputOnce` |
| `WebHookMirror` | 1 thread, 2 paths, 3 changes, batches of at most 2, 1 flush | `NeverStranded`; `EventuallySent` |
| `Condensing` | history of 18, views of at most 8, 2 messages, 2 requests, browsing or not | `TaskKept SummaryTellsAll CondensedOnce` |

`PartsTypeOK` joins the type invariants of the parts that have no other.

Those that find a disagreement between the code and what it says:

| run | property violated | what happens |
|---|---|---|
| `EventStream_leave` | `DispatcherSurvives` | `subscribe` registers a callback before its pool (`events/stream.py:147-148`); an event dispatched in between raises in the queue thread, which ends: no subscriber gets another event. `unsubscribe` opens the same window (`125-128`) |
| `AgentController_recall` | `FailureReported` | a recall fails and is the last event: its error status waits on the loop of the memory's thread, which has stopped (`memory/memory.py:391`), and the agent stays in `RUNNING` with the recall pending |
| `ConversationManager_leak` | `SandboxReleased` | `AgentSession.close` naps once while the session starts and goes on (`server/session/agent_session.py:242`: the test is inverted); it closes the runtime while `connect()` is in progress, and the sandbox comes up after that |
| `ConversationManager_limit` | `WithinLimit` | a call at the limit closes the oldest conversation, another call takes the free place meanwhile, and both make their loops (`server/conversation_manager/standalone_conversation_manager.py:327`) |
| `Attached_stale` | `SharesStream` | a conversation that was attached before its session began is reused, with the event stream it has, while the session writes to another (`server/conversation_manager/standalone_conversation_manager.py:111`) |
| `BashSession_early` | `TrulyOver` | the pane is looked at before the shell has echoed the keys; the old prompt at its end reports the command as completed (`runtime/utils/bash.py:644`) |
| `Condensing_target` | `SummarizedToTarget` | masked browser outputs stay in the view after a summary, which is larger than its target (`memory/condenser/impl/llm_summarizing_condenser.py:67`) |

*Bounds.* Two writers suffice to overtake each other, and with a page of two
each page has an event of either; two kills put a page boundary inside an
earlier process. Two inputs let a message meet a confirmation or a stop, and a
screen be late for either; the limit (`delta`) of one is reached and extended within
them. Two calls on two conversations above a limit of one evict each other's, and
replace each other's session; to exceed the limit takes three, in
`ConversationManager_limit`. A conversation attached before, during and after a
session needs two requests and three objects. Two servers are the one that runs a
conversation and the one that takes it over. Three pairs are two refreshes, or one
and a login. Three shell calls time a command out, give it a line or interrupt it,
and run the next. Three changes fill a batch of two and leave one for the timer.
Eighteen events hold two summaries with a window between them; `KeepFirst` is 2 with
a `MaxSize` of 8, for the server's 4 with 240 by default, which keeps `KeepFirst + 1`
below the target size as there. What wider instances could add for the proved
properties section 5 settles for every number.

*What the passing runs leave out*, because the code does not guarantee more: the
unlocked reader of `cur_id` takes part in the liveness run only (6.2), and entries in
Redis do not time out while their server keeps them (section 7). Everything else that
goes wrong is in the runs, and the properties name what they except:

| property | except |
|---|---|
| `SearchAgrees` | a page that a kill left torn, and the ids a kill took from events that were on a page and not yet in a file (6.3) |
| `SeenInCallOrder` | calls that overlap (6.1) |
| `ExecutedOnce`, `ApprovedOnly` | actions put on the stream again by an answer that the user gave to another one, `misled` (6.4) |
| `PendingAnswerable`, `NoStall`, `Rests` | a recall whose failure is the last event, `Stranded` (6.20); an answer of the user that finds nothing pending, `Overtaken`, or a recall, `Resent` (6.4) |
| `NoOrphan`, `GoneIsStopped` | sessions replaced by a second call for their conversation, and those whose close the clean-up's time-out cancelled (6.7) |
| `UnusedIsReleased` | an object whose `connect` raised what nobody catches, `lost` (6.8) |
| `PresentedOnce`, `StoredUsable` | histories in which an answer of the provider was lost |
| `CompletedIsOver`, `OutputOnce` | after the pane was misread, or a line reached the shell, `misread` (6.9, 6.12) |
| `SummaryTellsAll` | what `Untold` lists: ids a window had taken out, condensations and requests, and masked outputs inside the range (6.14) |
| `CondensedOnce` | agents that browse (6.14) |

Deadlock checking is off: a closed stream, an agent at rest whose user has no
inputs left, and a server without calls may stop. That nothing stops too early
is what `NoStall`, `Rests`, `CloseReturns`, `CallReturns`, `Recovers`, `RequestEnds`
and `EventuallySent` say.

## 4. Fairness

Weak fairness only, of steps that nothing can hold up for ever.

`EventStream`: a thread inside `add_event`, the queue thread, each pool worker
and a `close` that has begun are scheduled; nobody must call anything. The lock
needs no strong fairness: its holder waits for nothing else, and only as many
calls as the bound allows compete.
`AgentController`: while one of the pool threads of controller, memory, runtime and
client, the session loop, or an LLM call (it has a timeout) can go on, one of them does;
none has work for ever unless the user adds to it. The user need not act, so no further
event comes by itself to a memory that waits for one.

`MCServers` states the rest, per part. `ConversationManager`: a task whose await has
returned goes on, and awaits return; nobody must connect, disconnect or close, and the
clean-up need not run out of time. A start-up may fail at any phase. `Attached`: a
connection attempt and a request end, and the clean-up task, which runs every 15
seconds, comes round. `Cluster`: a server's tasks go on while it is up, Redis drops
what has timed out; clients, API calls, the network and failures are free.
`TokenRefresh`: a request goes on; the provider answers or the HTTP client times out;
a waiter for the lock times out. `WebHookMirror`: threads that can go on do, so timers
fire and attempts end; changes and flushes are free. Nothing is said of the progress
of `BashSession` and `Condensing`.

## 5. Proofs

`EventStreamProofs` holds for any set of threads, callbacks and page size, both
kinds of file store and any number of kills.

- `TypeCorrect`: `Spec => []TypeOK`. `TypeOK` alone is not inductive: the next id
  is above all ids on disk only if there is a bound, so the invariant adds
  `Bounded`. `LeastNat` gives that the `CHOOSE` of `NextFree` exists.
  `TypeOK` includes that the lock has one holder and that `cur_id` is computed
  when it is held.
- `LogIsAppendOnly`: with `Readers = {}`, `StoredForever`. The invariant adds
  `Flight`: ids in the hands of threads are pairwise distinct, below `cur_id`, and
  not on disk until their owner writes them; all ids on disk are below `cur_id`
  once it is computed. Then a step that writes a file writes an absent or torn one.
- `SeenSurvives`: with `Readers = {}`, `SeenIsStored`. `Durable` says of each
  stage after the write (the thread's hands, the queue, the queue thread, the pools,
  what was seen) that its entries are on disk; `StaysOnDisk`, from the append-only
  step, carries this from step to step.
- `NoIdIsSkipped`: with `Readers = {}`, `NoGap`. `EmptyAtFirst` says that without a
  kill `cur_id` is computed from an empty store, so the first id is 0; a thread that
  has left `add_event` has left its file (`HandsDurable`, a part of `Durable`).

The assumption `Readers = {}` says that `cur_id` is computed under the lock only;
without it the last three properties are false (6.2).

- `PagesAgree`: with `Readers = {}`, `SearchAgrees`. What is stored as a page must be
  what the files say now and after every restart. Its events may not be in their files
  yet, as they are in the hands of other threads, and a kill may see to it that they
  never are. `Stored` says which of these it is: on disk, in hands before the file is
  complete, or `lost`; `CacheDurable` says that of the entries of a stored page, under the
  page's ids, and `PagesDurable` of the pages in memory and in writers' hands.
  `PagesShape` says that the ids of a page are consecutive and that the last page ends
  just below `cur_id`. A page that a new process begins in the middle of a block is
  stored under its first id, where no search looks.
- `CallsInOrder`: with `Readers = {}`, `SeenInCallOrder`. `prior` has the pairs of events
  of which the first was queued before the `add_event` of the second began. `QueuedInv`
  says that what was queued is on disk, so a later call takes a higher id; `Orderly` that
  the queue, the queue thread, the pool and what was seen are in an order that agrees
  with `prior`, each by itself and one after the other.

What happens after the file is written needs no assumption on readers or writers:

- `NothingIsLost`: `Spec => []NothingLost`, so for every callback that stays
  subscribed, what it has seen, its pool, the queue thread's hands and the queue
  make up what was put, until the stream is closed or the queue thread dies. The
  invariant adds `Serving`, which ties the queue thread's sets of keys and pools
  still to serve to the callbacks that are registered: without it `Submit` could
  miss one. The lemmas say what each move of an event (put, take, submit, call)
  does to the concatenation.
- `QuietAfterLeaving`: `QuietWhenOff`. `Pooled` says that a pool is open only while its
  callback is subscribed, and has no work left once `unsubscribe` has shut it down.

The refinement:

- `StreamIsALog`: with `Readers = {}`, `ImplementsLog`, that is `DurableLog`'s
  specification under the mapping. A step that completes a file adds one entry under
  a new id (from the append-only step); a callback is called with an entry of the log
  (from `Durable`) it has not seen. For the latter the invariant adds `OnceInv`: along
  the path from the threads' hands over the queue to a callback an id occurs once.

`AgentControllerProofs` holds for any set of modes with any limits, and any number of
inputs. Each of its invariants is proved from those before it. The handlers are
functions from one state of the controller to the next, so most lemmas are about
these: what `SetState`, `Reset`, `React`, the handlers and the ends of a step do to the
queues.

- `TypeCorrect`: `TypeOK`. The invariant `Typed` adds `Routed`: what a queue can hold,
  since a `ChangeState` that was put on the stream again would set no agent state; and
  `Thinking`: nothing is pending while an LLM call is in progress.
- `LimitIsTheUsers`: `LimitNeedsUser`. The limit is extended when `RUNNING` follows an
  `ERROR` at a limit that was hit, and the invariant is an account: `Budget` says that
  the limit, and an extension for each message in the controller's queue, are within
  what the inputs pay for. The session's own first message and `RUNNING` pay nothing;
  `Beginning` says that no limit is hit before they are handled.
- `ActionsOnce` and `HeldNeedApproval`: `ExecutedOnce` and `ApprovedOnly`. Buttons name no
  action, so what counts is what the user saw when he clicked. `Asking` says of the actions
  on the screen, on their way to it and in clicks on their way from it that each is there
  once (`Apart`), that a pending one among these still awaits its confirmation or is
  `misled` (`Untaken`), and that a click that confirms is for an action he approved
  (`Confirming`). `Counted` says that an action which waits for the runtime, or for its
  confirmation, has not been executed, waits once, and was approved if it was held, or is
  `misled`.
- `AnswersCome` and `NeverStalls`: `PendingAnswerable` and `NoStall`. `Working` has three
  parts: `Named` (ids in the queues and of the pending action are below the next one, and a
  recall is put on the stream again in no running state), `Waiting` (a pending action in
  `RUNNING` or after an answer of the user is `Due`: it or its observation is on its way, an
  error status is, or it is one of the exceptions) and `Stepping` (a running agent with
  nothing pending has an event coming).

None of these assumes anything of the user, of the delay of his screen, or of failures.

`ConversationManagerProofs` holds for any finite set of conversations, any set of
calls and any limit above zero.

- `TypeCorrect`: `Spec => []TypeOK`. The invariant `Shape` adds to what session and
  conversation the locals of a call and of a closer refer, since these index the
  list of sessions.
- `NothingIsLost`: `Spec => []NoOrphan`, without an assumption on which calls, closes,
  clean-ups and disconnects overlap. `Kept` is the property of one session. The lemmas say
  what a step does to it: a session made by a call marks the one it replaces
  (`KeptOneMore`), a closer that pops one has it in hand until it is closed (`KeptClosed`),
  and all other steps leave it as it is (`KeptSame`).

That the limit holds is not proved: `ConversationManager_limit` shows that it does not.

`ClusterProofs` holds for any servers, conversations, limit, and numbers of sessions,
messages, calls and failures.

- `ClusterTypes`, `ClusterOneLoop`, `ClusterAnnounced`: `ClusterTypeOK`, `OneLoop`,
  `Announced`. The latter two are not inductive: a popped session still has to delete
  its entry, and would delete that of another. `Kept` says it of all sessions that
  hold an entry (`Held`), the popped ones included: theirs is there, and theirs only.
  They rest on the guard of `Expire`, the assumption on timing of section 7.

`BashSessionProofs` holds for any number of calls, of lines of input and other keys among
them, any pieces of output, keys read at any time and programs that ignore C-c.

- `CompletedCommandsAreOver`: `CompletedIsOver`. The session knows the shell from the
  pane only, so the invariant says when that is right: `BashInv` is that the pane was
  `misread` or all of `Right`. `PaneShape`: the pane ends with a prompt if and only if the
  shell is idle. `CountedBefore`: a command was counted while the shell was idle, so there
  is one prompt more only when its own has come. `CallShape` and `AtOnePrompt`: which keys
  can be unread in which phase of a call, and that a session between commands has an idle
  shell and one prompt.
- `ReportedOnce`: `OutputOnce`. An observation is the text of the pane without what
  was in the one before, and the screen is cleared now and then. `ReportsAddUp` accounts
  for it: the text of the pane is the last observation followed by some rest, and the
  output in the rest continues what was reported to all that was printed. `AddsUp` is that,
  or `misread`.
- `BashTypes`: `BashTypeOK`, a part of `PartsTypeOK`.

`CondensingProofs` holds for any sizes the constructor accepts (less one, see 6.14), any
attention window, and any number of events, messages and requests.

- `TaskStays`: with `KeepFirst >= 2`, `TaskKept`. `Headed` says that no condensation
  forgets ids 1 and 2; then these lead every view, with their own ids and before the
  place a summary is put at, and neither the window nor the summary takes them.
  The hypothesis is the server's configuration (four); with one, the condenser's default,
  the user's first message goes into the first summary.
- `SummariesTell`: `SummaryTellsAll`. `SummariesAddUp` compares any two summaries; a step
  compares the new one with the last, which in a view that is too long is the element
  after the head (`SummaryIsThere`): that is where the code looks for it.
  `SummaryAccounts` says of each summary that it tells of what it forgets, but for the
  `Untold`. A new one forgets a range of ids, from the least that it tells of to the
  greatest (`NewAccounts`): an id in that range that it does not tell of is not in the
  view, or is there as a masked output, and then enough outputs came later
  (`MaskedAreOld`). `StillUntold`: that does not change.
- `CondensingEnds`: `CondensedOnce`. `EndsSoon` says that a window never follows a
  condensation, as the request is then handled, and that after a summary the view of an
  agent that does not browse has the target size at most, so that it is not
  condensed again. That is a count (`FewUntold`, `SummaryShrinks`): what a summary does
  not forget is the head and the tail.
- `TargetReached`: for agents that do not browse, `SummarizedToTarget`, which
  `Condensing_target` shows to be false for those that do.
- `CondensingTypes`: `CondenseTypeOK`, a part of `PartsTypeOK`.

`SubsequenceTheorems` has what both rest on. A selection defined by recursion would need
an induction over sequences for each fact about it. `Rank` counts the places up to one,
`Place` finds the one of a rank, and the lemmas follow from what the library says of
cardinalities: each chosen element is there once and in order (`AtPlacesType`,
`PlaceGrows`), and what a longer sequence adds comes at the end (`AtPlacesAppend`).

`ServerPartsProofs` is about four things.

- Attached conversations, for any requests, sessions and objects.
  `UserKeepsConversation`: `UsedStaysConnected`. The invariant says what the reference
  count is (`Counted`): the number of requests that use the active conversation, and
  all users use that one, so a `detach` or a clean-up that moves it or disconnects it
  finds no user. `Listed` adds that the active and the detached conversation are
  connected and different, `Connecting` that neither exists while a request connects
  a new one, with the lock.
- Web hooks, for any threads, paths, sizes, and numbers of changes and flushes.
  `NothingIsStranded`: `NeverStranded`. The end of `flush` cancels a timer that is not
  its own; `StrandInv` says why that is safe: the lock it holds keeps the batch empty.
  `NothingIsDropped`: the last change queued for a path is in the batch, in one being
  sent, at the hook or given up; `Unsettled` adds that a path that is not settled has
  had a change queued, which tells its change from a path the batch does not have.
  `SizeIsKept`: `batchSize`, which is added to and subtracted from, is the number of bytes
  in the batch, also when a change replaces another one.
- Tokens, for any requests and logins. `RefreshedOnce` and `StoredStaysUsable`:
  `PresentedOnce` and `StoredUsable`. `Held` says that the lock protects a row and that
  whoever asks the provider presents the row's token; `Unused` that, if no answer was
  lost, the tokens in the hands of somebody who is about to store them are fresh and
  pairwise different, and the row's is unless its successor is about to be committed.
  `Bounded` gives that a newly issued pair is none of these. `TokenTypesHold` is the type
  invariant.
- All parts. `PartsHaveTypes`: `PartsTypeOK` of `ServersSpec`, the specification that the
  run checks. A step of one part leaves the variables of the others as they are
  (`StepOfParts`), so the invariants of the parts hold side by side. There are no further
  hypotheses.

Only model-checked are the liveness properties, as fairness and `ENABLED` are outside the
proof system: `EventuallySeen`, `CloseReturns`, `Rests`, `GoneIsStopped`, `CallReturns`,
`UnusedIsReleased`, `Recovers`, `RequestEnds`, `EventuallySent`. Every other property of
the runs that must pass is stated by a theorem.

## 6. Known deviations

1 to 5, 7 to 14 and 20 were found with these modules, by dropping an exception of a
property, by changing the constants or by checking the property named, and are
reproducible that way where one is named; they are the reason for what section 3
excepts and leaves out. The others were met on reading the code.

1. *Order of delivery.* Two writers whose calls overlap: the queue is filled outside the
   lock (`events/stream.py:203`), so a subscriber may see a later id first; what holds
   is `SeenInCallOrder`. `events/action/agent.py:115` assumes monotone ids.
2. *`cur_id` without the lock* (`events/event_store.py:56`): a reader that listed the
   directory before `add_event` wrote, and assigns after it, resets the counter; the
   next event gets the same id and overwrites the file (`StoredForever` fails with a
   reader). Two such readers can also make it skip one: the second one assigns between
   an `add_event`'s taking the id and its increment (`NoGap` fails with two readers).
3. *Pages and crashes.* With two writers a page may be stored before the file of one
   of its events (`events/stream.py:202`); after a kill the id is given out again but
   the page is what is read. On local files a page that is truncated and not written
   raises `JSONDecodeError` instead of being bypassed. `SearchAgrees` excepts both and
   fails without either exception.
4. *Late confirmation* (`controller/agent_controller.py:700-711`). A message can replace
   the held action while the screen still shows it, and the button, clicked then, puts
   whatever is pending on the stream again: an action the user has not seen is confirmed,
   or one that is running already is run twice (`misled` in `ApprovedOnly` and
   `ExecutedOnce`), or a recall is put there that the memory ignores (`Resent`). Also with
   an up-to-date screen, a failure between the click and its handling resets the
   confirmed action, and the agent stays in `USER_CONFIRMED` or `USER_REJECTED` with
   nothing pending, looking busy until the user writes (`Overtaken`).
5. *"The action has not been executed"* (`agent_controller.py:107`, `649-665`) is said
   of an action that the runtime is executing or will execute. And an action that a
   message replaces while it awaits its confirmation never gets an observation
   (`agent_controller.py:601`): the history has a tool call without a result.
6. *`RATE_LIMITED`* (`agent_controller.py:371`) says "still retrying", but nothing
   steps the agent again; `Rests` counts it as rest.
7. *Overlapping calls, closes and clean-ups* (`standalone_conversation_manager.py:317-362`).
   Two calls for one conversation create two sessions, the first is unreachable
   (`NoOrphan` excepts it as `dropped`); two calls at the limit count before and create
   after their awaits and exceed it: `ConversationManager_limit`. A clean-up that runs out
   of time cancels closes half done (`222-225`): the session is out of the dictionary and
   keeps running. A conversation opened while its old session is being closed has two
   live event streams; a client that joins during the close is registered with a session
   that is then taken away (`589-591`). A session closed during `connect()` leaves its
   sandbox up: `ConversationManager_leak`.
8. *A conversation attached while its session starts* (`server/session/conversation.py:46`)
   has the session's stream and a runtime of its own. That takes the subscriber's place,
   so the session's own runtime raises; and when it is disconnected it closes the
   session's live stream (`SessionStreamOpen` in `Attached` fails). One attached before
   the session keeps its own stream (`Attached_stale`). One whose `connect` raises something
   else than that the runtime is unavailable is never disconnected, as only that is caught
   (`standalone_conversation_manager.py:144-152`): `UnusedIsReleased` fails without its
   exception `lost`.
9. *Early completion in the shell*: `BashSession_early`. The command's output then
   turns up in a later observation, or in none when the screen is cleared. The clearing
   itself waits a tenth of a second for the shell to read C-l (`runtime/utils/bash.py:303-307`):
   if it has not, the old text stays in the pane and is reported again. All this is
   `misread` in `CompletedIsOver` and `OutputOnce`.
10. *Tokens that still work are deleted* (`GoodTokensKept` in `TokenRefresh` fails): any
    failure deletes the row, also a time-out of the lock, which at 5 seconds
    (`src/enterprise/storage/auth_token_store.py:173`) is shorter than the 15 of the
    request its holder waits for; and the row is found by an id that was read at the
    start. `src/enterprise/server/routes/integration/slack.py:217` stores a pair that Keycloak has kept from
    an earlier login, which may be used up.
11. *Cluster.* An entry is deleted before its session is closed
    (`clustered_conversation_manager.py:651`), so another server may start the
    conversation while the old session still writes (`NoOverlap` fails). The limit does
    not hold (`WithinClusterLimit` fails): a start may pick itself as the one to close,
    other servers only hear of it, and the take-over tests for more than the limit plus
    one. A conversation closed by the API is started again by a server with a client.
12. *A line for a program that has ended* (`runtime/utils/bash.py:585`) is run as a
    command, and its prompt is taken for that of the next command (`misread`); and a
    program that ends between the check and the keys lets a command be typed into the next
    prompt with the old output still in the pane.
13. *Order at the mirror* (`storage/batched_web_hook.py:216`): batches are sent by a pool
    and by `flush` side by side, so a later state of a file may be overwritten by an
    earlier one; a failed attempt that arrived is sent again.
14. *Masked outputs pile up*: `Condensing_target`. With `keep_first = max_size // 2 - 1`,
    which the constructor allows, the slice to be summarized can be empty and `min`
    raises; the server's configurations stay clear of that, unless a view consists of
    masked outputs: these are not told again, so they pile up until nothing in the slice
    can be, and `min` raises as well (`llm_summarizing_condenser.py:67-69`, then
    `153-154`). A masked output inside the range that is forgotten is skipped among what the
    summary is made of and forgotten with the range: no summary tells of it (`Untold`).
15. *The context-window loop is not detected* (`controller/stuck.py:409`): the detector
    counts `AgentCondensationObservation`s, which are part of views and never enter the
    history. When only essential events are left the window forgets nothing, and a
    model that still refuses is asked until the iteration limit.
16. *Replay and join* (`server/listen_socket.py:105`): events added between the last read
    of the replay and the entry into the room reach the client neither way.
17. *Sandboxes at the limit* (`app_server/sandbox/remote_sandbox_service.py:615-632`): the
    list is newest first although the comment takes its front for the oldest, and its
    rows have no `id`, so nothing is paused.
18. *Loop recovery* (`agent_controller.py:1341`) sets the state's `end_id`, which nothing
    resets although history is to be loaded "always" from the stream (`1119`). Views are
    cached by the length of the history (`controller/state/state.py:309`), which a recovery
    can bring back to an earlier value.
19. *Read, then write, without a lock*, in `src/enterprise/`:
    `server/routes/billing.py:230-300`, `server/saas_nested_conversation_manager.py:199-226`,
    `storage/proactive_conversation_store.py:46-128`, `storage/device_code_store.py:91-142`.
20. *A failure of the memory that nobody hears of*: `AgentController_recall`. The status is
    scheduled on the loop that runs the memory's handler (`memory/memory.py:385-393`), which
    `run_until_complete` (`89`) stops before the status is sent; it is sent with the next
    event that reaches the memory, if one does. Until then the agent is `RUNNING` with the
    recall pending (`Stranded` in `PendingAnswerable`, `NoStall` and `Rests`).

## 7. Not modelled, and why

*Text*: prompts, parsing of LLM answers, formatting, secret masking (`update_secrets`),
matching of microagents, the stuck detector's comparisons, the diffs and tables of the
front end. *Processes and I/O*: runtimes, containers, browsers, LLM calls.
*Stateless or single-document code*: REST routes, settings, secrets, configuration,
CRUD over a database, one-shot scripts. These are most of the repository's lines.
*One actor*: replay of trajectories (a list), start tasks of the V1 server (a chain of
awaits), event callbacks (one after the other), the headless main loop. *Nothing to
search*: the gap of 6.16 and the limit of 6.17 fail on every path. *Foreign code*:
vendored directories; the provider, Redis, tmux, the shell and the file stores are
external and modelled by how the code uses them.

Left out of the modules:

- `EventStream`: several callbacks of one subscriber; the secrets table.
- `AgentController`: delegates (this repository's agents do not nest), loop recovery
  (only a client that sends its action reaches it, and the front end does not), replay,
  the budget flag, the saving of `State`, the queue of further tool calls of one LLM
  answer, and the stuck detector, which may stop a real agent where the model goes on.
- `ConversationManager`: times of the last update, and forwarding of events, a look-up.
- `Attached`: one conversation, and `close_delay` as "later".
- `Cluster`: entries for connections, the messages `event` and `llm_completion`, an
  orderly shutdown. *Assumption:* the entry of a session does not time out while its
  server is up and keeps it (`Keeping`): it is refreshed every 5 of 15 seconds. A start
  that waits more than 15 seconds for an eviction would break this, as an entry is not
  refreshed before its session is registered. `CloseIdle` leaves out the look at the
  connections other servers have noted (`clustered_conversation_manager.py:570-576`), so it
  may close more than the code does.
- `TokenRefresh`: offline tokens, Keycloak, encryption; one user and one provider. The
  pair a login stores is taken as issued for it (but see 6.10).
- `BashSession`: the history limit of the pane; the action server runs one call at a
  time. `windows_bash.py` is another program with the same interface.
- `WebHookMirror`: `web_hook.py`, which sends each change by itself.
- `Condensing`: a user's message and its recall enter the history in one step; one tool
  call per LLM answer; an agent browses always or never; the other condensers.

## 8. What could follow

Delegates and the queue of further tool calls in `AgentController`; that each part
implements an abstract specification of what it promises, as the event stream does;
refinements that put the parts together, with the queues of `AgentController` as an
instance of the delivery in `EventStream`; a client that replays and joins, once the
gap of 6.16 is closed; and for each repaired deviation, the property without the exception
of section 3 that it lifts.

## 9. Running

`tlc -config EventStream_threads.cfg MCEventStream.tla`, and so on for the pairs
listed in PROJECT.json; `tlapm` on each of the seven modules named `…Proofs` and on
`SubsequenceTheorems`. The largest run takes about two and a half minutes on two workers.
Definitions commented "Mutant …" are plausible mistakes; each makes TLC report the
property PROJECT.json pairs it with, which shows that the property can fail.
