# TEN framework runtime: TLA+ models, model checking and proofs

This directory specifies the core of the TEN runtime (`core/src/ten_runtime`):
how results of commands find their way back, how an extension lives and dies,
how a graph is started and closed, how the apps of a graph connect to each other,
how an app ends, how a client's connection moves from the app to an engine, and the
runloop and the lock mode all of this rests on. All paths below are relative to
`src/core/src/ten_runtime/` unless they begin with `src/` or `ten_utils/`
(`src/core/src/ten_utils/`).

## 1. The system

An *app* runs one *engine* per graph. An engine owns an *extension context*,
which owns one *extension thread* per *extension group*; every thread runs the
*extensions* of its group on one *runloop* (a queue of tasks any thread may
append to). Extensions exchange messages (commands, command results, data,
audio and video frames). Everything that belongs to an extension runs on its
thread; other threads reach it only through a *ten_env_proxy*.

| component | state it keeps | operations | hard behaviour | what makes it correct |
|---|---|---|---|---|
| path table, path groups (`path/`) | IN and OUT paths, groups with a result return policy, final marks, cached results | send, receive, return, process result | results in any order, late results, timer between two results | one completed result per handler, groups whole, policy obeyed |
| path timers, final flush (`extension/internal/`) | expiry times, timers | tick, flush, close timers | fabricated errors race real results, handlers send from inside a callback | every handler is called in the end |
| extension (`extension/`) | state, queue of early messages, trigger commands, timers, proxies | five callbacks and their done calls, messages, trigger commands, deletion | a close request in every stage, nested calls in `on_init_done` | callbacks in order, nothing used after deletion, no command lost |
| ten_env_proxy (`ten_env_proxy/`) | holders | create, notify, release | other threads, release during `on_deinit_done` | the extension outlives its proxies |
| lock mode (`ten_env_proxy/internal/`, `extension_thread/msg_interface/common.c`) | two kinds of mutex, `in_lock_mode`, the owner | acquire, release, synchronous notify | an outer thread waits with two locks for a task of the thread it stops; the lock is handed on | one thread in the TEN world, everyone gets his turn |
| runloop (`ten_utils/io/general/loops/`) | list of tasks, mutex, async signal | post, run, stop | a post notifies only an empty list; the stop closes the signal under the posters | a queue: order kept, every accepted task run |
| extension thread (`extension_thread/`) | state, `is_close_triggered`, extensions, counters | start, close, removal, end | close during creation; destroyed by the engine while tasks exist | destroyed last and once |
| extension group (`extension_group/`) | extensions being created | create, destroy | asynchronous answers, some of them failures | all answers are awaited |
| extension context, engine (`extension_context/`, `engine/`) | list of threads, counters of ready and closed threads, `is_closing` | start_graph, find extension info, close | unlocked read of a thread's flag; counter compared with a shrinking list | one answer to start_graph; closes when all is gone |
| engine remotes (`engine/internal/remote_interface.c`, `remote/`) | weak and strong remotes, start_graph commands in flight | create, connect, answer, close | the engine closes during a connect or a retry | one result per command, the engine ends last |
| protocol, timer (`protocol/`, `timer/`) | stream, retry timer, uncompleted tasks | connect, retry, close | stop and close of the timer are only posted; it may fire once more | the protocol outlives its stream and timer |
| start_graph between apps (`engine/msg_interface/`, `app/msg_interface/start_graph.c`) | commands waited for, the command that is kept | forward, answer | apps in a loop connect to each other at once and wait for each other | one channel per pair, an OK means started everywhere |
| app (`app/`) | state, engines, orphan connections, endpoint, proxies, messages | start, messages, start_graph, stop_graph, close | everything it holds closes on its own and in any order; other threads close it | `on_deinit` and the end of the loop come last, and come |
| connection migration (`connection/migration.c`, `app/migration.c`, `engine/internal/migration.c`) | migration state, lists, two streams, kept messages | first message, handshake, take-over, close | two threads and a blocking wait; messages that came with the first one | order kept, one thread at a time, nothing lost |
| addon manager, loaders | registry | create and destroy instances | dynamic loading | seen as an environment that answers |
| messages, conversion, schema, metadata | data | | | abstracted to outcomes |
| extension tester, graph proxy extension, bindings, `ten_utils`, `ten_rust`, `ten_manager`, `ai_agents/`, `packages/`, `third_party/` | | | | not part of the models |

The hazards these behaviours lead to are listed one by one, with their source
lines and the properties aimed at them, in `PROJECT.json`.

## 2. Modules

| module | models | with |
|---|---|---|
| `PathTable` | the path table of one extension with its timers and the final flush | |
| `ResultPromise` | abstract: what `ten_env_send_cmd` promises a caller with a handler | implemented by `PathTable` |
| `ExtensionLifeCycle` | one extension on its thread, with messages, trigger commands and proxies | |
| `GraphLifeCycle` | engine, extension context and extension threads starting and closing one graph | a cut-down extension |
| `Runloop` | the runloop of ten_utils over libuv | |
| `TaskQueue` | abstract: what a runloop promises | implemented by `Runloop`, used by all others |
| `LockMode` | lock mode of the proxies of one extension thread | the runloop as a queue |
| `RemoteConnect` | the remotes of one engine: creation, connect, retries, answers, loss, closing | timers and protocols |
| `AppChannels` | start_graph spreading over the apps of a graph | connects that succeed |
| `AppLifeCycle` | one app from `on_configure` to the end of its loop | cut-down engines and connections |
| `ConnectionMigration` | one client connection moving to an engine | the two loops as queues |
| `MC...` | instances for TLC | |
| `QueueLemmas` | facts about a queue: what is in it, once, at its end, before | used by four modules of proofs |
| `PathTableProofs`, `RemoteConnectProofs`, `ExtensionLifeCycleProofs`, `GraphLifeCycleProofs`, `AppChannelsProofs` | theorems about the module they are named after (section 4) | |
| `ThreadProofs` | theorems about `LockMode` and `Runloop` | |
| `AppProofs` | theorems about `ConnectionMigration` and `AppLifeCycle` | |

The modules fit together by what one assumes and another shows. A queue of tasks in
any of them is the `TaskQueue` that `Runloop` implements. `GraphLifeCycle` takes from
an extension what `ExtensionLifeCycle` does; `AppLifeCycle` takes from an engine that a
close leads to its end, which `GraphLifeCycle` (`StartedGraphCloses`) and
`RemoteConnect` (`EngineCloses`) show for its two halves; `AppChannels` takes the
connects that succeed from `RemoteConnect`; a connection that leaves the app in one
step of `AppLifeCycle` is followed through that step by `ConnectionMigration`.

Definitions whose comment begins with *Mutant:* are wrong variants of the
definition that follows them. No specification uses them; each one shows that a
property notices the mistake (`PROJECT.json`, "mutants").

### PathTable

A command sent to n destinations records n OUT paths `<<c, 1>> .. <<c, n>>`
(`ten_extension_dispatch_msg`, `ten_path_table_add_out_path`); for n > 1 they form
a group (`ten_paths_create_group`). `RecvResult` is a result that arrives:
`ten_path_table_process_cmd_result` has one disjunct per case of that function
(no path, single path, first error, last OK, each), and `Deliver` hands the result to
the handler or, without one, back upstream (`ten_env_return_result`). `OutPathTimer`
and `OnDeinitDone` collect error results in `batch`, and `FeedBatch` feeds them
through the same function one by one, so that the user's handler may act in between
(`SendCmd` is enabled then). `Expire` is the clock. The destinations are the
environment: they send some partial results and at most one final one, in any order
and arbitrarily late, or nothing.

Abstracted: a result is its status, `is_final`, `is_completed` and its origin.
Schema checks and conversions have a nondeterministic outcome (`RejectedBySchema`,
`ValidateIn`, `ConvertResult`), with the effect the code gives to a failure.

### ExtensionLifeCycle

`state` takes the values of `TEN_EXTENSION_STATE`, in their order, because the code
compares them. Each callback is called by the step that enters its state and each
`on_xxx_done` is one action, with everything the function calls. The exception is
`on_init_done`: it hands out queued messages before it looks at
`is_close_triggered`, so it is three actions (`OnInitDone`, `FlushMsg`,
`OnInitDoneEnd`) under `flushing`, which keeps other tasks of the thread out.
`tasks` holds the tasks of this extension in the runloop, in their order. A message
may arrive at any time (`QueueMsg`, `HandleMsg`, `RejectMsg`). The manual stages of
`property.json` are chosen when `on_configure_done` reads them. `TriggerClose` is
`on_triggering_close` of a thread whose life cycle has started; the case before
that belongs to `GraphLifeCycle`.

`calls`, `dones`, `arrived`, `handed` and `answer` record what the user and the
senders see; no guard reads them except to bound the inputs.

### GraphLifeCycle

Queues of tasks for the engine and every thread; one action per task. The addon
manager is the environment: it answers for every extension, with an instance or
without (`AddonCreated`), and destroys it later. `FindExtensionInfo` reads
`is_close_triggered` of another thread without a lock, so it may see the older value.
An extension is reduced to what its thread sees: `init`, in a callback, between two,
`stopping`, `deinit_done`; its own life is the previous module.

### Runloop and TaskQueue

`PostTask` is `ten_runloop_post_task_at` (front or tail) up to the notification and
`PostNotify` the rest, with the mutex held in between. `TaskAvailable` is the callback of
the libuv async handle, which folds notifications into one; it and `SignalClosed` start
the flush, which takes the tasks one by one with the mutex free while a task runs.
`StopLoop` sets `destroying` under the mutex, `CloseSignal` then closes the signal. Tasks may post and
stop. The refinement mapping to `TaskQueue` is direct (`tasks`, the running task,
`destroying`); what is shown by it is that the mutex, the folded notifications and the
last flush in `task_available_signal_closed` together lose nothing.

### LockMode

Every thread outside is a small program counter `at[t]`: it wants lock mode, waits for
`lock_mode_lock`, for the proxy's `lock`, for the suspend task, owns the TEN world, makes
a synchronous notify, leaves. `tasks` holds the suspend task (`acquire`), the task that
gives the lock back (`release`), notifications and the proxy tasks. The extension thread
has its own counter `ext_at`. Mutexes have no order of waiters.

### RemoteConnect

All callbacks run in the engine's thread, so an action is a callback with the whole chain
of calls it makes up to the engine (`Settle`). `st[r]` is remote, protocol, retry timer and
connect attempt of one peer; `eng` the engine, with the start_graph commands it waits for.
The transport may fail in the call or later, the peer may answer or disconnect.

### AppChannels

`conn[p]` is how far the connection from app `p[1]` to app `p[2]` is; the duplicate check
compares URIs, here numbers. An app that gets a second start_graph while its first one
waits answers as `start_graph.c` does. `aborted` holds apps whose `TEN_ASSERT` has failed.

### AppLifeCycle

`app` is a record: state, list of engines, orphan connections, endpoint, queue, loop. The
callbacks of the start read the state and set it in two steps (`checked`), because they do
so without `state_lock`; every other handler is one action. `config` is chosen in `Init`:
with an endpoint or not, an engine loop of its own or not, long-running mode or not.

### ConnectionMigration

`script` is what the client sends. `ten_stream_on_data` reads one or more messages at once;
`ten_protocol_on_inputs_based_on_migration_state` hands on the first and keeps the others. `Reads`
says when a loop may read: libuv calls the read callback up to 32 times in one turn
(`src/third_party/libuv/src/unix/stream.c:1039-1048`), so tasks that are waiting do not keep it from
reading. Only the first read of the engine's new stream comes behind the tasks of the take-over,
because the stream is watched after the loop was woken for them. `Stages` is the handshake of the two loops in `migrate.c`, step by step; then
`ten_stream_migrated` blocks the engine's thread (`waits`) until the app has closed the old
stream. `lists` says who has the connection and could close it. The app closes it at any time
(`AppCloses`); `cut` remembers that it was closed on its way, `putBack` which messages the engine
could not handle at once.

## 3. Runs

Every run finishes within five minutes on two workers, most within one.

| run | bounds | checks |
|---|---|---|
| `path_table` | 1 received command, forwarded or answered, 3 destinations, 1 partial result, schema and conversion faults, fairness | `TypeOK`, `GroupIntact`, `CompletedOnce`, `GroupResult`, `HandlersCalled`, `UpstreamFinalOnce`, refinement `KeepsPromise` with its liveness |
| `path_single` | 1 command, 1 destination, 1 partial result | expected to fail: `SingleResult` |
| `ext_life_cycle` | both stages manual or not, 1 command, 1 trigger of each kind, 2 proxies, fairness | `CallbackOrder`, `NoUseAfterDelete`, `CmdsAccounted`, `CloseCompletes` |
| `graph_close` | 2 threads, 2 names per group, 2 outside close requests, fairness | `ClosesInOrder`, `FindInfoExclusive`, `StartIsAnswered`, `StartedGraphCloses` |
| `runloop` | 2 posting threads and the loop, 4 tasks, fairness | `NoLostWakeup`, `StopAssertions`, `StopCompletes`, refinement `IsTaskQueue` with its liveness |
| `lock_mode` | 3 threads, two of them with one proxy, a third proxy that the extension thread holds, 4 calls, fairness | `WorldExclusive`, `LockModeAssertions`, `ProxyOutlivesUse`, `LockModeProgress` |
| `remote_connect` | 2 remotes, 2 retries, fairness | `ClosesBottomUp`, `ContextNeedsChannels`, `RemoteAnswered`, `EngineCloses` |
| `app_channels` | a ring of 5 apps and a sixth one behind it, the client at any of them, fairness | `OneChannel`, `StartedEverywhere`, `OnlySecondCommandFails`, `Settles` |
| `app_life_cycle` | 2 engines, one of them started by the app, 1 client, 1 proxy, 2 messages, all configurations, fairness | `EndsLast`, `CloseCompletes`, `KeptStopAnswered` |
| `app_close_holds` | 1 engine, 1 client, 1 proxy, 1 message, all configurations, closed by another thread and proxies given back at any time | `CloseHolds` |
| `connection_migration` | every script of up to 3 messages of any kind, engine with its own loop, fairness | `FrozenWhileMoving`, `InOrder`, `OneThread`, `OneHolder`, `AllHandled` |
| `connection_shared` | up to 3 messages, the first one for a graph, engine in the loop of the app | expected to fail: `NoAssertionFails` |

The type invariant of every module is a conjunct of one of its invariants (on its own in
`path_table`).

The two runs that are expected to fail are disagreements between the code and what a comment or an
assertion says of it; `PROJECT.json` quotes the lines ("findings"):

- `path_single`: `ten_env/internal/send.c:210-211` promises a handler a single, final result.
  With one destination there is no group, and `path/path_table.c:646` hands every partial result to
  it. `KeepsPromise` promises one *completed* result, for any number of destinations and partial results.
- `connection_shared`: `engine/internal/migration.c:79-81` says that the migration state must be
  set to done after the first command has been queued. With an engine in the app's loop
  `connection/migration.c:64` sets it before, and the connection is without a remote until the command is
  handled: a message that was kept, or that another read brings, ends in `TEN_ASSERT(0)` of
  `ten_connection_on_msgs`.

The passing runs reach further disagreements. The property of the run says exactly what goes wrong, and that
nothing else does; the behaviour itself is in the run and in the theorem:

- `OnlySecondCommandFails`: app 2 of the ring has a further neighbour 6. The command of app 1
  waits for protocols that are being created, which `ten_engine_check_remote_is_existed` does not
  see, when the command of app 3 comes: 6 would be asked again, and `start_graph.c:149` asserts
  that no command is kept ("Should not happen."). This is the only way to fail an assertion.
- `CloseHolds`: `ten_app_close` "can be safely called from any thread as it uses mutex protection"
  (`app/close.c:132-134`), but the callbacks of the start check and write the state without `state_lock`
  (`app/ten_env/on_xxx.c:267-275`, `:423-429`) and overwrite CLOSING. A close is lost only to a write
  of the start that was on its way before it.
- `FrozenWhileMoving`: `protocol_integrated.c:110` asserts that the stream is frozen
  while the migration state is FIRST_MSG. After a message for an unknown graph the state goes back to
  INIT by a task; what is read before it runs may already move the connection, and the task hands on
  kept messages on its way. And a message the app handles without a look at the connection (stop_graph, a
  message that is no command, a refused start_graph) leaves FIRST_MSG behind, with the stream still reading.
  Neither happens when the client's first message is for a graph, whatever follows it, in however many reads.
- `InOrder`: `connection/migration.c:116-117` demands the original order for all messages.
  A message that a starting engine puts back is overtaken by those that came with it; nothing else is.
- `OneHolder`: `app/msg_interface/common.c:166-168` says that the closing event is frozen while a
  connection moves; `app/close.c:90-92` closes every orphan connection, and the handshake goes on with one
  that is destroyed (`cut`). Without such a close nothing is used after it is destroyed; with it, too,
  someone has the connection until then.
- `CallbackOrder`: with a manual start stage a start command that waits in the queue calls `on_start`
  from inside `on_init_done` (`extension/extension.c:766-767`, `:1340`), and `on_stop` comes twice, the first
  time before `on_start_done`. In every other extension the callbacks come in order.

Why the bounds are enough: commands do not share paths, so one command shows all
interleavings of its own paths, and three destinations give a first, a middle and a
last one; a received command is forwarded like an own one and has an IN path besides. Two proxies distinguish the last release from an earlier one. Two
extensions per group distinguish a partly failed creation from a failed one, two
threads a partly closed graph from a closed one. Four tasks are enough for one that is
running, one that is posted behind it, one in front, and one after the stop. Three threads
with two proxies give a wait for either lock, and four calls let one of them come back.
`msgpack` retries five times (`src/packages/core_protocols/msgpack/protocol.c:82`); two are a retry that
is followed by another and one that is the last. A ring of five apps has two waves that
meet between two apps or in one, and where the sixth app is behind it they meet where there is more to
ask. Three messages are the first one, one that is kept
behind it and one that comes later. Where other threads may close the app at any time one
engine is enough: `CloseHolds` is about the writes of the start. `MaxPartial`, `MaxDests`, `MaxCloseRequests`,
`MaxCalls`, `MaxRetries` and `MaxMsgs` only bound what the environment does. What the
bounds leave open for the safety properties is closed by the proofs, for all of the modules. Deadlock is not checked: a
graph, an app or a loop that is closed, or an extension that is deleted, stops for good.

### Usage the runs assume

Each of these is a constant or an assumption of a module, and a property fails without it:

- `LockMode`: a proxy that the extension thread itself releases is not used for lock mode.
  Otherwise the extension thread waits for the lock of a proxy whose holder waits for the
  extension thread.
- `app_life_cycle`: another thread closes the app once it is in ON_INIT_DONE (`CloseFrom`) and
  proxies are given back after `on_deinit_done` (`EarlyRelease`). `app_close_holds` needs neither.
- `AppChannels`: `StartedEverywhere` and `Settles` are checked for the ring with one more app, the first
  also proved for every tree of apps; `Settles` excepts an app whose assertion has failed. `OneChannel` and
  `OnlySecondCommandFails` are proved for every graph.
- `FrozenWhileMoving` and `InOrder` speak of a client whose first message is for a graph; all other
  properties of `connection_migration` of any client. `AllHandled` excepts a connection that was left in
  FIRST_MSG or whose assertion has failed.

### Other disagreements met while modelling, without a run

Results and the extension:
- `extension/internal/close.c` clears IN paths without answering, where
  `extension/ten_env/on_xxx.c` speaks of results for IN and OUT paths.
- `extension/internal/path_timer.c:77-80` reports a destination of an EACH_OK_AND_ERROR group that
  has given its final result as timed out.
- `extension.h` and `msg_handling.c` say that messages are held back until `on_start`; the code
  holds them until `on_init_done`.
- `extension/extension.c:1163`: a stored start command is dropped unanswered; a stop command queued
  before `on_configure_done` is not looked at when the close begins there.

The graph:
- A close that comes between the engine's read of `is_close_triggered`
  (`engine/internal/extension_interface.c:243`) and the start task is never carried out
  (`extension_thread/extension_thread.c:481`).
- start_graph is answered with OK although a thread that closed never became ready: the count
  of ready threads is compared with the list of those that are left
  (`extension_interface.c:91-94`, `:113`). The start_graph of an empty graph is never answered.

Remotes and apps:
- A connect that the retry timer has started is not counted once the timer is closed; its
  callback may find the protocol destroyed.
- `remote/remote.c:428` writes to the remote after `on_error` may have closed it.
- One flag `has_uncompleted_async_task` of the engine stands for all protocols being created.
- The end of a weak remote, or of the engine, leaves a start_graph that was sent unanswered.
- The comment `remote_interface.c:698-701` keeps the connection from the smaller to the larger
  URI, the code in line 719 the other one.
- `engine/internal/close.c` does not close orphan connections, while `engine.c:72` asserts that there
  are none.

The app:
- Before the loop exists `ten_app_close` is lost (`app/app.c:92-96`).
- A proxy that is given back while the app is closing stops the loop with engines alive
  (`ten_env/ten_proxy.c:71`).
- An app without an endpoint that is not long-running may call `on_deinit` twice.
- A start_graph or a client that comes while the app is closing creates what nobody closes; a
  stop_graph in the queue of an engine that has closed for another reason is lost.

Migration:
- A connection that the app has closed on its way, when its clean task runs before libuv has closed
  the stream, is never destroyed; the end of a client that is read behind kept messages closes a moving
  connection in the same way.
- A first read without a complete message takes the head of an empty list.
- The engine's thread closes handles of the app's loop (`migrate.c:139-144`), and a timeout of the
  wait ends in an assertion (`engine/internal/migration.c:56`).

### Fairness

- `PathTable`: the clock runs and the path timer restarts itself after every tick; a
  running callback feeds its batch to the end; a user whose `on_deinit` was called
  calls `on_deinit_done`. Nothing is assumed of the destinations.
- `ExtensionLifeCycle`: the runloop runs its tasks; the user calls every `on_xxx_done` it
  owes and releases its proxies, as the API demands. Nobody has to send a message or close.
- `GraphLifeCycle`: the runloops run their tasks, the addon manager answers,
  extensions complete the callbacks they are in. Nobody has to close the graph.
- `Runloop`: the loop and a thread that holds the mutex go on. The two libuv callbacks are
  strongly fair: other callbacks may come in between, but libuv calls each one that is
  pending in every turn.
- `LockMode`: threads go on with the calls they have made and callbacks return. Leaving
  lock mode is strongly fair, because the thread needs the lock of the proxy, which others
  take and give back; the number of calls is finite.
- `RemoteConnect`: callbacks and posted tasks run, a connect ends, and a peer that got the
  command answers or disconnects.
- `AppChannels`: every loop runs, connects succeed, messages arrive.
- `AppLifeCycle`: the thread of the app runs, the program answers its callbacks and gives
  its proxies back after `on_deinit_done`, a closing engine closes.
- `ConnectionMigration`: both loops run, and a starting engine becomes ready.

Except where it says otherwise it is weak fairness: a runloop takes its first task, which
stays first until taken.

## 4. Proofs

Every theorem holds for all values of the constants that the `ASSUME` of its module
admits; further hypotheses (a tree of apps, the usage of an app and of a
connection) are named where they occur. A theorem about a
run's property has its statement from the same definition that TLC checks. Every invariant and
every action property of the passing runs has one, `StartedEverywhere` for trees of apps. The shape
is the
same in every module: an inductive invariant `IInv`, shown for `Init` and for each action,
and the properties as its consequences (`Invariance` is `Spec => []IInv`).

### PathTable

For every set of commands, every number of destinations and of partial results, from
`ConstantsAssumption` only:

| theorem | statement |
|---|---|
| `TypeCorrect` | `Spec => []TypeOK` |
| `GroupsWhole` | `Spec => [](GroupIntact /\ CachedWhenFinal)`: two assertions of `path_table.c` never fail |
| `HandlerCompletedOnce` | `Spec => []CompletedOnce` |
| `FirstErrorOrLastOkResult` | `Spec => []GroupResult` |
| `UpstreamFinal` | `Spec => []UpstreamFinalOnce` |
| `FlushCallsHandlers` | `Spec => []HandlersCalled` |
| `ImplementsPromise` | `Spec => Promise!Spec`: the safety part of `KeepsPromise` |

None of these properties is inductive. `IInv` adds what they rest on:
`AnsweredWhenFinal` (a final mark in a FIRST_ERROR_OR_LAST_OK group was set by the
destination itself, which `GroupResult` needs for its OK), `SomeNotFinal` (a group in the
table has a member that is not final, so that completion and removal coincide),
`NothingBeforeSend`, `CompletedWhenGone` (the paths of a command with a handler
disappear only with a completed delivery, which carries `HandlersCalled`),
`FlushCovers` (during the flush, every path left is still in the batch or has its final
mark, so that with `SomeNotFinal` none is left when the batch is empty) and `ReturnedWasReceived`. The step is proved once
per case of `ten_path_table_process_cmd_result`; actions outside the table follow from
lemmas that say which variables they leave alone.

### Runloop

For any set of posting threads and any set of tasks, in the second half of `ThreadProofs`. It
extends both modules, so that the names of `Runloop` which `LockMode` has too begin with
`Loop` or `loop_`:

| theorem | statement |
|---|---|
| `LoopInvariance` | `LoopSpec => []LoopInv` |
| `WakesUp` | `LoopSpec => []NoLostWakeup` |
| `StopIsSafe` | `LoopSpec => []StopAssertions` |
| `ImplementsTaskQueue` | `LoopSpec => Queue!QSafety`: the safety part of `IsTaskQueue` |

`NoLostWakeup` is inductive only together with `NotifyUnderLock` (the thread that will notify
holds the mutex, and the loop is not being destroyed) and `SignalFollowsStop` (the signal is
closed by a stop and never before it). Every step of the refinement maps to a step of the queue
or leaves it as it is; the mutex, the notification and the two phases of the stop are the
stuttering ones.

### LockMode

For any number of threads, proxies and calls, and every assignment of proxies to threads, in the
first half of `ThreadProofs`:

| theorem | statement |
|---|---|
| `OneThreadInWorld` | `Spec => []WorldExclusive` |
| `AssertionsHold` | `Spec => []LockModeAssertions` |
| `ProxiesOutlive` | `Spec => []ProxyOutlivesUse` |

That a thread is alone in the TEN world follows from where the locks and tasks are, so `IInv`
says that: `TasksOnce` (one suspend task per thread, one `release`, one deletion per
proxy), `LocksFollowThreads` (who holds `lock_mode_lock` or a proxy's `lock` is at the line
that needs it), `FlagFollowsTask` (`in_lock_mode` is set exactly from the suspend task to the
task that clears it, and the extension thread has `lock_mode_lock` when it is not blocked
meanwhile), `WaitingThread` (a suspend task belongs to a thread that waits, and a thread is in the
world only while the extension thread is blocked) and `ProxiesOutliveLockMode` (the task that
ends lock mode is in front of the deletion of some proxy).

### RemoteConnect

For any set of remotes and any number of retries:

| theorem | statement |
|---|---|
| `BottomUp` | `Spec => []ClosesBottomUp` |
| `ChannelsFirst` | `Spec => []ContextNeedsChannels` |
| `AnsweredAtMostOnce` | no start_graph of a remote is answered twice: the safety half of `RemoteAnswered` |

`RemoteOK` says which combinations of remote, protocol, timer and connect attempt exist,
`AnswerOK` that a remote which is being created or connected has given no answer and a strong one
has given its only one, and `EngineOK` that every remote the engine no longer waits for has
its channel.

### ExtensionLifeCycle

For any sets of commands, trigger commands and proxies:

| theorem | statement |
|---|---|
| `DeletedIsUnreachable` | `Spec => []NoUseAfterDelete` |
| `CommandsAccounted` | `Spec => []CmdsAccounted` |
| `CallbacksInOrder` | `Spec => []CallbackOrder`, which is about extensions that do not make the start stage manual |

`IInv` says what tasks may be queued in which state (`StartTasks`), how far the
path timers are (`Timers`), that deletion waits for timers and proxies (`Deletion`) and
where each command is (`Places`). `OrderInv` adds how the recorded callbacks
follow the state; it holds while the start stage is automatic, and `ManualUnread` says that this is
decided before anything depends on it.

### GraphLifeCycle

For any finite sets of threads and names and any number of close requests:

| theorem | statement |
|---|---|
| `FindInfoAlone` | `Spec => []FindInfoExclusive` |
| `InsideOut` | `Spec => []ClosesInOrder` |
| `StartAnsweredAtMostOnce` | start_graph is answered at most once: the safety half of `StartIsAnswered` |

For each thread `StartOK`, `CloseOK` and `LivesOK` say which tasks may be on their way in which
state, and `Counts` that every counter of the code is the size of the set it stands for
(extensions gone, threads destroyed, threads not ready). The last is what makes a comparison of
two counters mean that all are done; it needs the finiteness of the sets.

### AppChannels

For any apps, any links between them and any app at which the client starts:

| theorem | statement |
|---|---|
| `OneChannelAnyGraph` | `Spec => []OneChannel` |
| `OnlySecondCommandAborts` | `Spec => OnlySecondCommandFails`: of the three assertions only the one of `start_graph.c` can fail, and only when a second start_graph meets a neighbour without a remote |
| `TreeStartedEverywhere` | `Spec => []StartedEverywhere`, when the links form a tree |

`IInv` says how the two connections of a pair fit together (`PairOK`), what messages between
two apps are on their way (`QueuesOK`) and what an app that waits keeps (`AppOK`). A tree is a
set of apps with a parent and a depth for each but the root. There `TreeInv` holds: only parents
connect, an app is untouched until its parent's connection reaches it, and it answers OK
only when all its children have and its own extension system runs. That an OK of the root means
all are started then follows by taking an app of least depth that is not. `OnlySecondCommandAborts`
needs no tree: `PairOK` excludes the second strong remote and `AppOK` the remote without a command.

### ConnectionMigration

For any messages of a client in any number, read in any portions, and whoever closes the connection
when, in the first half of `AppProofs`, which extends both modules (the specification is
`MigrationSpec`). `Usage` is an engine that has its own loop, without which the first theorem is false
(run `connection_shared`), and that a client whose connection stays with the app sends close_app
alone: behind it the app takes several messages at once, by a fold over them, which would need an
induction over data. TLC checks those scripts too:

| theorem | statement |
|---|---|
| `NoAssertion` | `Usage => (MigrationSpec => []FrozenWhileMoving)` |
| `Order` | `Usage => (MigrationSpec => []InOrder)` |
| `SingleThread` | `Usage => (MigrationSpec => []OneThread)` |
| `Lifetime` | `Usage => (MigrationSpec => []OneHolder)` |

The properties speak of the two ends of the way of a connection; `IInv` says what holds at each of
its stations. The app owns it (`WithApp`) while it stays there (`AtApp`), while the loops shake hands
(`Handshakes`) and while the engine's thread is blocked (`Waits`); the engine owns it (`WithEngine`)
before it has a remote (`Unlinked`) and after (`Linked`). For each station it is said which stream is
in which state, what tasks the two loops have and in whose list the connection is. What makes the
order come out right is `MsgsOK`: the kept messages are the next ones without a gap and all that
was handled came before, together with `LinksFirst`: the task that links the connection to a
remote is in front of the one that hands on the kept messages.

### AppLifeCycle

For any number of engines, connections, proxies and messages and for every configuration, in the
second half of `AppProofs`. `AppUsage` is the `ASSUME` of `AppLifeCycle` and
the usage of section 3 (`CloseFrom`, `EarlyRelease`); without it a state written by the start
overwrites CLOSING, or a proxy stops the loop too early. The last theorem does without it:

| theorem | statement |
|---|---|
| `AppInvariance` | `AppUsage => (Spec => []AppInv)` |
| `TheEnd` | `AppUsage => (Spec => []EndsLast)` |
| `AnswerMeansGone` | `AppUsage => (Spec => []OkMeansGone)`, the safety half of `KeptStopAnswered` |
| `CloseIsLostOnlyToStart` | `Spec => CloseHolds`, an action property, for any `CloseFrom` and `EarlyRelease` |

`AppInv` has two halves. While the app starts (`Starts`) it holds nothing, and state, queue and the
callback that is not answered determine each other (`Phase`). Later (`Good`) every task in the queue
fits what it is about (`Queued`), the endpoint closes after the task of `ten_app_close` (`Endpoint`) and
`Deinit` says what `on_deinit` and the end of the loop come after. `EndsLast` needs one thing more:
an engine that has sent start_graph is seen to end only after its command has been handled, because
its end is queued behind it (`Starters`); otherwise the app could start a graph after `on_deinit`.
For `AnswerMeansGone` the answers are followed from the queue
of the app to the batch that is handled to the sender (`Answered`), and every step is shown to leave a
gone engine gone (`Later`). `CloseIsLostOnlyToStart` is a property of steps and rests on the types
of the queue only (`Shape`): in a closing app without a write of the start on its way, no xxx_done passes its check
and every other operator leaves the state closing and the queue without a task of the start.

### Only model-checked

- All liveness properties (`CloseCompletes` of an extension and of an app, `StartedGraphCloses`,
  `StopCompletes`, `LockModeProgress`, `EngineCloses`, `Settles`, `AllHandled`), and the
  liveness parts of `KeptStopAnswered`, `KeepsPromise`, `IsTaskQueue`, `RemoteAnswered` and `StartIsAnswered`: fairness is
  out of the prover's reach.
- `StartedEverywhere` for rings: a ring has no order along which an induction could go.
- The migration of a connection behind a close_app command that is not alone.

## 5. Plan

1. Done: `PathTable` with `ResultPromise`; `ExtensionLifeCycle`; `GraphLifeCycle`; `Runloop` with
   `TaskQueue`; `LockMode`; `RemoteConnect`; `AppChannels`; `AppLifeCycle`; `ConnectionMigration`;
   the proofs of section 4.
2. `CmdFlow`: path tables in a chain, so that a result crosses several extensions.
3. `ExtensionLifeCycle` as an implementation of the cut-down life in `GraphLifeCycle`.

## 6. Not modelled

Data, audio and video frames on their way (they leave no state in the extension);
contents, schemas and conversions of messages; asynchronous (not integrated) protocols and
the encoding of messages; timers of the timer command; properties, manifests and the text of
predefined graphs; registration and loading of addons, which are seen only through their
answers; the extension tester and the graph proxy extension; bindings; containers, values and
logging of ten_utils; `ten_rust`, `ten_manager`, `ai_agents/`, `packages/` and `third_party/`;
memory allocation failures, which the code asserts away.
