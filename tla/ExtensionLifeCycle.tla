------------------------- MODULE ExtensionLifeCycle -------------------------
(***************************************************************************)
(* The life cycle of one extension (core/src/ten_runtime/extension) inside *)
(* its extension thread, from on_configure to its deletion.                *)
(*                                                                         *)
(* Every step runs on the extension thread: a task of its runloop, a       *)
(* message handed to the extension, or a ten_env.on_xxx_done() that the    *)
(* user calls.  A done call made inside the callback is the step that      *)
(* follows the callback.  The one place where steps nest is on_init_done,  *)
(* which hands the queued messages to the extension before it looks at     *)
(* is_close_triggered: it is cut into one step per message.                *)
(*                                                                         *)
(* Messages come from other extensions at any moment, so only the tasks    *)
(* that the extension posts to its own runloop are kept in order.          *)
(***************************************************************************)
EXTENDS Naturals, Sequences, FiniteSets

CONSTANTS
  Cmds,          \* ordinary commands sent to the extension
  StartTriggers, \* trigger_life_cycle commands with stage "start"
  StopTriggers,  \* trigger_life_cycle commands with stage "stop"
  Proxies,       \* the ten_env_proxy objects the user may create
  ManualStages   \* stages that property.json may put under manual control

Triggers == StartTriggers \cup StopTriggers
Msgs == Cmds \cup Triggers

ASSUME LifeCycleAssumption ==
  /\ Cmds \cap Triggers = {} /\ StartTriggers \cap StopTriggers = {}
  /\ ManualStages \subseteq {"start", "stop"}

\* TEN_EXTENSION_STATE: the code compares states by their order.
ST_INIT == 0
ON_CONFIGURE == 1
ON_CONFIGURE_DONE == 2
ON_INIT == 3
ON_INIT_DONE == 4
ON_START == 5
ON_START_DONE == 6
PREPARE_TO_STOP == 7
ON_STOP == 8
ON_STOP_DONE == 9
ON_DEINIT == 10
ON_DEINIT_DONE == 11

Callbacks == {"on_configure", "on_init", "on_start", "on_stop", "on_deinit"}
Tasks == {<<"on_init">>, <<"on_start">>, <<"timer_close">>, <<"del">>}
           \cup ({"notify", "proxy_deleted"} \X Proxies)

VARIABLES
  state,           \* extension->state
  manual,          \* manual_trigger_life_cycle.stages
  close_triggered, \* extension_thread->is_close_triggered
  tasks,           \* tasks of this extension in the runloop, in order
  path_timers,     \* number of path timers not closed yet
  timers_closing,  \* ten_timer_close_async has been called on them
  pending,         \* messages queued until on_init_done, in order
  flushing,        \* on_init_done is handing out the queued messages
  triggers,        \* pending_trigger_life_cycle_cmds
  proxies,         \* ten_env->ten_proxy_list
  released,        \* proxies whose last holder has released them
  notified,        \* proxies through which a notify has been posted
  deleted,         \* the extension has left the extension store
  arrived,         \* messages the extension thread has taken
  handed,          \* commands given to on_cmd
  answer,          \* the result the runtime itself gave to a message
  calls,           \* the callbacks the user has seen, in order
  dones            \* the callbacks whose on_xxx_done has been accepted

vars == <<state, manual, close_triggered, tasks, path_timers, timers_closing, pending,
          flushing, triggers, proxies, released, notified, deleted, arrived, handed,
          answer, calls, dones>>
timerVars == <<path_timers, timers_closing>>
msgVars == <<arrived, handed, answer, triggers>>
proxyVars == <<proxies, released, notified>>

Init ==
  /\ state = ST_INIT /\ manual = {} /\ close_triggered = FALSE
  /\ tasks = << >> /\ path_timers = 0 /\ timers_closing = FALSE
  /\ pending = << >> /\ flushing = FALSE /\ triggers = {}
  /\ proxies = {} /\ released = {} /\ notified = {}
  /\ deleted = FALSE /\ arrived = {} /\ handed = {}
  /\ answer = [m \in Msgs |-> "none"]
  /\ calls = << >> /\ dones = {}

-----------------------------------------------------------------------------
(* The functions that move the state.                                      *)

Call(cb) == calls' = Append(calls, cb)
Done(cb) == dones' = dones \cup {cb}
Post(task) == tasks' = Append(tasks, task)

\* The start flow is skipped once the close flow has begun.
Skipped == state >= PREPARE_TO_STOP

\* Has a stop command arrived that on_stop may answer?
HasStopTrigger == triggers \cap StopTriggers # {}

\* ten_extension_trigger_stop_if_needed puts the extension into
\* PREPARE_TO_STOP, whatever its state; ten_extension_on_stop, whose own
\* check then always succeeds, follows unless a stop command is awaited.
ten_extension_trigger_stop_if_needed ==
  IF "stop" \in manual /\ ~HasStopTrigger
  THEN state' = PREPARE_TO_STOP /\ UNCHANGED calls
  ELSE state' = ON_STOP /\ Call("on_stop")

\* Answer all pending trigger commands of a stage.
ReplyTriggers(stage) ==
  /\ answer' = [m \in Msgs |-> IF m \in triggers \cap stage THEN "ok" ELSE answer[m]]
  /\ triggers' = triggers \ stage

\* The commands handled in the de-initialization phase get an error.
Reject(S) == answer' = [m \in Msgs |-> IF m \in S THEN "error" ELSE answer[m]]

\* Mutant: the queued messages are dropped.
FinishDeinitDrops(queue) ==
  /\ pending' = << >>
  /\ tasks' = Append(queue, <<"del">>)
  /\ UNCHANGED answer

\* When nothing holds the ten_env any more, the queued messages are flushed
\* (and rejected) and the deletion is posted to the end of the task queue.
FinishDeinit(queue) ==
  /\ Reject({pending[i] : i \in 1 .. Len(pending)})
  /\ pending' = << >>
  /\ tasks' = Append(queue, <<"del">>)

-----------------------------------------------------------------------------
(* Messages: ten_extension_handle_in_msg.                                  *)

\* ten_extension_handle_trigger_start_life_cycle
HandleTriggerStart(m) ==
  IF "start" \notin manual \/ state > ON_START_DONE
  THEN Reject({m}) /\ UNCHANGED <<triggers, state, calls>>
  ELSE /\ triggers' = triggers \cup {m}
       /\ UNCHANGED answer
       /\ IF state = ON_INIT_DONE
          THEN state' = ON_START /\ Call("on_start")
          ELSE UNCHANGED <<state, calls>>

\* ten_extension_handle_trigger_stop_life_cycle
HandleTriggerStop(m) ==
  IF "stop" \notin manual \/ state > ON_STOP_DONE
  THEN Reject({m}) /\ UNCHANGED <<triggers, state, calls>>
  ELSE /\ triggers' = triggers \cup {m}
       /\ UNCHANGED answer
       /\ IF state = PREPARE_TO_STOP
          THEN state' = ON_STOP /\ Call("on_stop")
          ELSE UNCHANGED <<state, calls>>

\* A message that passes the queue and the de-initialization check.
Dispatch(m) ==
  \/ /\ m \in Cmds
     /\ handed' = handed \cup {m}
     /\ UNCHANGED <<answer, triggers, state, calls>>
  \/ m \in StartTriggers /\ HandleTriggerStart(m) /\ UNCHANGED handed
  \/ m \in StopTriggers /\ HandleTriggerStop(m) /\ UNCHANGED handed

\* A message arrives before on_init_done: it is queued, in the extension
\* thread before the life cycle starts and in the extension afterwards.
QueueMsg(m) ==
  /\ ~flushing /\ m \notin arrived
  /\ state < ON_INIT_DONE
  /\ arrived' = arrived \cup {m}
  /\ pending' = Append(pending, m)
  /\ UNCHANGED <<state, manual, close_triggered, tasks, timerVars, flushing, triggers,
                 proxyVars, deleted, handed, answer, calls, dones>>

HandleMsg(m) ==
  /\ ~flushing /\ m \notin arrived
  /\ state >= ON_INIT_DONE /\ state < ON_DEINIT
  /\ arrived' = arrived \cup {m}
  /\ Dispatch(m)
  /\ UNCHANGED <<manual, close_triggered, tasks, timerVars, pending, flushing, proxyVars,
                 deleted, dones>>

\* From on_deinit on, and for an ordinary command also when the extension is
\* gone, the sender gets an error.
RejectMsg(m) ==
  /\ m \notin arrived /\ state >= ON_DEINIT
  /\ arrived' = arrived \cup {m}
  /\ Reject(IF deleted /\ m \in Triggers THEN {} ELSE {m})
  /\ UNCHANGED <<state, manual, close_triggered, tasks, timerVars, pending, flushing,
                 triggers, proxyVars, deleted, handed, calls, dones>>

-----------------------------------------------------------------------------
(* The start flow.                                                         *)

\* ten_extension_thread_start_life_cycle_of_all_extensions_task
OnConfigure ==
  /\ state = ST_INIT /\ ~close_triggered
  /\ state' = ON_CONFIGURE /\ Call("on_configure")
  /\ UNCHANGED <<manual, close_triggered, tasks, timerVars, pending, flushing, msgVars,
                 proxyVars, deleted, dones>>

OnConfigureDone ==
  /\ state = ON_CONFIGURE
  /\ Done("on_configure")
  /\ IF close_triggered
     THEN /\ ten_extension_trigger_stop_if_needed
          /\ UNCHANGED <<manual, tasks, path_timers>>
     ELSE /\ state' = ON_CONFIGURE_DONE
          /\ manual' \in SUBSET ManualStages
          /\ path_timers' = 2
          /\ Post(<<"on_init">>)
          /\ UNCHANGED calls
  /\ UNCHANGED <<close_triggered, timers_closing, pending, flushing, msgVars, proxyVars,
                 deleted>>

OnInitTask ==
  /\ ~flushing /\ tasks # << >> /\ Head(tasks) = <<"on_init">>
  /\ tasks' = Tail(tasks)
  /\ IF Skipped THEN UNCHANGED <<state, calls>>
     ELSE state' = ON_INIT /\ Call("on_init")
  /\ UNCHANGED <<manual, close_triggered, timerVars, pending, flushing, msgVars, proxyVars,
                 deleted, dones>>

\* on_init_done begins: the queued messages are flushed.
OnInitDone ==
  /\ state = ON_INIT
  /\ Done("on_init")
  /\ state' = ON_INIT_DONE
  /\ flushing' = TRUE
  /\ UNCHANGED <<manual, close_triggered, tasks, timerVars, pending, msgVars, proxyVars,
                 deleted, calls>>

FlushMsg ==
  /\ flushing /\ pending # << >>
  /\ Dispatch(Head(pending))
  /\ pending' = Tail(pending)
  /\ UNCHANGED <<manual, close_triggered, tasks, timerVars, flushing, proxyVars, deleted,
                 arrived, dones>>

\* on_init_done ends: stop if the thread is closing, otherwise start, unless
\* the start stage is manual and no start command waits.
OnInitDoneEnd ==
  /\ flushing /\ pending = << >>
  /\ flushing' = FALSE
  /\ IF close_triggered
     THEN ten_extension_trigger_stop_if_needed /\ UNCHANGED tasks
     ELSE /\ IF "start" \notin manual \/ triggers \cap StartTriggers # {}
             THEN Post(<<"on_start">>)
             ELSE UNCHANGED tasks
          /\ UNCHANGED <<state, calls>>
  /\ UNCHANGED <<manual, close_triggered, timerVars, pending, msgVars, proxyVars, deleted, dones>>

\* Mutant: the posted task does not look at the state.
OnStartTaskUnchecked ==
  /\ ~flushing /\ tasks # << >> /\ Head(tasks) = <<"on_start">>
  /\ tasks' = Tail(tasks)
  /\ state' = ON_START /\ Call("on_start")
  /\ UNCHANGED <<manual, close_triggered, timerVars, pending, flushing, msgVars, proxyVars,
                 deleted, dones>>

OnStartTask ==
  /\ ~flushing /\ tasks # << >> /\ Head(tasks) = <<"on_start">>
  /\ tasks' = Tail(tasks)
  /\ IF state >= ON_START THEN UNCHANGED <<state, calls>>
     ELSE state' = ON_START /\ Call("on_start")
  /\ UNCHANGED <<manual, close_triggered, timerVars, pending, flushing, msgVars, proxyVars,
                 deleted, dones>>

\* Mutant: on_start_done does not look at is_close_triggered.
OnStartDoneIgnoresClose ==
  /\ state = ON_START
  /\ Done("on_start")
  /\ ReplyTriggers(StartTriggers)
  /\ state' = ON_START_DONE
  /\ UNCHANGED <<manual, close_triggered, tasks, timerVars, pending, flushing, proxyVars,
                 deleted, arrived, handed, calls>>

OnStartDone ==
  /\ state = ON_START
  /\ Done("on_start")
  /\ ReplyTriggers(StartTriggers)
  /\ IF close_triggered
     THEN ten_extension_trigger_stop_if_needed
     ELSE state' = ON_START_DONE /\ UNCHANGED calls
  /\ UNCHANGED <<manual, close_triggered, tasks, timerVars, pending, flushing, proxyVars,
                 deleted, arrived, handed>>

-----------------------------------------------------------------------------
(* The close flow.                                                         *)

\* ten_extension_thread_on_triggering_close in a running thread, followed by
\* ten_extension_thread_stop_life_cycle_of_all_extensions.
TriggerClose ==
  /\ ~flushing /\ ~close_triggered /\ state # ST_INIT
  /\ close_triggered' = TRUE
  /\ IF state \in {ON_CONFIGURE_DONE, ON_INIT_DONE, ON_START_DONE}
     THEN ten_extension_trigger_stop_if_needed
     ELSE UNCHANGED <<state, calls>>
  /\ UNCHANGED <<manual, tasks, timerVars, pending, flushing, msgVars, proxyVars, deleted, dones>>

\* on_stop_done answers the stop commands and closes the path timers; without
\* timers on_deinit follows at once.
OnStopDone ==
  /\ state = ON_STOP
  /\ Done("on_stop")
  /\ ReplyTriggers(StopTriggers)
  /\ IF path_timers = 0
     THEN state' = ON_DEINIT /\ Call("on_deinit") /\ UNCHANGED <<tasks, timers_closing>>
     ELSE /\ state' = ON_STOP_DONE
          /\ timers_closing' = TRUE
          /\ tasks' = IF timers_closing THEN tasks
                      ELSE tasks \o <<<<"timer_close">>, <<"timer_close">>>>
          /\ UNCHANGED calls
  /\ UNCHANGED <<manual, close_triggered, path_timers, pending, flushing, proxyVars, deleted,
                 arrived, handed>>

\* ten_extension_on_timer_closed: the last timer calls on_deinit.
TimerClosed ==
  /\ ~flushing /\ tasks # << >> /\ Head(tasks) = <<"timer_close">>
  /\ tasks' = Tail(tasks)
  /\ path_timers' = path_timers - 1
  /\ IF path_timers' = 0
     THEN state' = ON_DEINIT /\ Call("on_deinit")
     ELSE UNCHANGED <<state, calls>>
  /\ UNCHANGED <<manual, close_triggered, timers_closing, pending, flushing, msgVars,
                 proxyVars, deleted, dones>>

\* Mutant: on_deinit_done does not wait for the proxies.
OnDeinitDoneNoWait ==
  /\ state = ON_DEINIT
  /\ Done("on_deinit")
  /\ state' = ON_DEINIT_DONE
  /\ FinishDeinit(tasks)
  /\ UNCHANGED <<manual, close_triggered, timerVars, flushing, triggers, proxyVars, deleted,
                 arrived, handed, calls>>

\* on_deinit_done goes on only when no ten_env_proxy is left.
OnDeinitDone ==
  /\ state = ON_DEINIT
  /\ Done("on_deinit")
  /\ state' = ON_DEINIT_DONE
  /\ IF proxies = {} THEN FinishDeinit(tasks) ELSE UNCHANGED <<answer, pending, tasks>>
  /\ UNCHANGED <<manual, close_triggered, timerVars, flushing, triggers, proxyVars, deleted,
                 arrived, handed, calls>>

\* ten_extension_thread_del_extension
DelExtension ==
  /\ tasks # << >> /\ Head(tasks) = <<"del">>
  /\ tasks' = Tail(tasks)
  /\ deleted' = TRUE
  /\ UNCHANGED <<state, manual, close_triggered, timerVars, pending, flushing, msgVars,
                 proxyVars, calls, dones>>

-----------------------------------------------------------------------------
(* Proxies: other threads use the ten_env through them.                    *)

\* ten_env_proxy_create, on the extension thread.
CreateProxy(p) ==
  /\ p \notin proxies \cup released
  /\ state >= ON_CONFIGURE /\ state < ON_DEINIT_DONE
  /\ proxies' = proxies \cup {p}
  /\ UNCHANGED <<state, manual, close_triggered, tasks, timerVars, pending, flushing, msgVars,
                 released, notified, deleted, calls, dones>>

\* ten_env_proxy_notify, on another thread that holds the proxy.
ProxyNotify(p) ==
  /\ p \in proxies \ (released \cup notified)
  /\ notified' = notified \cup {p}
  /\ Post(<<"notify", p>>)
  /\ UNCHANGED <<state, manual, close_triggered, timerVars, pending, flushing, msgVars,
                 proxies, released, deleted, calls, dones>>

\* ten_env_proxy_release by the last holder.
ProxyRelease(p) ==
  /\ p \in proxies \ released
  /\ released' = released \cup {p}
  /\ Post(<<"proxy_deleted", p>>)
  /\ UNCHANGED <<state, manual, close_triggered, timerVars, pending, flushing, msgVars,
                 proxies, notified, deleted, calls, dones>>

\* The notify task runs the user's function with the ten_env.
NotifyTask(p) ==
  /\ ~flushing /\ tasks # << >> /\ Head(tasks) = <<"notify", p>>
  /\ tasks' = Tail(tasks)
  /\ UNCHANGED <<state, manual, close_triggered, timerVars, pending, flushing, msgVars,
                 proxyVars, deleted, calls, dones>>

\* ten_notify_proxy_is_deleted: the last proxy resumes the close flow.
ProxyDeleted(p) ==
  /\ ~flushing /\ tasks # << >> /\ Head(tasks) = <<"proxy_deleted", p>>
  /\ proxies' = proxies \ {p}
  /\ IF proxies' = {} /\ state = ON_DEINIT_DONE
     THEN FinishDeinit(Tail(tasks))
     ELSE tasks' = Tail(tasks) /\ UNCHANGED <<answer, pending>>
  /\ UNCHANGED <<state, manual, close_triggered, timerVars, flushing, triggers, released,
                 notified, deleted, arrived, handed, calls, dones>>

-----------------------------------------------------------------------------

UserDone == OnConfigureDone \/ OnInitDone \/ OnStartDone \/ OnStopDone \/ OnDeinitDone
RunTask == \/ OnInitTask \/ OnStartTask \/ TimerClosed \/ DelExtension
           \/ \E p \in Proxies : NotifyTask(p) \/ ProxyDeleted(p)
Flush == FlushMsg \/ OnInitDoneEnd

Next ==
  \/ \E m \in Msgs : QueueMsg(m) \/ HandleMsg(m) \/ RejectMsg(m)
  \/ OnConfigure \/ TriggerClose
  \/ UserDone \/ RunTask \/ Flush
  \/ \E p \in Proxies : CreateProxy(p) \/ ProxyNotify(p) \/ ProxyRelease(p)

Spec == Init /\ [][Next]_vars

(* The runloop runs its tasks, among them the one that starts the life     *)
(* cycle; the user owes a done call to every callback and releases its     *)
(* proxies.  Nothing obliges anybody to send a message or to close the     *)
(* graph.                                                                  *)
Fairness ==
  /\ WF_vars(OnConfigure) /\ WF_vars(UserDone) /\ WF_vars(RunTask) /\ WF_vars(Flush)
  /\ \A p \in Proxies : WF_vars(ProxyRelease(p))

FairSpec == Spec /\ Fairness

-----------------------------------------------------------------------------
(* Properties.                                                             *)

\* The type invariant: among others, no timer is closed that was not created.
TypeOK ==
  /\ state \in ST_INIT .. ON_DEINIT_DONE
  /\ manual \subseteq ManualStages
  /\ close_triggered \in BOOLEAN /\ flushing \in BOOLEAN /\ deleted \in BOOLEAN
  /\ tasks \in Seq(Tasks)
  /\ path_timers \in 0 .. 2 /\ timers_closing \in BOOLEAN
  /\ pending \in Seq(Msgs)
  /\ triggers \subseteq Triggers
  /\ proxies \subseteq Proxies /\ released \subseteq Proxies /\ notified \subseteq Proxies
  /\ arrived \subseteq Msgs /\ handed \subseteq Cmds
  /\ answer \in [Msgs -> {"none", "ok", "error"}]
  /\ calls \in Seq(Callbacks) /\ dones \subseteq Callbacks

Rank(cb) ==
  CASE cb = "on_configure" -> 1 [] cb = "on_init" -> 2 [] cb = "on_start" -> 3
    [] cb = "on_stop" -> 4 [] cb = "on_deinit" -> 5

Called(cb) == \E i \in 1 .. Len(calls) : calls[i] = cb

CalledInOrder ==
  \A i, j \in 1 .. Len(calls) : i < j => Rank(calls[i]) < Rank(calls[j])

StopWaitsForDone ==
  Called("on_stop") =>
    \A cb \in {"on_configure", "on_init", "on_start"} : Called(cb) => cb \in dones

\* However the close races with the start flow, the user sees the callbacks
\* in their order and each at most once, and on_stop waits for the done call
\* of the callback before it, because until then developers may still use the
\* ten_env (extension_thread/on_xxx.c).  This is said of an extension whose
\* property.json does not put the start stage under manual control: there a
\* start command that waits in the queue calls on_start from inside
\* on_init_done, which may stop the extension right after it.
CallbackOrder ==
  /\ TypeOK
  /\ "start" \notin manual => CalledInOrder /\ StopWaitsForDone

TimersClosedBeforeDeinit ==
  /\ state >= ON_DEINIT => path_timers = 0
  /\ timers_closing /\ state < ON_DEINIT => Called("on_stop") /\ path_timers > 0

\* A deleted extension is not reachable from the runloop, from a proxy or
\* from a queue: del_extension is the last task, and waits for the proxies.
\* The path timers, which point to the extension and to its path table, are
\* closed before on_deinit already, and close only in the close flow.
NoUseAfterDelete ==
  /\ deleted => tasks = << >> /\ proxies = {} /\ pending = << >>
  /\ TimersClosedBeforeDeinit

CmdAccounted(m) ==
  Cardinality({w \in {"queued", "handed", "rejected"} :
                 \/ w = "queued" /\ \E i \in 1 .. Len(pending) : pending[i] = m
                 \/ w = "handed" /\ m \in handed
                 \/ w = "rejected" /\ answer[m] # "none"}) = 1

\* A command that the thread has taken is queued, or has been handed to
\* on_cmd, or has been rejected, and only one of them; a trigger command is
\* answered with OK only when its stage is done.
CmdsAccounted ==
  /\ \A m \in Cmds \cap arrived : CmdAccounted(m)
  /\ \A m \in Triggers :
       answer[m] = "ok" => IF m \in StartTriggers THEN "on_start" \in dones
                                                  ELSE "on_stop" \in dones

\* The extension waits for the stop command of its manual stop stage.
AwaitsStopCmd == state = PREPARE_TO_STOP /\ "stop" \in manual

\* Closing completes: the extension is deleted, unless it waits for its stop
\* command.  Nor does a sender hang: every command is handed over or rejected,
\* whether the extension starts, stops early or is gone, with the same
\* exception, in which the queue is still full.
CloseCompletes ==
  /\ close_triggered ~> (deleted \/ AwaitsStopCmd)
  /\ \A m \in Cmds :
       m \in arrived ~> (m \in handed \/ answer[m] # "none" \/ AwaitsStopCmd)
=============================================================================
