---------------------------- MODULE AppLifeCycle ----------------------------
(***************************************************************************)
(* The life cycle of an app: on_configure, on_init, the engines and the    *)
(* connections it holds while it runs, and closing, up to the end of its   *)
(* runloop.  The thread of the app runs the tasks of its loop and the      *)
(* callbacks of libuv; other threads close the app, release its ten_env    *)
(* proxies and, when every engine has its own loop, run the engines.       *)
(*                                                                         *)
(*   app/{app,internal,close,endpoint,engine_interface,on_xxx,             *)
(*   predefined_graph}.c, app/ten_env/on_xxx.c, app/msg_interface/*.c,     *)
(*   ten_env/ten_proxy.c, engine/msg_interface/close_engine.c              *)
(*                                                                         *)
(* An engine is here only what the app sees of it (GraphLifeCycle and      *)
(* RemoteConnect say how it closes), a connection leaves the app in one    *)
(* step (ConnectionMigration says how), and the loop is the queue that     *)
(* TaskQueue specifies.                                                    *)
(***************************************************************************)
EXTENDS Naturals, Sequences

CONSTANTS
  Engines,       \* graphs that may be started, each at most once
  AutoStart,     \* the predefined graphs with auto_start
  Conns,         \* connections that clients may open
  Proxies,       \* ten_env proxies that the program may create
  MaxMsgs,       \* messages that engines send to the app
  CloseFrom,     \* app states in which another thread calls ten_app_close
  EarlyRelease   \* whether a proxy is released before on_deinit_done

ASSUME AppAssumption ==
  /\ AutoStart \subseteq Engines
  /\ MaxMsgs \in Nat
  /\ EarlyRelease \in BOOLEAN

VARIABLES
  app,      \* the app
  config,   \* the properties of the app that steer its life
  batch,    \* in_msgs_ of the ten_app_handle_in_msgs_sync that runs
  checked,  \* the xxx_done call that has read app->state and not yet set it
  stop,     \* per engine: the stop_graph command another graph sent for it
  sent      \* messages that engines have sent to the app

vars == <<app, config, batch, checked, stop, sent>>

AppStates == {"INIT", "ON_CONFIGURE", "ON_CONFIGURE_DONE", "ON_INIT",
              "ON_INIT_DONE", "CLOSING", "ON_DEINIT_DONE"}

Tasks == {<<"metadata">>, <<"close">>, <<"in_msgs">>,
          <<"endpoint_created">>, <<"endpoint_failed">>}
           \cup {<<"engine_closed", e>> : e \in Engines}
           \cup {<<"client", c>> : c \in Conns}
           \cup {<<"proxy", p>> : p \in Proxies}

Messages == {<<"close_app">>, <<"start_failed">>}
              \cup {<<"start_graph", e>> : e \in Engines}
              \cup {"stop_graph", "stop_ok", "stop_error"} \X Engines

\* 'pending' holds the asynchronous work of the app's own life: loading and
\* unregistering addons, and the callbacks that have not been answered with
\* their xxx_done; 'deinits' counts the calls of ten_app_on_deinit; 'late'
\* remembers that the app has got an engine or a connection after the task
\* that closes them has run.
AppRecord ==
  [state: AppStates, loop: {"running", "stopping", "stopped"},
   queue: Seq(Tasks), inMsgs: Seq(Messages),
   pending: SUBSET {"configure", "load", "init", "unregister", "deinit"},
   deinits: Nat, late: BOOLEAN,
   engines: [Engines -> {"none", "running", "closing", "closed", "gone"}],
   orphans: [Conns -> {"none", "accepted", "open", "closing", "gone"}],
   endpoint: {"none", "creating", "listening", "closing", "closed"},
   proxies: [Proxies -> {"none", "held", "releasing", "gone"}]]

TypeOK ==
  /\ app \in AppRecord
  /\ config \in [endpoint: BOOLEAN, ownLoop: BOOLEAN, longRunning: BOOLEAN]
  /\ batch \in Seq(Messages)
  /\ checked \in {"no", "configure", "init"}
  /\ stop \in [Engines -> {"none", "sent", "mail", "kept", "ok", "error",
                           "lost"}]
  /\ sent \in 0..MaxMsgs

Init ==
  /\ app = [state |-> "INIT", loop |-> "running", queue |-> << <<"metadata">> >>,
            inMsgs |-> <<>>, pending |-> {}, deinits |-> 0, late |-> FALSE,
            engines |-> [e \in Engines |-> "none"],
            orphans |-> [c \in Conns |-> "none"],
            endpoint |-> "none", proxies |-> [p \in Proxies |-> "none"]]
  /\ config \in [endpoint: BOOLEAN, ownLoop: BOOLEAN, longRunning: BOOLEAN]
  /\ batch = <<>>
  /\ checked = "no"
  /\ stop = [e \in Engines |-> "none"]
  /\ sent = 0

-----------------------------------------------------------------------------
(* Closing.                                                                *)

\* ten_runloop_post_task_tail: refused once the loop is being stopped.
Post(a, task) ==
  IF a.loop = "running" THEN [a EXCEPT !.queue = Append(@, task)] ELSE a

PushInMsg(a, m) == Post([a EXCEPT !.inMsgs = Append(@, m)], <<"in_msgs">>)

ten_runloop_stop(a) ==
  IF a.loop = "running" THEN [a EXCEPT !.loop = "stopping"] ELSE a

ten_app_is_closing(a) == a.state \in {"CLOSING", "ON_DEINIT_DONE"}

ten_app_has_no_work(a) ==
  /\ \A e \in Engines : a.engines[e] \in {"none", "gone"}
  /\ \A c \in Conns : a.orphans[c] \in {"none", "accepted", "gone"}

\* endpoint_protocol is NULL until the protocol has been created.
ten_app_could_be_close(a) ==
  ten_app_has_no_work(a) /\ a.endpoint \in {"none", "creating", "closed"}

ten_app_on_deinit(a) ==
  [a EXCEPT !.deinits = @ + 1, !.pending = @ \cup {"unregister"}]

ten_app_proceed_to_close(a) ==
  IF ten_app_could_be_close(a) THEN ten_app_on_deinit(a) ELSE a

ProceedIfClosing(a) ==
  IF ten_app_is_closing(a) THEN ten_app_proceed_to_close(a) ELSE a

\* Mutant: connections that no engine has taken over are left open.
CloseSyncSkipsOrphans(a) ==
  [a EXCEPT
     !.engines = [e \in Engines |-> IF @[e] = "running" THEN "closing" ELSE @[e]],
     !.endpoint = IF @ = "listening" THEN "closing" ELSE @]

\* ten_engine_close_async, ten_connection_close and ten_protocol_close do
\* nothing to what is closing already.
ten_app_close_sync(a) ==
  [a EXCEPT
     !.engines = [e \in Engines |-> IF @[e] = "running" THEN "closing" ELSE @[e]],
     !.orphans = [c \in Conns |-> IF @[c] = "open" THEN "closing" ELSE @[c]],
     !.endpoint = IF @ = "listening" THEN "closing" ELSE @]

ten_app_close_task(a) ==
  IF ten_app_could_be_close(a) THEN ten_app_proceed_to_close(a)
  ELSE ten_app_close_sync(a)

\* Under state_lock, so one step of whatever thread calls it.
ten_app_close(a) ==
  IF ten_app_is_closing(a) THEN a
  ELSE Post([a EXCEPT !.state = "CLOSING"], <<"close">>)

\* Mutant: a kept stop_graph command is forgotten.
TerminationForgetsStop(a, e) ==
  LET gone == [a EXCEPT !.engines[e] = "gone"]
      last == \A f \in Engines : gone.engines[f] \in {"none", "gone"}
  IN  ProceedIfClosing(
        IF ~config.longRunning /\ last THEN ten_app_close(gone) ELSE gone)

\* A kept stop_graph command is answered through the app's own queue.
ten_app_check_termination_when_engine_closed(a, e) ==
  LET told == IF stop[e] = "kept" THEN PushInMsg(a, <<"stop_ok", e>>) ELSE a
      gone == [told EXCEPT !.engines[e] = "gone"]
      last == \A f \in Engines : gone.engines[f] \in {"none", "gone"}
  IN  ProceedIfClosing(
        IF ~config.longRunning /\ last THEN ten_app_close(gone) ELSE gone)

-----------------------------------------------------------------------------
(* The thread of the app.                                                  *)

\* The thread of the app is between two tasks or callbacks.
Idle == batch = <<>> /\ checked = "no" /\ app.loop # "stopped"

TakesEvents == Idle /\ app.loop = "running"

\* Auto-start graphs are created before on_init is called; the state is set
\* without state_lock and whatever it was.
TriggerOnInit(a) ==
  [a EXCEPT !.state = "ON_INIT", !.pending = @ \cup {"init"},
            !.engines = [e \in Engines |-> IF e \in AutoStart /\ @[e] = "none"
                                           THEN "running" ELSE @[e]]]

\* ten_app_on_configure sets the state without state_lock and whatever it was.
ten_app_on_configure(a) ==
  [a EXCEPT !.state = "ON_CONFIGURE", !.pending = @ \cup {"configure"}]

ten_app_on_endpoint_protocol_created(a, ok) ==
  IF ok THEN TriggerOnInit([a EXCEPT !.endpoint = "listening"])
  ELSE ten_app_close([a EXCEPT !.endpoint = "none"])

NoProxyLeft(a) == \A p \in Proxies : a.proxies[p] \in {"none", "gone"}

\* For an app, closing is enough to stop the loop: unlike for an extension
\* and an extension group, on_deinit_done need not have been called.
ten_env_delete_ten_proxy(a, p) ==
  LET b == [a EXCEPT !.proxies[p] = "gone"]
  IN  IF NoProxyLeft(b) /\ ten_app_is_closing(b) THEN ten_runloop_stop(b) ELSE b

Runs(kind) == Idle /\ app.queue # <<>> /\ Head(app.queue)[1] = kind

Rest == [app EXCEPT !.queue = Tail(@)]

Only(a) == app' = a /\ UNCHANGED <<config, batch, checked, stop, sent>>

ten_app_handle_metadata_task ==
  Runs("metadata") /\ Only(ten_app_on_configure(Rest))

CloseTask == Runs("close") /\ Only(ten_app_close_task(Rest))

EndpointTask ==
  \/ /\ Runs("endpoint_created")
     /\ Only(ten_app_on_endpoint_protocol_created(Rest, TRUE))
  \/ /\ Runs("endpoint_failed")
     /\ Only(ten_app_on_endpoint_protocol_created(Rest, FALSE))

EngineClosedTask ==
  /\ Runs("engine_closed")
  /\ Only(ten_app_check_termination_when_engine_closed(Rest, Head(app.queue)[2]))

\* The app is closing, and its engines and connections have been told.
HasCloseRun(a) ==
  ten_app_is_closing(a) /\ \A i \in DOMAIN a.queue : a.queue[i] # <<"close">>

\* The connection is made, whatever has become of the app since the client
\* was accepted.
ten_app_thread_on_client_protocol_created ==
  /\ Runs("client")
  /\ Only([Rest EXCEPT !.orphans[Head(app.queue)[2]] = "open",
                       !.late = @ \/ HasCloseRun(app)])

ProxyTask ==
  Runs("proxy") /\ Only(ten_env_delete_ten_proxy(Rest, Head(app.queue)[2]))

\* ten_app_handle_in_msgs_sync: the whole list is taken, also the messages
\* whose own task is still queued.
InMsgsTask ==
  /\ Runs("in_msgs")
  /\ app' = [Rest EXCEPT !.inMsgs = <<>>]
  /\ batch' = app.inMsgs
  /\ UNCHANGED <<config, checked, stop, sent>>

\* There is no check whether the app is closing.
StartGraph(a, e) ==
  IF a.engines[e] = "none"
  THEN [a EXCEPT !.engines[e] = "running", !.late = @ \/ HasCloseRun(a)]
  ELSE a

\* The app passes the command on to the engine it names, when it has it.
ten_app_handle_stop_graph_cmd(a, e) ==
  IF a.engines[e] \in {"none", "gone"} THEN PushInMsg(a, <<"stop_error", e>>)
  ELSE a

ten_app_handle_in_msg ==
  /\ batch # <<>>
  /\ LET m == Head(batch)
     IN  /\ app' = CASE m[1] = "start_graph" -> StartGraph(app, m[2])
                     [] m[1] = "stop_graph" ->
                          ten_app_handle_stop_graph_cmd(app, m[2])
                     [] m[1] \in {"close_app", "start_failed"} ->
                          ten_app_close(app)
                     [] OTHER -> app
         /\ stop' = CASE m[1] = "stop_graph"
                           /\ app.engines[m[2]] \notin {"none", "gone"} ->
                           [stop EXCEPT ![m[2]] = "mail"]
                      [] m[1] = "stop_ok" -> [stop EXCEPT ![m[2]] = "ok"]
                      [] m[1] = "stop_error" -> [stop EXCEPT ![m[2]] = "error"]
                      [] OTHER -> stop
  /\ batch' = Tail(batch)
  /\ UNCHANGED <<config, checked, sent>>

-----------------------------------------------------------------------------
(* The program's answers to the callbacks.                                 *)

\* The state is read, and written a moment later, without state_lock.
ten_app_on_configure_done ==
  /\ Idle
  /\ "configure" \in app.pending
  /\ app' = [app EXCEPT !.pending = @ \ {"configure"}]
  /\ checked' = IF app.state = "ON_CONFIGURE" THEN "configure" ELSE "no"
  /\ UNCHANGED <<config, batch, stop, sent>>

SetConfigureDone ==
  /\ checked = "configure"
  /\ app' = [app EXCEPT !.state = "ON_CONFIGURE_DONE", !.pending = @ \cup {"load"}]
  /\ checked' = "no"
  /\ UNCHANGED <<config, batch, stop, sent>>

\* ten_app_continue_run_after_load_all_extensions_if_specified, once the
\* addons are there; its error path closes the app.
ContinueRun ==
  /\ TakesEvents
  /\ "load" \in app.pending
  /\ LET a == [app EXCEPT !.pending = @ \ {"load"}]
     IN  \/ Only(ten_app_close(a))
         \/ /\ config.endpoint
            /\ Only([a EXCEPT !.endpoint = "creating"])
         \/ /\ ~config.endpoint
            /\ Only(TriggerOnInit(a))

\* External: the protocol addon has made the endpoint, or failed to.
AddonCreatesEndpoint ==
  /\ app.endpoint = "creating"
  /\ app.loop = "running"
  /\ \A i \in DOMAIN app.queue :
       app.queue[i][1] \notin {"endpoint_created", "endpoint_failed"}
  /\ \/ Only(Post(app, <<"endpoint_created">>))
     \/ Only(Post(app, <<"endpoint_failed">>))

\* Mutant: the state is not looked at.
InitDoneUnchecked ==
  /\ Idle
  /\ "init" \in app.pending
  /\ app' = [app EXCEPT !.pending = @ \ {"init"}]
  /\ checked' = "init"
  /\ UNCHANGED <<config, batch, stop, sent>>

ten_app_on_init_done ==
  /\ Idle
  /\ "init" \in app.pending
  /\ app' = [app EXCEPT !.pending = @ \ {"init"}]
  /\ checked' = IF app.state = "ON_INIT" THEN "init" ELSE "no"
  /\ UNCHANGED <<config, batch, stop, sent>>

SetInitDone ==
  /\ checked = "init"
  /\ app' = [app EXCEPT !.state = "ON_INIT_DONE"]
  /\ checked' = "no"
  /\ UNCHANGED <<config, batch, stop, sent>>

ten_app_on_all_addons_unregistered ==
  /\ Idle
  /\ "unregister" \in app.pending
  /\ Only([app EXCEPT !.pending = (@ \ {"unregister"}) \cup {"deinit"}])

\* Mutant: the loop does not wait for the proxies.
DeinitDoneStopsAlways ==
  /\ Idle
  /\ "deinit" \in app.pending
  /\ LET a == [app EXCEPT !.pending = @ \ {"deinit"}]
     IN  Only(IF a.state # "CLOSING" THEN a
              ELSE ten_runloop_stop([a EXCEPT !.state = "ON_DEINIT_DONE"]))

ten_app_on_deinit_done ==
  /\ Idle
  /\ "deinit" \in app.pending
  /\ LET a == [app EXCEPT !.pending = @ \ {"deinit"}]
         done == [a EXCEPT !.state = "ON_DEINIT_DONE"]
     IN  Only(IF a.state # "CLOSING" THEN a
              ELSE IF NoProxyLeft(done) THEN ten_runloop_stop(done) ELSE done)

\* The loop ends when what was queued before the stop has run.
LoopEnds ==
  /\ Idle
  /\ app.loop = "stopping"
  /\ app.queue = <<>>
  /\ Only([app EXCEPT !.loop = "stopped"])

-----------------------------------------------------------------------------
(* Engines, connections, and other threads.                                *)

\* An engine without a loop of its own runs in the thread of the app.
EngineTurn == app.loop = "running" /\ (config.ownLoop \/ Idle)

Alive(e) == app.engines[e] \in {"running", "closing"}

\* ten_app_push_to_in_msgs_queue, for a command or a result of engine e.
EngineSends(e) ==
  /\ EngineTurn
  /\ Alive(e)
  /\ sent < MaxMsgs
  /\ sent' = sent + 1
  /\ UNCHANGED <<config, batch, checked>>
  /\ \/ \E f \in Engines :
          /\ app.engines[f] = "none"
          /\ app' = PushInMsg(app, <<"start_graph", f>>)
          /\ UNCHANGED stop
     \/ \E f \in Engines \ {e} :
          /\ stop[f] = "none"
          /\ app' = PushInMsg(app, <<"stop_graph", f>>)
          /\ stop' = [stop EXCEPT ![f] = "sent"]
     \/ app' = PushInMsg(app, <<"close_app">>) /\ UNCHANGED stop
     \/ /\ e \in AutoStart
        /\ app' = PushInMsg(app, <<"start_failed">>)
        /\ UNCHANGED stop

\* Its own stop_graph command, or the end of what it was made for.
EngineStops(e) ==
  /\ EngineTurn
  /\ app.engines[e] = "running"
  /\ Only([app EXCEPT !.engines[e] = "closing"])

\* ten_engine_handle_cmd_stop_graph: kept until the engine has closed.
ten_engine_handle_cmd_stop_graph(e) ==
  /\ EngineTurn
  /\ Alive(e)
  /\ stop[e] = "mail"
  /\ app' = [app EXCEPT !.engines[e] = "closing"]
  /\ stop' = [stop EXCEPT ![e] = "kept"]
  /\ UNCHANGED <<config, batch, checked, sent>>

\* A command that the queue of the engine still holds is dropped.
ten_app_on_engine_closed(e) ==
  /\ EngineTurn
  /\ app.engines[e] = "closing"
  /\ app' = IF config.ownLoop
            THEN Post([app EXCEPT !.engines[e] = "closed"], <<"engine_closed", e>>)
            ELSE ten_app_check_termination_when_engine_closed(app, e)
  /\ stop' = [stop EXCEPT ![e] = IF @ = "mail" THEN "lost" ELSE @]
  /\ UNCHANGED <<config, batch, checked, sent>>

\* The addon of the protocol answers within the call: its answer is a task of
\* the app.
ten_transport_on_client_accepted(c) ==
  /\ TakesEvents
  /\ app.endpoint = "listening"
  /\ app.orphans[c] = "none"
  /\ Only(Post([app EXCEPT !.orphans[c] = "accepted"], <<"client", c>>))

\* The first command of a client: start_graph takes the connection to the
\* engine, close_app leaves it with the app.
ClientSends(c) ==
  /\ TakesEvents
  /\ app.orphans[c] = "open"
  /\ \/ \E e \in Engines :
          /\ app.engines[e] = "none"
          /\ Only(StartGraph([app EXCEPT !.orphans[c] = "gone"], e))
     \/ Only(ten_app_close(app))

ClientDrops(c) ==
  /\ TakesEvents
  /\ app.orphans[c] = "open"
  /\ Only([app EXCEPT !.orphans[c] = "closing"])

ten_app_on_orphan_connection_closed(c) ==
  /\ TakesEvents
  /\ app.orphans[c] = "closing"
  /\ Only(ProceedIfClosing([app EXCEPT !.orphans[c] = "gone"]))

\* The callback of libuv comes after the round of tasks that has closed the
\* endpoint, with the tasks of clients that were accepted before.
ten_app_on_protocol_closed ==
  /\ TakesEvents
  /\ app.endpoint = "closing"
  /\ \A c \in Conns : app.orphans[c] # "accepted"
  /\ Only(ProceedIfClosing([app EXCEPT !.endpoint = "closed"]))

ForeignClose ==
  /\ app.loop = "running"
  /\ app.state \in CloseFrom
  /\ Only(ten_app_close(app))

\* A proxy is made in a callback of the app.
NewProxy(p) ==
  /\ TakesEvents
  /\ app.pending \cap {"configure", "init"} # {}
  /\ app.proxies[p] = "none"
  /\ Only([app EXCEPT !.proxies[p] = "held"])

\* ten_env_proxy_release of the last holder posts a task.
ReleaseProxy(p) ==
  /\ app.loop = "running"
  /\ app.proxies[p] = "held"
  /\ EarlyRelease \/ app.state = "ON_DEINIT_DONE"
  /\ Only(Post([app EXCEPT !.proxies[p] = "releasing"], <<"proxy", p>>))

Tasks_ ==
  \/ ten_app_handle_metadata_task \/ CloseTask \/ EndpointTask
  \/ EngineClosedTask \/ ten_app_thread_on_client_protocol_created \/ ProxyTask
  \/ InMsgsTask

AppThread ==
  \/ Tasks_
  \/ ten_app_handle_in_msg
  \/ ten_app_on_configure_done \/ SetConfigureDone \/ ContinueRun
  \/ ten_app_on_init_done \/ SetInitDone
  \/ ten_app_on_all_addons_unregistered \/ ten_app_on_deinit_done
  \/ LoopEnds
  \/ \E c \in Conns : ten_app_on_orphan_connection_closed(c)
  \/ ten_app_on_protocol_closed

Next ==
  \/ AppThread
  \/ AddonCreatesEndpoint
  \/ \E e \in Engines :
       \/ EngineSends(e) \/ EngineStops(e)
       \/ ten_engine_handle_cmd_stop_graph(e) \/ ten_app_on_engine_closed(e)
  \/ \E c \in Conns : 
       ten_transport_on_client_accepted(c) \/ ClientSends(c) \/ ClientDrops(c)
  \/ ForeignClose
  \/ \E p \in Proxies : NewProxy(p) \/ ReleaseProxy(p)

Spec == Init /\ [][Next]_vars

\* The thread of the app runs what its loop has for it, the program answers
\* every callback, a closing engine closes, and the program gives its proxies
\* back after on_deinit_done.
FairSpec ==
  /\ Spec
  /\ WF_vars(AppThread)
  /\ WF_vars(AddonCreatesEndpoint)
  /\ \A e \in Engines : WF_vars(ten_app_on_engine_closed(e))
  /\ \A p \in Proxies : WF_vars(ReleaseProxy(p) /\ app.state = "ON_DEINIT_DONE")

-----------------------------------------------------------------------------
(* Properties.                                                             *)

EnginesGone == \A e \in Engines : app.engines[e] \in {"none", "gone"}

\* When ten_app_on_deinit has been called, which gives the endpoint away and
\* unregisters the addons, no connection and no endpoint is left, and no
\* engine unless it was started since: a start_graph command that the app has
\* not handled yet outlives its sender only when engines share the app's loop.
DeinitAfterClosed ==
  app.deinits > 0 =>
    /\ \A c \in Conns : app.orphans[c] \in {"none", "gone"}
    /\ app.endpoint \in {"none", "closed"}
    /\ config.ownLoop => EnginesGone

\* An app with an endpoint calls on_deinit once, in whatever order its
\* engines, its connections and its endpoint close (ten_app_proceed_to_close
\* is called by each of them); again unless an engine was started since.
DeinitOnce == config.endpoint /\ config.ownLoop => app.deinits <= 1

\* The loop of the app, which its engines, connections and proxies need,
\* stops only when on_deinit_done has been called and they are gone
\* (ten_app_on_deinit_done, ten_app_on_ten_env_proxy_released).
LoopStopsLast ==
  app.loop # "running" =>
    /\ app.state = "ON_DEINIT_DONE"
    /\ NoProxyLeft(app)
    /\ config.ownLoop => EnginesGone

\* The end of an app comes after the end of all it holds, and on_deinit only
\* once.
EndsLast == TypeOK /\ DeinitAfterClosed /\ DeinitOnce /\ LoopStopsLast

\* A write of the start to app->state is on its way, which nothing stops any
\* more: on_configure, what comes after the addons are loaded or the endpoint is
\* made, and the write of an xxx_done that has checked the state.
StartWrites ==
  \/ checked # "no"
  \/ "load" \in app.pending
  \/ app.endpoint = "creating"
  \/ \E i \in DOMAIN app.queue :
       app.queue[i][1] \in {"metadata", "endpoint_created", "endpoint_failed"}

\* Whoever closes the app when, the close is lost only to a write of the start
\* that was on its way before: otherwise the app stays closing, and neither the
\* xxx_done of a callback that is still open, nor a graph, a client, a proxy or
\* an engine that ends begins such a write.
CloseHolds ==
  [][ten_app_is_closing(app) /\ ~StartWrites
       => (ten_app_is_closing(app) /\ ~StartWrites)']_vars

\* A closing app ends its loop: whatever it holds closes and tells it.  Only
\* an engine or a connection that it gets after it has told them to close,
\* which nobody closes, keeps it (start_graph and a client whose protocol is
\* being created are not refused by a closing app).
CloseCompletes == ten_app_is_closing(app) ~> (app.loop = "stopped" \/ app.late)

\* A stop_graph command of another graph is answered with success only when
\* the graph it names is gone: the engine keeps the command while it closes,
\* the app answers it when it takes the engine off its list, and no start of a
\* graph brings the engine back.
OkMeansGone == \A e \in Engines : stop[e] = "ok" => app.engines[e] = "gone"

\* A stop_graph command that an engine keeps until it has closed is answered
\* after that and not before, also when the app ends with this engine: the
\* answer passes the queue of the app, and what is queued still runs when the
\* loop is stopped.
KeptStopAnswered ==
  /\ []OkMeansGone
  /\ \A e \in Engines :
       (stop[e] = "kept" /\ config.ownLoop) ~> (stop[e] = "ok")
=============================================================================
