--------------------------- MODULE GraphLifeCycle ---------------------------
(***************************************************************************)
(* Starting and closing one graph: the engine, its extension context and   *)
(* its extension threads (core/src/ten_runtime/{engine, extension_context, *)
(* extension_thread, extension_group}).                                    *)
(*                                                                         *)
(* The engine and every extension thread run a runloop: a queue of tasks   *)
(* that others append to.  The extensions of a thread are created and      *)
(* destroyed asynchronously by the addon manager.  The specification       *)
(* starts when ten_extension_context_start has started the threads for a   *)
(* start_graph command.                                                    *)
(*                                                                         *)
(* The life cycle of an extension (module ExtensionLifeCycle) is cut down  *)
(* to what its thread can see of it: it is in a callback (on_xxx), between *)
(* two (xxx_done), on its way through on_stop and on_deinit (stopping), or *)
(* has finished that (deinit_done).  Its stop stage is automatic.          *)
(***************************************************************************)
EXTENDS Naturals, Sequences, FiniteSets

CONSTANTS
  Threads,         \* the extension threads, one per extension group of the graph
  Names,           \* names of extensions within a group
  MaxCloseRequests \* bound on the calls of ten_engine_close_async from outside

ASSUME GraphAssumption ==
  IsFiniteSet(Threads) /\ IsFiniteSet(Names) /\ MaxCloseRequests \in Nat

Exts == Threads \X Names

VARIABLES
  engine_q,          \* tasks in the runloop of the engine
  thread_q,          \* tasks in the runloop of each thread
  wanted,            \* the extensions the graph puts into each group
  is_closing,        \* engine->is_closing
  close_requests,    \* calls of ten_engine_close_async from outside
  extension_threads, \* extension_context->extension_threads
  cnt_of_ready,      \* extension_threads_cnt_of_ready
  cnt_of_closed,     \* extension_threads_cnt_of_closed
  total_cnt,         \* extension_threads_total_cnt
  engine_closed,     \* extension context and engine have been closed
  start_results,     \* answers to the start_graph command
  state,             \* extension_thread->state, or "DESTROYED"
  close_triggered,   \* extension_thread->is_close_triggered
  err_before_ready,  \* threads whose group has err_before_ready set
  extensions,        \* extension_thread->extensions
  cnt_of_deleted,    \* extensions_cnt_of_deleted
  life               \* where each extension is in its life

vars == <<engine_q, thread_q, wanted, is_closing, close_requests, extension_threads,
          cnt_of_ready, cnt_of_closed, total_cnt, engine_closed, start_results, state,
          close_triggered, err_before_ready, extensions, cnt_of_deleted, life>>
engineVars == <<wanted, is_closing, close_requests, extension_threads, cnt_of_ready,
                cnt_of_closed, total_cnt, engine_closed, start_results>>
threadVars == <<state, close_triggered, err_before_ready, extensions, cnt_of_deleted>>

EngineTasks == {"find_info", "remove", "closed"} \X Threads \cup {<<"close">>}
ThreadTasks ==
  {"start_msg", "group_init_done", "close", "start", "stop", "all_deleted",
   "group_deinit_done", "removed"}
States == {"INIT", "CREATING", "NORMAL", "PREPARE_TO_CLOSE", "CLOSED", "DESTROYED"}
Lives == {"absent", "creating", "failed", "init", "on_xxx", "xxx_done", "stopping",
          "deinit_done", "deleted", "destroyed"}

Init ==
  /\ engine_q = << >>
  /\ thread_q = [t \in Threads |-> <<"start_msg">>]
  /\ wanted \in [Threads -> SUBSET Names]
  /\ is_closing = FALSE /\ close_requests = 0
  /\ extension_threads = Threads
  /\ cnt_of_ready = 0 /\ cnt_of_closed = 0 /\ total_cnt = 0
  /\ engine_closed = FALSE /\ start_results = << >>
  /\ state = [t \in Threads |-> "INIT"]
  /\ close_triggered = [t \in Threads |-> FALSE]
  /\ err_before_ready = {}
  /\ extensions = [t \in Threads |-> {}]
  /\ cnt_of_deleted = [t \in Threads |-> 0]
  /\ life = [e \in Exts |-> "absent"]

-----------------------------------------------------------------------------
(* Runloops.                                                               *)

EngineRuns(task) == engine_q # << >> /\ Head(engine_q) = task
ThreadRuns(t, task) == thread_q[t] # << >> /\ Head(thread_q[t]) = task

\* Thread t takes its first task and appends new ones to its own queue.
Take(t, new) == thread_q' = [thread_q EXCEPT ![t] = Tail(@) \o new]
PostToEngine(task) == engine_q' = Append(engine_q, task)
SetState(t, s) == state' = [state EXCEPT ![t] = s]

\* The extensions of a thread that are in one of the given places move on.
Move(t, from, to) ==
  life' = [e \in Exts |-> IF e[1] = t /\ e[2] \in extensions[t] /\ life[e] = from
                          THEN to ELSE life[e]]

-----------------------------------------------------------------------------
(* The start flow.                                                         *)

\* ten_extension_thread_handle_start_msg_task: the builtin group is done with
\* its on_init at once.
StartMsg(t) ==
  /\ ThreadRuns(t, "start_msg")
  /\ Take(t, <<"group_init_done">>)
  /\ UNCHANGED <<engine_q, engineVars, threadVars, life>>

\* The created extensions become those of the thread; the engine is told.
AddAllCreatedExtensions(t, created) ==
  /\ extensions' = [extensions EXCEPT ![t] = created]
  /\ PostToEngine(<<"find_info", t>>)

\* ten_extension_group_on_create_extensions_done: failures are taken out.
CreateExtensionsDone(t, lives) ==
  LET created == {x \in wanted[t] : lives[<<t, x>>] = "init"}
  IN
  /\ err_before_ready' = IF created = wanted[t] THEN err_before_ready
                         ELSE err_before_ready \cup {t}
  /\ AddAllCreatedExtensions(t, created)

\* The builtin group asks the addon manager for its extensions, and is done
\* at once when it has none.
CreateExtensions(t) ==
  /\ life' = [e \in Exts |-> IF e[1] = t /\ e[2] \in wanted[t] THEN "creating"
                             ELSE life[e]]
  /\ IF wanted[t] = {} THEN CreateExtensionsDone(t, life)
     ELSE UNCHANGED <<extensions, err_before_ready, engine_q>>

\* ten_extension_thread_on_extension_group_on_init_done
GroupInitDone(t) ==
  /\ ThreadRuns(t, "group_init_done")
  /\ Take(t, << >>)
  /\ IF close_triggered[t]
     THEN UNCHANGED <<state, life, extensions, err_before_ready, engine_q>>
     ELSE SetState(t, "CREATING") /\ CreateExtensions(t)
  /\ UNCHANGED <<engineVars, close_triggered, cnt_of_deleted>>

\* The addon manager answers for one extension, with or without an instance;
\* the last answer completes the creation.  An addon that cannot be found is
\* recorded at once, any other failure then.
AddonCreated(t, x) ==
  /\ life[<<t, x>>] = "creating"
  /\ \E l \in {"init", "failed"} : life' = [life EXCEPT ![<<t, x>>] = l]
  /\ IF \A y \in wanted[t] \ {x} : life[<<t, y>>] # "creating"
     THEN CreateExtensionsDone(t, life')
     ELSE /\ err_before_ready' \in
               {err_before_ready, err_before_ready \cup {u \in {t} : life'[<<u, x>>] = "failed"}}
          /\ UNCHANGED <<extensions, engine_q>>
  /\ UNCHANGED <<thread_q, engineVars, state, close_triggered, cnt_of_deleted>>

\* Mutant: a failed creation is answered at once, not with the last thread.
CheckIfAllReadyFailsEarly(tasks) ==
  LET failed == extension_threads \cap err_before_ready # {}
  IN
  /\ cnt_of_ready' = cnt_of_ready + 1
  /\ start_results' = IF cnt_of_ready' = Cardinality(extension_threads) \/ failed
                      THEN Append(start_results, IF failed THEN "error" ELSE "ok")
                      ELSE start_results
  /\ engine_q' = IF failed THEN Append(tasks, <<"close">>) ELSE tasks

\* ten_engine_check_if_all_extension_threads_are_ready: the last thread makes
\* the engine answer start_graph; a failed creation closes the graph.
CheckIfAllReady(tasks) ==
  LET all == cnt_of_ready' = Cardinality(extension_threads)
      failed == extension_threads \cap err_before_ready # {}
  IN
  /\ cnt_of_ready' = cnt_of_ready + 1
  /\ start_results' = IF ~all THEN start_results
                      ELSE Append(start_results, IF failed THEN "error" ELSE "ok")
  /\ engine_q' = IF all /\ failed THEN Append(tasks, <<"close">>) ELSE tasks

\* The engine looks up the extension infos, then starts or stops the thread.
\* is_close_triggered belongs to the thread and is read without a lock: an
\* older value may be seen.
FindExtensionInfo(t) ==
  /\ EngineRuns(<<"find_info", t>>)
  /\ \E seen \in {FALSE, close_triggered[t]} :
       IF seen
       THEN /\ thread_q' = [thread_q EXCEPT ![t] = Append(@, "stop")]
            /\ engine_q' = Tail(engine_q)
            /\ UNCHANGED <<cnt_of_ready, start_results>>
       ELSE /\ CheckIfAllReady(Tail(engine_q))
            /\ thread_q' = [thread_q EXCEPT ![t] = Append(@, "start")]
  /\ UNCHANGED <<wanted, is_closing, close_requests, extension_threads, cnt_of_closed,
                 total_cnt, engine_closed, threadVars, life>>

\* ten_extension_thread_start_life_cycle_of_all_extensions_task
StartLifeCycle(t) ==
  /\ ThreadRuns(t, "start")
  /\ Take(t, << >>)
  /\ IF close_triggered[t] THEN UNCHANGED <<state, life>>
     ELSE SetState(t, "NORMAL") /\ Move(t, "init", "on_xxx")
  /\ UNCHANGED <<engine_q, engineVars, close_triggered, err_before_ready, extensions,
                 cnt_of_deleted>>

\* Mutant: on_xxx_done does not look at is_close_triggered.
ExtensionDoneIgnoresClose(e) ==
  /\ life[e] = "on_xxx"
  /\ life' = [life EXCEPT ![e] = "xxx_done"]
  /\ UNCHANGED <<engine_q, thread_q, engineVars, threadVars>>

\* An extension calls on_xxx_done, and stops when its thread is closing.
ExtensionDone(e) ==
  /\ life[e] = "on_xxx"
  /\ life' = [life EXCEPT ![e] = IF close_triggered[e[1]] THEN "stopping" ELSE "xxx_done"]
  /\ UNCHANGED <<engine_q, thread_q, engineVars, threadVars>>

\* The next callback of the start flow.
ExtensionNext(e) ==
  /\ life[e] = "xxx_done"
  /\ life' = [life EXCEPT ![e] = "on_xxx"]
  /\ UNCHANGED <<engine_q, thread_q, engineVars, threadVars>>

-----------------------------------------------------------------------------
(* The close flow, top-down.                                               *)

\* ten_engine_close_async, from ten_app_close or a stop_graph command.
CloseEngineAsync ==
  /\ close_requests < MaxCloseRequests
  /\ ~engine_closed
  /\ close_requests' = close_requests + 1
  /\ PostToEngine(<<"close">>)
  /\ UNCHANGED <<thread_q, wanted, is_closing, extension_threads, cnt_of_ready,
                 cnt_of_closed, total_cnt, engine_closed, start_results, threadVars, life>>

\* Every thread is told to close; a context without threads closes at once.
ten_extension_context_close ==
  /\ cnt_of_closed' = 0
  /\ total_cnt' = Cardinality(extension_threads)
  /\ engine_closed' = (extension_threads = {})
  /\ thread_q' = [t \in Threads |->
                    IF t \in extension_threads THEN Append(thread_q[t], "close")
                    ELSE thread_q[t]]

\* ten_engine_close_task
CloseEngine ==
  /\ EngineRuns(<<"close">>)
  /\ engine_q' = Tail(engine_q)
  /\ is_closing' = TRUE
  /\ IF is_closing
     THEN UNCHANGED <<cnt_of_closed, total_cnt, engine_closed, thread_q>>
     ELSE ten_extension_context_close
  /\ UNCHANGED <<wanted, close_requests, extension_threads, cnt_of_ready, start_results,
                 threadVars, life>>

\* ten_extension_thread_stop_life_cycle_of_all_extensions: only extensions
\* between two callbacks are stopped here; an empty group is done.
StopLifeCycle(t) ==
  /\ SetState(t, "PREPARE_TO_CLOSE")
  /\ IF extensions[t] = {}
     THEN Take(t, <<"group_deinit_done">>) /\ UNCHANGED life
     ELSE Take(t, << >>) /\ Move(t, "xxx_done", "stopping")

\* Mutant: the thread does not wait for its extensions to be created.
TriggeringCloseNow(t) ==
  /\ ThreadRuns(t, "close")
  /\ close_triggered' = [close_triggered EXCEPT ![t] = TRUE]
  /\ \/ state[t] = "INIT" /\ Take(t, <<"group_deinit_done">>) /\ UNCHANGED <<state, life>>
     \/ state[t] # "INIT" /\ StopLifeCycle(t)
  /\ UNCHANGED <<engine_q, engineVars, err_before_ready, extensions, cnt_of_deleted>>

\* ten_extension_thread_on_triggering_close
TriggeringClose(t) ==
  /\ ThreadRuns(t, "close")
  /\ close_triggered' = [close_triggered EXCEPT ![t] = TRUE]
  /\ \/ /\ ~close_triggered[t] /\ state[t] = "INIT"
        /\ Take(t, <<"group_deinit_done">>) /\ UNCHANGED <<state, life>>
     \/ /\ close_triggered[t] \/ state[t] = "CREATING"
        /\ Take(t, << >>) /\ UNCHANGED <<state, life>>
     \/ ~close_triggered[t] /\ state[t] = "NORMAL" /\ StopLifeCycle(t)
  /\ UNCHANGED <<engine_q, engineVars, err_before_ready, extensions, cnt_of_deleted>>

\* ten_extension_thread_stop_life_cycle_of_all_extensions_task
StopTask(t) ==
  /\ ThreadRuns(t, "stop")
  /\ StopLifeCycle(t)
  /\ UNCHANGED <<engine_q, engineVars, close_triggered, err_before_ready, extensions,
                 cnt_of_deleted>>

-----------------------------------------------------------------------------
(* The close flow, bottom-up.                                              *)

\* on_stop, on_deinit and on_deinit_done have passed: the deletion is posted.
ExtensionDeinitDone(e) ==
  /\ life[e] = "stopping"
  /\ life' = [life EXCEPT ![e] = "deinit_done"]
  /\ UNCHANGED <<engine_q, thread_q, engineVars, threadVars>>

\* ten_extension_thread_del_extension; the last one has all destroyed.
DelExtension(e) ==
  /\ life[e] = "deinit_done"
  /\ life' = [life EXCEPT ![e] = "deleted"]
  /\ cnt_of_deleted' = [cnt_of_deleted EXCEPT ![e[1]] = @ + 1]
  /\ UNCHANGED <<engine_q, thread_q, engineVars, state, close_triggered, err_before_ready,
                 extensions>>

\* The addon manager has destroyed one extension; the last one reports.
AddonDestroyed(t, x) ==
  /\ life[<<t, x>>] = "deleted"
  /\ cnt_of_deleted[t] = Cardinality(extensions[t])
  /\ life' = [life EXCEPT ![<<t, x>>] = "destroyed"]
  /\ thread_q' = IF \A y \in extensions[t] \ {x} : life[<<t, y>>] = "destroyed"
                 THEN [thread_q EXCEPT ![t] = Append(@, "all_deleted")]
                 ELSE thread_q
  /\ UNCHANGED <<engine_q, engineVars, threadVars>>

\* ten_extension_thread_on_all_extensions_deleted: on_deinit of the group,
\* which the builtin group is done with at once.
AllExtensionsDeleted(t) ==
  /\ ThreadRuns(t, "all_deleted")
  /\ extensions' = [extensions EXCEPT ![t] = {}]
  /\ Take(t, <<"group_deinit_done">>)
  /\ UNCHANGED <<engine_q, engineVars, state, close_triggered, err_before_ready,
                 cnt_of_deleted, life>>

\* Mutant: the thread reports that it is closed before it is removed.
GroupDeinitDoneSwapped(t) ==
  /\ ThreadRuns(t, "group_deinit_done")
  /\ Take(t, << >>)
  /\ engine_q' = engine_q \o <<<<"closed", t>>, <<"remove", t>>>>
  /\ UNCHANGED <<engineVars, threadVars, life>>

\* ten_extension_thread_on_extension_group_on_deinit_done
GroupDeinitDone(t) ==
  /\ ThreadRuns(t, "group_deinit_done")
  /\ Take(t, << >>)
  /\ PostToEngine(<<"remove", t>>)
  /\ UNCHANGED <<engineVars, threadVars, life>>

\* ten_engine_on_remove_extension_thread_from_engine
RemoveThread(t) ==
  /\ EngineRuns(<<"remove", t>>)
  /\ engine_q' = Tail(engine_q)
  /\ extension_threads' = extension_threads \ {t}
  /\ thread_q' = [thread_q EXCEPT ![t] = Append(@, "removed")]
  /\ UNCHANGED <<wanted, is_closing, close_requests, cnt_of_ready, cnt_of_closed, total_cnt,
                 engine_closed, start_results, threadVars, life>>

\* The last thing a thread does when its runloop has stopped.
NotifyEngineWeAreClosed(t) ==
  /\ SetState(t, "CLOSED")
  /\ PostToEngine(<<"closed", t>>)

\* The group is destroyed, the runloop stops and the thread ends.
RemovedFromEngine(t) ==
  /\ ThreadRuns(t, "removed")
  /\ thread_q' = [thread_q EXCEPT ![t] = << >>]
  /\ NotifyEngineWeAreClosed(t)
  /\ UNCHANGED <<engineVars, close_triggered, err_before_ready, extensions, cnt_of_deleted,
                 life>>

\* ten_extension_context_on_close: the last thread closes the context, and
\* the context the engine.
ten_extension_context_on_close == engine_closed' = (cnt_of_closed' = total_cnt)

\* ten_engine_on_extension_thread_closed_task: the thread is joined and
\* destroyed.
ThreadClosed(t) ==
  /\ EngineRuns(<<"closed", t>>)
  /\ engine_q' = Tail(engine_q)
  /\ SetState(t, "DESTROYED")
  /\ cnt_of_closed' = cnt_of_closed + 1
  /\ ten_extension_context_on_close
  /\ UNCHANGED <<thread_q, wanted, is_closing, close_requests, extension_threads,
                 cnt_of_ready, total_cnt, start_results, close_triggered, err_before_ready,
                 extensions, cnt_of_deleted, life>>

-----------------------------------------------------------------------------

EngineStep ==
  \/ CloseEngine
  \/ \E t \in Threads : FindExtensionInfo(t) \/ RemoveThread(t) \/ ThreadClosed(t)

ThreadStep(t) ==
  \/ StartMsg(t) \/ GroupInitDone(t) \/ StartLifeCycle(t) \/ TriggeringClose(t)
  \/ StopTask(t) \/ AllExtensionsDeleted(t) \/ GroupDeinitDone(t) \/ RemovedFromEngine(t)

AddonStep(t, x) == AddonCreated(t, x) \/ AddonDestroyed(t, x)

ExtensionStep(e) == ExtensionDone(e) \/ ExtensionDeinitDone(e) \/ DelExtension(e)

Next ==
  \/ EngineStep \/ CloseEngineAsync
  \/ \E t \in Threads : ThreadStep(t)
  \/ \E t \in Threads, x \in Names : AddonStep(t, x)
  \/ \E e \in Exts : ExtensionStep(e) \/ ExtensionNext(e)

Spec == Init /\ [][Next]_vars

(* Runloops run their tasks, the addon manager answers, and an extension   *)
(* completes the callbacks it is in.  Nobody has to close the graph.       *)
Fairness ==
  /\ WF_vars(EngineStep)
  /\ \A t \in Threads : WF_vars(ThreadStep(t))
  /\ \A t \in Threads, x \in Names : WF_vars(AddonStep(t, x))
  /\ \A e \in Exts : WF_vars(ExtensionStep(e))

FairSpec == Spec /\ Fairness

-----------------------------------------------------------------------------
(* Properties.                                                             *)

\* The type invariant: no extension is deleted twice, no thread is counted
\* twice.
TypeOK ==
  /\ engine_q \in Seq(EngineTasks)
  /\ thread_q \in [Threads -> Seq(ThreadTasks)]
  /\ wanted \in [Threads -> SUBSET Names]
  /\ is_closing \in BOOLEAN /\ engine_closed \in BOOLEAN
  /\ close_requests \in 0 .. MaxCloseRequests
  /\ extension_threads \subseteq Threads
  /\ cnt_of_ready \in 0 .. Cardinality(Threads)
  /\ cnt_of_closed \in 0 .. Cardinality(Threads) /\ total_cnt \in 0 .. Cardinality(Threads)
  /\ start_results \in Seq({"ok", "error"})
  /\ state \in [Threads -> States]
  /\ close_triggered \in [Threads -> BOOLEAN]
  /\ err_before_ready \subseteq Threads
  /\ extensions \in [Threads -> SUBSET Names]
  /\ cnt_of_deleted \in [Threads -> 0 .. Cardinality(Names)]
  /\ life \in [Exts -> Lives]

InEngineQueue(task) == \E i \in 1 .. Len(engine_q) : engine_q[i] = task

\* The engine writes to the extensions of a thread from its own thread while
\* the task find_info is on its way: meanwhile the thread neither starts,
\* stops nor deletes any of them.
FindInfoExclusive ==
  \A t \in Threads :
    InEngineQueue(<<"find_info", t>>) =>
      /\ state[t] = "CREATING"
      /\ \A x \in extensions[t] : life[<<t, x>>] = "init"

Ended(t) == state[t] \in {"CLOSED", "DESTROYED"}

\* Neither runloop has a task left that would touch the thread, except the
\* one that destroys it.
NoTaskOf(t) ==
  /\ thread_q[t] = << >>
  /\ \A i \in 1 .. Len(engine_q) :
       engine_q[i] # <<"close">> /\ engine_q[i][2] = t =>
         state[t] = "CLOSED" /\ engine_q[i][1] = "closed"

ExtensionsGone(t) ==
  /\ extensions[t] = {}
  /\ \A x \in Names : life[<<t, x>>] \in {"absent", "failed", "destroyed"}

\* A graph closes from the inside: a thread that has ended has no extension
\* left (ten_extension_thread_destroy asserts it) and is referred to by no
\* task, and the engine ends after all its threads (asserted by
\* ten_extension_context_do_close and ten_engine_destroy).
ClosesInOrder ==
  /\ TypeOK
  /\ \A t \in Threads : Ended(t) => NoTaskOf(t) /\ ExtensionsGone(t)
  /\ engine_closed => extension_threads = {} /\ \A t \in Threads : state[t] = "DESTROYED"

\* A graph that is not closed is started: start_graph gets its answer, and
\* gets it once, although threads leave the list while others join the count
\* it is compared with
\* (ten_engine_check_if_all_extension_threads_are_ready asserts that the
\* command is still there when the last thread is ready).
StartIsAnswered ==
  /\ Threads # {} => <>(start_results # << >> \/ is_closing)
  /\ [](Len(start_results) <= 1)

\* A graph that has been started before its close is requested closes.
StartedGraphCloses ==
  (start_results # << >> /\ ~is_closing /\ InEngineQueue(<<"close">>)) ~> engine_closed
=============================================================================
