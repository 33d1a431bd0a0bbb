--------------------- MODULE ExtensionLifeCycleProofs ---------------------
(***************************************************************************)
(* Theorems about the life cycle of an extension, for any sets of          *)
(* commands, of proxies and of manual stages.                              *)
(***************************************************************************)
EXTENDS ExtensionLifeCycle, FiniteSetTheorems, QueueLemmas

-----------------------------------------------------------------------------
(* The inductive invariant.                                                *)

InitTask == <<"on_init">>
StartTask == <<"on_start">>
CloseTimerTask == <<"timer_close">>
DelTask == <<"del">>
DeletedTask(p) == <<"proxy_deleted", p>>

\* The tasks of the start flow are in the queue only in the states that the
\* start flow or the close flow leaves them in.
StartTasks ==
  /\ Has(tasks, InitTask) => state = ON_CONFIGURE_DONE \/ state >= PREPARE_TO_STOP
  /\ Once(tasks, InitTask)
  /\ Has(tasks, StartTask) => state >= ON_INIT_DONE

\* The path timers exist from on_configure_done to on_deinit; each of them has
\* at most one task that closes it in the queue.
Timers ==
  /\ state <= ON_CONFIGURE => path_timers = 0
  /\ state > ON_CONFIGURE /\ state < PREPARE_TO_STOP => path_timers = 2
  /\ flushing => state \in ON_INIT_DONE .. ON_STOP_DONE /\ path_timers = 2
  /\ state = ON_STOP_DONE => timers_closing
  /\ state = ON_STOP => Called("on_stop")
  /\ timers_closing => state >= PREPARE_TO_STOP /\ Called("on_stop")
  /\ timers_closing /\ state < ON_DEINIT => path_timers > 0
  /\ state >= ON_DEINIT => path_timers = 0
  /\ Twice(tasks, CloseTimerTask)
  /\ path_timers = 1 => timers_closing /\ Once(tasks, CloseTimerTask)
  /\ path_timers = 0 \/ ~timers_closing => ~Has(tasks, CloseTimerTask)

\* The deletion is posted when no proxy is left and nothing is queued, and
\* nothing is posted after it.
Deletion ==
  /\ \A p \in Proxies :
       /\ Has(tasks, DeletedTask(p)) => p \in proxies /\ p \in released
       /\ Once(tasks, DeletedTask(p))
  /\ Has(tasks, DelTask) =>
       state = ON_DEINIT_DONE /\ proxies = {} /\ pending = << >> /\ AtEnd(tasks, DelTask)
  /\ deleted =>
       state = ON_DEINIT_DONE /\ proxies = {} /\ pending = << >> /\ tasks = << >>

\* A message is queued once, and a command is in one place.
Places ==
  /\ \A m \in Msgs : Once(pending, m) /\ (Has(pending, m) => m \in arrived)
  /\ \A m \in Cmds :
       /\ m \in arrived => Has(pending, m) \/ m \in handed \/ answer[m] # "none"
       /\ m \in handed => m \in arrived /\ answer[m] = "none" /\ ~Has(pending, m)
       /\ answer[m] # "none" => m \in arrived /\ ~Has(pending, m)
  /\ \A m \in StartTriggers : answer[m] = "ok" => "on_start" \in dones
  /\ \A m \in StopTriggers : answer[m] = "ok" => "on_stop" \in dones

IInv == TypeOK /\ StartTasks /\ Timers /\ Deletion /\ Places

\* When the start stage is automatic: the callbacks seen so far are the ones
\* that belong to a state up to the present one, and only the callback of the
\* present state may still owe its done call.
LastRank(s) ==
  CASE s = 0 -> 0 [] s \in 1 .. 2 -> 1 [] s \in 3 .. 4 -> 2 [] s \in 5 .. 7 -> 3
    [] s \in 8 .. 9 -> 4 [] s >= 10 -> 5

OrderInv ==
  /\ flushing => state = ON_INIT_DONE
  /\ CalledInOrder
  /\ \A cb \in Callbacks : Called(cb) => Rank(cb) <= LastRank(state)
  /\ Called("on_configure") => "on_configure" \in dones \/ state = ON_CONFIGURE
  /\ Called("on_init") => "on_init" \in dones \/ state = ON_INIT
  /\ Called("on_start") => "on_start" \in dones \/ state = ON_START

-----------------------------------------------------------------------------
(* The steps, in the terms of the invariant.                               *)

\* The kinds of tasks differ.
LEMMA TaskKinds ==
  /\ InitTask \in Tasks /\ StartTask \in Tasks /\ CloseTimerTask \in Tasks /\ DelTask \in Tasks
  /\ InitTask # StartTask /\ InitTask # CloseTimerTask /\ InitTask # DelTask
  /\ StartTask # CloseTimerTask /\ StartTask # DelTask /\ CloseTimerTask # DelTask
  /\ \A p \in Proxies :
       /\ DeletedTask(p) \in Tasks /\ <<"notify", p>> \in Tasks
       /\ \A x \in {InitTask, StartTask, CloseTimerTask, DelTask} :
            DeletedTask(p) # x /\ <<"notify", p>> # x
  /\ \A p, q \in Proxies : DeletedTask(p) = DeletedTask(q) => p = q
  /\ \A p, q \in Proxies : <<"notify", p>> # DeletedTask(q)
<1>1. \A p \in Proxies : <<"notify", p>> \in Tasks /\ DeletedTask(p) \in Tasks
  BY DEF Tasks, DeletedTask
<1>2. \A p \in Proxies : \A x \in {InitTask, StartTask, CloseTimerTask, DelTask} :
        DeletedTask(p) # x /\ <<"notify", p>> # x
  BY DEF InitTask, StartTask, CloseTimerTask, DelTask, DeletedTask
<1>3. /\ \A p, q \in Proxies : DeletedTask(p) = DeletedTask(q) => p = q
      /\ \A p, q \in Proxies : <<"notify", p>> # DeletedTask(q)
  BY DEF DeletedTask
<1> QED
  BY <1>1, <1>2, <1>3 DEF Tasks, InitTask, StartTask, CloseTimerTask, DelTask

\* A callback is added to what the user has seen.
LEMMA CallsGrow ==
  ASSUME TypeOK, NEW cb \in Callbacks, calls' = Append(calls, cb)
  PROVE  /\ calls' \in Seq(Callbacks)
         /\ \A x : Called(x)' <=> Called(x) \/ x = cb
<1>1. \A x : Has(calls', x) <=> Has(calls, x) \/ x = cb
  BY AppendQueue DEF TypeOK
<1>2. calls' \in Seq(Callbacks)
  BY AppendQueue DEF TypeOK
<1>3. \A x : Called(x)' <=> Called(x) \/ x = cb
  BY <1>1 DEF Called, Has
<1> QED
  BY <1>2, <1>3

\* What the user has seen stays.
LEMMA CallsStay ==
  ASSUME calls' = calls
  PROVE  \A x : Called(x)' <=> Called(x)
  BY DEF Called

\* ten_extension_trigger_stop_if_needed ends in one of two states.
LEMMA StopEffect ==
  ASSUME TypeOK, ten_extension_trigger_stop_if_needed
  PROVE  /\ calls' \in Seq(Callbacks)
         /\ \/ state' = PREPARE_TO_STOP /\ calls' = calls /\ \A x : Called(x)' <=> Called(x)
            \/ /\ state' = ON_STOP /\ calls' = Append(calls, "on_stop")
               /\ \A x : Called(x)' <=> Called(x) \/ x = "on_stop"
<1>1. CASE "stop" \in manual /\ ~HasStopTrigger
  BY <1>1, CallsStay DEF ten_extension_trigger_stop_if_needed, TypeOK
<1>2. CASE ~("stop" \in manual /\ ~HasStopTrigger)
  <2>1. state' = ON_STOP /\ calls' = Append(calls, "on_stop")
    BY <1>2 DEF ten_extension_trigger_stop_if_needed, Call
  <2> QED
    BY <2>1, CallsGrow DEF Callbacks
<1> QED
  BY <1>1, <1>2

\* A message that is handed on may start or stop the extension.
LEMMA DispatchEffect ==
  ASSUME TypeOK, NEW m \in Msgs, Dispatch(m)
  PROVE  /\ triggers' \subseteq Triggers /\ handed' \subseteq Cmds
         /\ answer' \in [Msgs -> {"none", "ok", "error"}] /\ calls' \in Seq(Callbacks)
         /\ \/ state' = state /\ calls' = calls /\ \A x : Called(x)' <=> Called(x)
            \/ /\ state = ON_INIT_DONE /\ state' = ON_START /\ "start" \in manual
               /\ calls' = Append(calls, "on_start")
               /\ \A x : Called(x)' <=> Called(x) \/ x = "on_start"
            \/ /\ state = PREPARE_TO_STOP /\ state' = ON_STOP
               /\ calls' = Append(calls, "on_stop")
               /\ \A x : Called(x)' <=> Called(x) \/ x = "on_stop"
<1>1. CASE m \in Cmds /\ handed' = handed \cup {m} /\ UNCHANGED <<answer, triggers, state, calls>>
  BY <1>1, CallsStay DEF TypeOK
<1>2. CASE m \in StartTriggers /\ HandleTriggerStart(m) /\ UNCHANGED handed
  <2>1. CASE "start" \notin manual \/ state > ON_START_DONE
    BY <1>2, <2>1, CallsStay DEF HandleTriggerStart, Reject, TypeOK
  <2>2. CASE ~("start" \notin manual \/ state > ON_START_DONE)
    <3>1. triggers' = triggers \cup {m} /\ UNCHANGED <<answer, handed>>
      BY <1>2, <2>2 DEF HandleTriggerStart
    <3>2. CASE state = ON_INIT_DONE
      <4>1. state' = ON_START /\ calls' = Append(calls, "on_start")
        BY <1>2, <2>2, <3>2 DEF HandleTriggerStart, Call
      <4> QED
        BY <1>2, <2>2, <3>1, <3>2, <4>1, CallsGrow DEF Callbacks, TypeOK, Triggers
    <3>3. CASE state # ON_INIT_DONE
      BY <1>2, <2>2, <3>1, <3>3, CallsStay DEF HandleTriggerStart, TypeOK, Triggers
    <3> QED
      BY <3>2, <3>3
  <2> QED
    BY <2>1, <2>2
<1>3. CASE m \in StopTriggers /\ HandleTriggerStop(m) /\ UNCHANGED handed
  <2>1. CASE "stop" \notin manual \/ state > ON_STOP_DONE
    BY <1>3, <2>1, CallsStay DEF HandleTriggerStop, Reject, TypeOK
  <2>2. CASE ~("stop" \notin manual \/ state > ON_STOP_DONE)
    <3>1. triggers' = triggers \cup {m} /\ UNCHANGED <<answer, handed>>
      BY <1>3, <2>2 DEF HandleTriggerStop
    <3>2. CASE state = PREPARE_TO_STOP
      <4>1. state' = ON_STOP /\ calls' = Append(calls, "on_stop")
        BY <1>3, <2>2, <3>2 DEF HandleTriggerStop, Call
      <4> QED
        BY <1>3, <2>2, <3>1, <3>2, <4>1, CallsGrow DEF Callbacks, TypeOK, Triggers
    <3>3. CASE state # PREPARE_TO_STOP
      BY <1>3, <2>2, <3>1, <3>3, CallsStay DEF HandleTriggerStop, TypeOK, Triggers
    <3> QED
      BY <3>2, <3>3
  <2> QED
    BY <2>1, <2>2
<1> QED
  BY <1>1, <1>2, <1>3 DEF Dispatch

\* A task is posted that is not one of those the invariant counts, or not in
\* the queue yet.
LEMMA Posted ==
  ASSUME TypeOK, NEW e \in Tasks
  PROVE  LET s == Append(tasks, e) IN
         /\ s \in Seq(Tasks)
         /\ \A x : Has(s, x) <=> Has(tasks, x) \/ x = e
         /\ \A x : Once(tasks, x) /\ (x = e => ~Has(tasks, x)) => Once(s, x)
         /\ \A x : Twice(tasks, x) /\ x # e => Twice(s, x)
         /\ \A x : ~Has(tasks, x) => AtEnd(s, x)
  BY AppendQueue, AppendMore DEF TypeOK

\* The first task is taken.
LEMMA Taken ==
  ASSUME TypeOK, tasks # << >>
  PROVE  LET s == Tail(tasks) IN
         /\ s \in Seq(Tasks)
         /\ \A x : Has(tasks, x) <=> Has(s, x) \/ x = Head(tasks)
         /\ \A x : Once(tasks, x) => Once(s, x) /\ (x = Head(tasks) => ~Has(s, x))
         /\ \A x : Twice(tasks, x) => Twice(s, x) /\ (x = Head(tasks) => Once(s, x))
         /\ \A x : AtEnd(tasks, x) => AtEnd(s, x) /\ (x = Head(tasks) => s = << >>)
  BY TailQueue, TailMore DEF TypeOK

\* The queue is left alone.
LEMMA SameTasks ==
  ASSUME tasks' = tasks
  PROVE  /\ \A x : Has(tasks, x)' <=> Has(tasks, x)
         /\ \A x : Once(tasks, x)' <=> Once(tasks, x)
         /\ \A x : Twice(tasks, x)' <=> Twice(tasks, x)
         /\ \A x : AtEnd(tasks, x)' <=> AtEnd(tasks, x)
  BY DEF Has, Once, Twice, AtEnd

-----------------------------------------------------------------------------
(* The invariant holds.                                                    *)

\* Nothing has happened at the start.
LEMMA InitIInv == Init => IInv /\ OrderInv
<1> SUFFICES ASSUME Init PROVE IInv /\ OrderInv
  OBVIOUS
<1>1. tasks = << >> /\ pending = << >> /\ calls = << >> /\ state = 0
  BY DEF Init, ST_INIT
<1>2. /\ \A x : ~Has(tasks, x) /\ Once(tasks, x) /\ Twice(tasks, x)
      /\ \A x : ~Has(pending, x) /\ Once(pending, x)
      /\ \A x : ~Called(x)
  BY <1>1 DEF Has, Once, Twice, Called
<1>3. TypeOK
  <2>1. tasks \in Seq(Tasks) /\ pending \in Seq(Msgs) /\ calls \in Seq(Callbacks)
    BY <1>1
  <2>2. state \in ST_INIT .. ON_DEINIT_DONE /\ path_timers \in 0 .. 2
    BY DEF Init, ST_INIT, ON_DEINIT_DONE
  <2> QED
    BY <2>1, <2>2 DEF Init, TypeOK
<1>4. StartTasks /\ Timers /\ Deletion
  BY <1>2 DEF Init, StartTasks, Timers, Deletion, ST_INIT, ON_CONFIGURE, PREPARE_TO_STOP,
              ON_STOP, ON_STOP_DONE, ON_DEINIT
<1>5. Places
  <2>1. \A m \in Msgs : answer[m] = "none"
    BY DEF Init
  <2> QED
    BY <1>2, <2>1 DEF Init, Places, Msgs, Triggers
<1>6. OrderInv
  <2>1. CalledInOrder
    BY <1>1 DEF CalledInOrder
  <2> QED
    BY <1>2, <2>1 DEF Init, OrderInv
<1> QED
  BY <1>3, <1>4, <1>5, <1>6 DEF IInv

\* The queue of tasks, the timers and the deletion.
FlowInv == TypeOK /\ StartTasks /\ Timers /\ Deletion

\* Every step keeps the queue of tasks, the timers and the deletion in order.
LEMMA NextFlow ==
  ASSUME FlowInv, [Next]_vars
  PROVE  FlowInv'
<1> USE LifeCycleAssumption DEF timerVars, msgVars, proxyVars,
        ST_INIT, ON_CONFIGURE, ON_CONFIGURE_DONE, ON_INIT, ON_INIT_DONE, ON_START,
        ON_START_DONE, PREPARE_TO_STOP, ON_STOP,
        ON_STOP_DONE, ON_DEINIT, ON_DEINIT_DONE
<1>a. TypeOK /\ StartTasks /\ Timers /\ Deletion
  BY DEF FlowInv
<1>1. ASSUME NEW m \in Msgs, QueueMsg(m) PROVE FlowInv'
  <2>c. \A x : Called(x)' <=> Called(x)
    BY <1>1, CallsStay DEF QueueMsg
  <2>1. /\ tasks' = tasks
        /\ \A x : Has(tasks, x)' <=> Has(tasks, x)
        /\ \A x : Once(tasks, x)' <=> Once(tasks, x)
        /\ \A x : Twice(tasks, x)' <=> Twice(tasks, x)
        /\ \A x : AtEnd(tasks, x)' <=> AtEnd(tasks, x)
    BY <1>1, SameTasks DEF QueueMsg
  <2>2. TypeOK'
    BY <1>a, <1>1, <2>1, <2>c DEF QueueMsg, TypeOK
  <2>3. StartTasks'
    BY <1>a, <1>1, <2>1, TaskKinds, <2>c DEF QueueMsg, StartTasks, TypeOK
  <2>4. Timers'
    BY <1>a, <1>1, <2>1, TaskKinds, <2>c DEF QueueMsg, Timers, StartTasks, TypeOK
  <2>5. Deletion'
    BY <1>a, <1>1, <2>1, TaskKinds, <2>c DEF QueueMsg, Deletion, Timers, TypeOK
  <2> QED
    BY <2>2, <2>3, <2>4, <2>5 DEF FlowInv
<1>2. ASSUME NEW m \in Msgs, RejectMsg(m) PROVE FlowInv'
  <2>c. \A x : Called(x)' <=> Called(x)
    BY <1>2, CallsStay DEF RejectMsg
  <2>1. /\ tasks' = tasks
        /\ \A x : Has(tasks, x)' <=> Has(tasks, x)
        /\ \A x : Once(tasks, x)' <=> Once(tasks, x)
        /\ \A x : Twice(tasks, x)' <=> Twice(tasks, x)
        /\ \A x : AtEnd(tasks, x)' <=> AtEnd(tasks, x)
    BY <1>2, SameTasks DEF RejectMsg, Reject
  <2>2. TypeOK'
    BY <1>a, <1>2, <2>1, <2>c DEF RejectMsg, Reject, TypeOK
  <2>3. StartTasks'
    BY <1>a, <1>2, <2>1, TaskKinds, <2>c DEF RejectMsg, Reject, StartTasks, TypeOK
  <2>4. Timers'
    BY <1>a, <1>2, <2>1, TaskKinds, <2>c DEF RejectMsg, Reject, Timers, StartTasks, TypeOK
  <2>5. Deletion'
    BY <1>a, <1>2, <2>1, TaskKinds, <2>c DEF RejectMsg, Reject, Deletion, Timers, TypeOK
  <2> QED
    BY <2>2, <2>3, <2>4, <2>5 DEF FlowInv
<1>3. ASSUME NEW p \in Proxies, CreateProxy(p) PROVE FlowInv'
  <2>c. \A x : Called(x)' <=> Called(x)
    BY <1>3, CallsStay DEF CreateProxy
  <2>1. /\ tasks' = tasks
        /\ \A x : Has(tasks, x)' <=> Has(tasks, x)
        /\ \A x : Once(tasks, x)' <=> Once(tasks, x)
        /\ \A x : Twice(tasks, x)' <=> Twice(tasks, x)
        /\ \A x : AtEnd(tasks, x)' <=> AtEnd(tasks, x)
    BY <1>3, SameTasks DEF CreateProxy
  <2>2. TypeOK'
    BY <1>a, <1>3, <2>1, <2>c DEF CreateProxy, TypeOK
  <2>3. StartTasks'
    BY <1>a, <1>3, <2>1, TaskKinds, <2>c DEF CreateProxy, StartTasks, TypeOK
  <2>4. Timers'
    BY <1>a, <1>3, <2>1, TaskKinds, <2>c DEF CreateProxy, Timers, StartTasks, TypeOK
  <2>5. Deletion'
    BY <1>a, <1>3, <2>1, TaskKinds, <2>c DEF CreateProxy, Deletion, Timers, TypeOK
  <2> QED
    BY <2>2, <2>3, <2>4, <2>5 DEF FlowInv
<1>4. ASSUME NEW p \in Proxies, ProxyNotify(p) PROVE FlowInv'
  <2>c. \A x : Called(x)' <=> Called(x)
    BY <1>4, CallsStay DEF ProxyNotify
  <2>0. tasks' = Append(tasks, <<"notify", p>>) /\ <<"notify", p>> \in Tasks
    BY <1>4, TaskKinds DEF ProxyNotify, Post, InitTask, StartTask, DeletedTask
  <2>1. /\ tasks' \in Seq(Tasks)
        /\ \A x : Has(tasks', x) <=> Has(tasks, x) \/ x = <<"notify", p>>
        /\ \A x : Once(tasks, x) /\ (x = <<"notify", p>> => ~Has(tasks, x)) => Once(tasks', x)
        /\ \A x : Twice(tasks, x) /\ x # <<"notify", p>> => Twice(tasks', x)
    BY <1>a, <2>0, Posted
  <2>2. TypeOK'
    BY <1>a, <1>4, <2>1, <2>c DEF ProxyNotify, TypeOK
  <2>3. StartTasks'
    BY <1>a, <1>4, <2>1, TaskKinds, <2>c DEF ProxyNotify, StartTasks, TypeOK
  <2>4. Timers'
    BY <1>a, <1>4, <2>1, TaskKinds, <2>c DEF ProxyNotify, Timers, StartTasks, TypeOK
  <2>5. Deletion'
    BY <1>a, <1>4, <2>1, TaskKinds, <2>c DEF ProxyNotify, Deletion, Timers, TypeOK
  <2> QED
    BY <2>2, <2>3, <2>4, <2>5 DEF FlowInv
<1>5. ASSUME NEW p \in Proxies, ProxyRelease(p) PROVE FlowInv'
  <2>c. \A x : Called(x)' <=> Called(x)
    BY <1>5, CallsStay DEF ProxyRelease
  <2>0. tasks' = Append(tasks, DeletedTask(p)) /\ DeletedTask(p) \in Tasks
    BY <1>5, TaskKinds DEF ProxyRelease, Post, InitTask, StartTask, DeletedTask
  <2>1. /\ tasks' \in Seq(Tasks)
        /\ \A x : Has(tasks', x) <=> Has(tasks, x) \/ x = DeletedTask(p)
        /\ \A x : Once(tasks, x) /\ (x = DeletedTask(p) => ~Has(tasks, x)) => Once(tasks', x)
        /\ \A x : Twice(tasks, x) /\ x # DeletedTask(p) => Twice(tasks', x)
    BY <1>a, <2>0, Posted
  <2>2. TypeOK'
    BY <1>a, <1>5, <2>1, <2>c DEF ProxyRelease, TypeOK
  <2>3. StartTasks'
    BY <1>a, <1>5, <2>1, TaskKinds, <2>c DEF ProxyRelease, StartTasks, TypeOK
  <2>4. Timers'
    BY <1>a, <1>5, <2>1, TaskKinds, <2>c DEF ProxyRelease, Timers, StartTasks, TypeOK
  <2>5. Deletion'
    BY <1>a, <1>5, <2>1, TaskKinds, <2>c DEF ProxyRelease, Deletion, Timers, TypeOK
  <2> QED
    BY <2>2, <2>3, <2>4, <2>5 DEF FlowInv
<1>6. ASSUME NEW p \in Proxies, NotifyTask(p) PROVE FlowInv'
  <2>c. \A x : Called(x)' <=> Called(x)
    BY <1>6, CallsStay DEF NotifyTask
  <2>0. tasks # << >> /\ Head(tasks) = <<"notify", p>> /\ tasks' = Tail(tasks)
    BY <1>6 DEF NotifyTask, InitTask, StartTask, CloseTimerTask, DelTask, DeletedTask
  <2>1. /\ tasks' \in Seq(Tasks)
        /\ \A x : Has(tasks, x) <=> Has(tasks', x) \/ x = <<"notify", p>>
        /\ \A x : Once(tasks, x) => Once(tasks', x) /\ (x = <<"notify", p>> => ~Has(tasks', x))
        /\ \A x : Twice(tasks, x) => Twice(tasks', x) /\ (x = <<"notify", p>> => Once(tasks', x))
        /\ \A x : AtEnd(tasks, x) => AtEnd(tasks', x) /\ (x = <<"notify", p>> => tasks' = << >>)
    BY <1>a, <2>0, Taken
  <2>2. TypeOK'
    BY <1>a, <1>6, <2>1, <2>c DEF NotifyTask, TypeOK
  <2>3. StartTasks'
    BY <1>a, <1>6, <2>1, TaskKinds, <2>c DEF NotifyTask, StartTasks, TypeOK
  <2>4. Timers'
    BY <1>a, <1>6, <2>1, TaskKinds, <2>c DEF NotifyTask, Timers, StartTasks, TypeOK
  <2>5. Deletion'
    BY <1>a, <1>6, <2>1, TaskKinds, <2>c DEF NotifyTask, Deletion, Timers, TypeOK
  <2> QED
    BY <2>2, <2>3, <2>4, <2>5 DEF FlowInv
<1>7. CASE DelExtension
  <2>c. \A x : Called(x)' <=> Called(x)
    BY <1>7, CallsStay DEF DelExtension
  <2>0. tasks # << >> /\ Head(tasks) = DelTask /\ tasks' = Tail(tasks)
    BY <1>7 DEF DelExtension, InitTask, StartTask, CloseTimerTask, DelTask, DeletedTask
  <2>1. /\ tasks' \in Seq(Tasks)
        /\ \A x : Has(tasks, x) <=> Has(tasks', x) \/ x = DelTask
        /\ \A x : Once(tasks, x) => Once(tasks', x) /\ (x = DelTask => ~Has(tasks', x))
        /\ \A x : Twice(tasks, x) => Twice(tasks', x) /\ (x = DelTask => Once(tasks', x))
        /\ \A x : AtEnd(tasks, x) => AtEnd(tasks', x) /\ (x = DelTask => tasks' = << >>)
    BY <1>a, <2>0, Taken
  <2>2. TypeOK'
    BY <1>a, <1>7, <2>1, <2>c DEF DelExtension, TypeOK
  <2>3. StartTasks'
    BY <1>a, <1>7, <2>1, TaskKinds, <2>c DEF DelExtension, StartTasks, TypeOK
  <2>4. Timers'
    BY <1>a, <1>7, <2>1, TaskKinds, <2>c DEF DelExtension, Timers, StartTasks, TypeOK
  <2>5. Deletion'
    BY <1>a, <1>7, <2>1, TaskKinds, <2>c DEF DelExtension, Deletion, Timers, TypeOK
  <2> QED
    BY <2>2, <2>3, <2>4, <2>5 DEF FlowInv
<1>8. CASE OnInitDone
  <2>c. \A x : Called(x)' <=> Called(x)
    BY <1>8, CallsStay DEF OnInitDone
  <2>1. /\ tasks' = tasks
        /\ \A x : Has(tasks, x)' <=> Has(tasks, x)
        /\ \A x : Once(tasks, x)' <=> Once(tasks, x)
        /\ \A x : Twice(tasks, x)' <=> Twice(tasks, x)
        /\ \A x : AtEnd(tasks, x)' <=> AtEnd(tasks, x)
    BY <1>8, SameTasks DEF OnInitDone, Done, Callbacks
  <2>2. TypeOK'
    BY <1>a, <1>8, <2>1, <2>c DEF OnInitDone, Done, Callbacks, TypeOK
  <2>3. StartTasks'
    BY <1>a, <1>8, <2>1, TaskKinds, <2>c DEF OnInitDone, Done, Callbacks, StartTasks, TypeOK
  <2>4. Timers'
    BY <1>a, <1>8, <2>1, TaskKinds, <2>c
    DEF OnInitDone, Done, Callbacks, Timers, StartTasks, TypeOK
  <2>5. Deletion'
    BY <1>a, <1>8, <2>1, TaskKinds, <2>c DEF OnInitDone, Done, Callbacks, Deletion, Timers, TypeOK
  <2> QED
    BY <2>2, <2>3, <2>4, <2>5 DEF FlowInv
<1>9. CASE OnConfigure
  <2>c. /\ calls' \in Seq(Callbacks)
        /\ \A x : Called(x)' <=> Called(x) \/ x = "on_configure"
    BY <1>a, <1>9, CallsGrow DEF OnConfigure, Call, Callbacks
  <2>1. /\ tasks' = tasks
        /\ \A x : Has(tasks, x)' <=> Has(tasks, x)
        /\ \A x : Once(tasks, x)' <=> Once(tasks, x)
        /\ \A x : Twice(tasks, x)' <=> Twice(tasks, x)
        /\ \A x : AtEnd(tasks, x)' <=> AtEnd(tasks, x)
    BY <1>9, SameTasks DEF OnConfigure, Call, Callbacks
  <2>2. TypeOK'
    BY <1>a, <1>9, <2>1, <2>c DEF OnConfigure, Call, Callbacks, TypeOK
  <2>3. StartTasks'
    BY <1>a, <1>9, <2>1, TaskKinds, <2>c DEF OnConfigure, Call, Callbacks, StartTasks, TypeOK
  <2>4. Timers'
    BY <1>a, <1>9, <2>1, TaskKinds, <2>c
    DEF OnConfigure, Call, Callbacks, Timers, StartTasks, TypeOK
  <2>5. Deletion'
    BY <1>a, <1>9, <2>1, TaskKinds, <2>c
    DEF OnConfigure, Call, Callbacks, Deletion, Timers, TypeOK
  <2> QED
    BY <2>2, <2>3, <2>4, <2>5 DEF FlowInv
<1>10. ASSUME NEW m \in Msgs, HandleMsg(m) PROVE FlowInv'
  <2>c. /\ triggers' \subseteq Triggers /\ handed' \subseteq Cmds
        /\ answer' \in [Msgs -> {"none", "ok", "error"}] /\ calls' \in Seq(Callbacks)
        /\ \/ state' = state /\ \A x : Called(x)' <=> Called(x)
           \/ /\ state = ON_INIT_DONE /\ state' = ON_START
              /\ \A x : Called(x)' <=> Called(x) \/ x = "on_start"
           \/ /\ state = PREPARE_TO_STOP /\ state' = ON_STOP
              /\ \A x : Called(x)' <=> Called(x) \/ x = "on_stop"
    BY <1>a, <1>10, DispatchEffect DEF HandleMsg
  <2>1. /\ tasks' = tasks
        /\ \A x : Has(tasks, x)' <=> Has(tasks, x)
        /\ \A x : Once(tasks, x)' <=> Once(tasks, x)
        /\ \A x : Twice(tasks, x)' <=> Twice(tasks, x)
        /\ \A x : AtEnd(tasks, x)' <=> AtEnd(tasks, x)
    BY <1>10, SameTasks DEF HandleMsg
  <2>2. TypeOK'
    BY <1>a, <1>10, <2>1, <2>c DEF HandleMsg, TypeOK
  <2>3. StartTasks'
    BY <1>a, <1>10, <2>1, TaskKinds, <2>c DEF HandleMsg, StartTasks, TypeOK
  <2>4. Timers'
    BY <1>a, <1>10, <2>1, TaskKinds, <2>c DEF HandleMsg, Timers, StartTasks, TypeOK
  <2>5. Deletion'
    BY <1>a, <1>10, <2>1, TaskKinds, <2>c DEF HandleMsg, Deletion, Timers, TypeOK
  <2> QED
    BY <2>2, <2>3, <2>4, <2>5 DEF FlowInv
<1>11. CASE FlushMsg
  <2>d. Head(pending) \in Msgs /\ Tail(pending) \in Seq(Msgs)
    BY <1>a, <1>11, HeadTailProperties DEF FlushMsg, TypeOK
  <2>c. /\ triggers' \subseteq Triggers /\ handed' \subseteq Cmds
        /\ answer' \in [Msgs -> {"none", "ok", "error"}] /\ calls' \in Seq(Callbacks)
        /\ \/ state' = state /\ \A x : Called(x)' <=> Called(x)
           \/ /\ state = ON_INIT_DONE /\ state' = ON_START
              /\ \A x : Called(x)' <=> Called(x) \/ x = "on_start"
           \/ /\ state = PREPARE_TO_STOP /\ state' = ON_STOP
              /\ \A x : Called(x)' <=> Called(x) \/ x = "on_stop"
    BY <1>a, <1>11, <2>d, DispatchEffect DEF FlushMsg
  <2>1. /\ tasks' = tasks
        /\ \A x : Has(tasks, x)' <=> Has(tasks, x)
        /\ \A x : Once(tasks, x)' <=> Once(tasks, x)
        /\ \A x : Twice(tasks, x)' <=> Twice(tasks, x)
        /\ \A x : AtEnd(tasks, x)' <=> AtEnd(tasks, x)
    BY <1>11, SameTasks DEF FlushMsg
  <2>2. TypeOK'
    BY <1>a, <1>11, <2>1, <2>c, <2>d DEF FlushMsg, TypeOK
  <2>3. StartTasks'
    BY <1>a, <1>11, <2>1, TaskKinds, <2>c, <2>d DEF FlushMsg, StartTasks, TypeOK
  <2>4. Timers'
    BY <1>a, <1>11, <2>1, TaskKinds, <2>c, <2>d DEF FlushMsg, Timers, StartTasks, TypeOK
  <2>5. Deletion'
    BY <1>a, <1>11, <2>1, TaskKinds, <2>c, <2>d DEF FlushMsg, Deletion, Timers, TypeOK
  <2> QED
    BY <2>2, <2>3, <2>4, <2>5 DEF FlowInv
<1>12. CASE TriggerClose
  <2>c. /\ calls' \in Seq(Callbacks)
        /\ \/ state' = state /\ \A x : Called(x)' <=> Called(x)
           \/ /\ state \in {ON_CONFIGURE_DONE, ON_INIT_DONE, ON_START_DONE}
              /\ \/ state' = PREPARE_TO_STOP /\ \A x : Called(x)' <=> Called(x)
                 \/ state' = ON_STOP /\ \A x : Called(x)' <=> Called(x) \/ x = "on_stop"
    <3>1. CASE state \in {ON_CONFIGURE_DONE, ON_INIT_DONE, ON_START_DONE}
      BY <1>a, <1>12, <3>1, StopEffect DEF TriggerClose
    <3>2. CASE state \notin {ON_CONFIGURE_DONE, ON_INIT_DONE, ON_START_DONE}
      BY <1>a, <1>12, <3>2, CallsStay DEF TriggerClose, TypeOK
    <3> QED
      BY <3>1, <3>2
  <2>1. /\ tasks' = tasks
        /\ \A x : Has(tasks, x)' <=> Has(tasks, x)
        /\ \A x : Once(tasks, x)' <=> Once(tasks, x)
        /\ \A x : Twice(tasks, x)' <=> Twice(tasks, x)
        /\ \A x : AtEnd(tasks, x)' <=> AtEnd(tasks, x)
    BY <1>12, SameTasks DEF TriggerClose
  <2>2. TypeOK'
    BY <1>a, <1>12, <2>1, <2>c DEF TriggerClose, TypeOK
  <2>3. StartTasks'
    BY <1>a, <1>12, <2>1, TaskKinds, <2>c DEF TriggerClose, StartTasks, TypeOK
  <2>4. Timers'
    BY <1>a, <1>12, <2>1, TaskKinds, <2>c DEF TriggerClose, Timers, StartTasks, TypeOK
  <2>5. Deletion'
    BY <1>a, <1>12, <2>1, TaskKinds, <2>c DEF TriggerClose, Deletion, Timers, TypeOK
  <2> QED
    BY <2>2, <2>3, <2>4, <2>5 DEF FlowInv
<1>13. CASE OnConfigureDone
  <2>1. CASE close_triggered
    <3>1. /\ calls' \in Seq(Callbacks)
          /\ \/ state' = PREPARE_TO_STOP /\ \A x : Called(x)' <=> Called(x)
             \/ state' = ON_STOP /\ \A x : Called(x)' <=> Called(x) \/ x = "on_stop"
      BY <1>a, <1>13, <2>1, StopEffect DEF OnConfigureDone
    <3>2. /\ state = ON_CONFIGURE /\ dones' = dones \cup {"on_configure"}
          /\ UNCHANGED <<manual, tasks, path_timers, close_triggered, timers_closing, pending,
                         flushing, msgVars, proxyVars, deleted>>
      BY <1>13, <2>1 DEF OnConfigureDone, Done
    <3>3. TypeOK'
      BY <1>a, <3>1, <3>2 DEF TypeOK, Callbacks
    <3>4. StartTasks'
      BY <1>a, <3>1, <3>2, SameTasks DEF StartTasks
    <3>5. Timers'
      BY <1>a, <3>1, <3>2, SameTasks DEF Timers
    <3>6. Deletion'
      BY <1>a, <3>1, <3>2, SameTasks DEF Deletion
    <3> QED
      BY <3>3, <3>4, <3>5, <3>6 DEF FlowInv
  <2>2. CASE ~close_triggered
    <3>1. /\ state = ON_CONFIGURE /\ dones' = dones \cup {"on_configure"}
          /\ state' = ON_CONFIGURE_DONE /\ manual' \in SUBSET ManualStages /\ path_timers' = 2
          /\ tasks' = Append(tasks, InitTask)
          /\ UNCHANGED <<calls, close_triggered, timers_closing, pending, flushing, msgVars,
                         proxyVars, deleted>>
      BY <1>13, <2>2 DEF OnConfigureDone, Done, Post, InitTask
    <3>2. /\ tasks' \in Seq(Tasks)
          /\ \A x : Has(tasks', x) <=> Has(tasks, x) \/ x = InitTask
          /\ \A x : Once(tasks, x) /\ (x = InitTask => ~Has(tasks, x)) => Once(tasks', x)
          /\ \A x : Twice(tasks, x) /\ x # InitTask => Twice(tasks', x)
      BY <1>a, <3>1, TaskKinds, Posted
    <3>3. TypeOK'
      BY <1>a, <3>1, <3>2 DEF TypeOK, Callbacks
    <3>4. StartTasks'
      BY <1>a, <3>1, <3>2, TaskKinds DEF StartTasks
    <3>5. Timers'
      BY <1>a, <3>1, <3>2, TaskKinds, CallsStay DEF Timers
    <3>6. Deletion'
      <4>1. ~Has(tasks', DelTask) /\ ~deleted'
        BY <1>a, <3>1, <3>2, TaskKinds DEF Deletion
      <4> QED
        BY <1>a, <3>1, <3>2, <4>1, TaskKinds DEF Deletion
    <3> QED
      BY <3>3, <3>4, <3>5, <3>6 DEF FlowInv
  <2> QED
    BY <2>1, <2>2
<1>14. CASE OnInitTask
  <2>c. /\ calls' \in Seq(Callbacks)
        /\ \/ state >= PREPARE_TO_STOP /\ state' = state /\ \A x : Called(x)' <=> Called(x)
           \/ /\ ~(state >= PREPARE_TO_STOP) /\ state' = ON_INIT
              /\ \A x : Called(x)' <=> Called(x) \/ x = "on_init"
    <3>1. CASE state >= PREPARE_TO_STOP
      BY <1>a, <1>14, <3>1, CallsStay DEF OnInitTask, Skipped, TypeOK
    <3>2. CASE ~(state >= PREPARE_TO_STOP)
      BY <1>a, <1>14, <3>2, CallsGrow DEF OnInitTask, Skipped, Call, Callbacks
    <3> QED
      BY <3>1, <3>2
  <2>0. tasks # << >> /\ Head(tasks) = InitTask /\ tasks' = Tail(tasks)
    BY <1>14 DEF OnInitTask, InitTask, StartTask, CloseTimerTask, DelTask, DeletedTask
  <2>1. /\ tasks' \in Seq(Tasks)
        /\ \A x : Has(tasks, x) <=> Has(tasks', x) \/ x = InitTask
        /\ \A x : Once(tasks, x) => Once(tasks', x) /\ (x = InitTask => ~Has(tasks', x))
        /\ \A x : Twice(tasks, x) => Twice(tasks', x) /\ (x = InitTask => Once(tasks', x))
        /\ \A x : AtEnd(tasks, x) => AtEnd(tasks', x) /\ (x = InitTask => tasks' = << >>)
    BY <1>a, <2>0, Taken
  <2>2. TypeOK'
    BY <1>a, <1>14, <2>1, <2>c, SMTT(30) DEF OnInitTask, TypeOK
  <2>3. StartTasks'
    BY <1>a, <1>14, <2>1, TaskKinds, <2>c DEF OnInitTask, StartTasks, TypeOK
  <2>4. Timers'
    BY <1>a, <1>14, <2>1, TaskKinds, <2>c DEF OnInitTask, Timers, StartTasks, TypeOK
  <2>5. Deletion'
    BY <1>a, <1>14, <2>1, TaskKinds, <2>c DEF OnInitTask, Deletion, Timers, TypeOK
  <2> QED
    BY <2>2, <2>3, <2>4, <2>5 DEF FlowInv
<1>15. CASE OnStartTask
  <2>c. /\ calls' \in Seq(Callbacks)
        /\ \/ state >= ON_START /\ state' = state /\ \A x : Called(x)' <=> Called(x)
           \/ /\ ~(state >= ON_START) /\ state' = ON_START
              /\ \A x : Called(x)' <=> Called(x) \/ x = "on_start"
    <3>1. CASE state >= ON_START
      BY <1>a, <1>15, <3>1, CallsStay DEF OnStartTask, Skipped, TypeOK
    <3>2. CASE ~(state >= ON_START)
      BY <1>a, <1>15, <3>2, CallsGrow DEF OnStartTask, Skipped, Call, Callbacks
    <3> QED
      BY <3>1, <3>2
  <2>0. tasks # << >> /\ Head(tasks) = StartTask /\ tasks' = Tail(tasks)
    BY <1>15 DEF OnStartTask, InitTask, StartTask, CloseTimerTask, DelTask, DeletedTask
  <2>1. /\ tasks' \in Seq(Tasks)
        /\ \A x : Has(tasks, x) <=> Has(tasks', x) \/ x = StartTask
        /\ \A x : Once(tasks, x) => Once(tasks', x) /\ (x = StartTask => ~Has(tasks', x))
        /\ \A x : Twice(tasks, x) => Twice(tasks', x) /\ (x = StartTask => Once(tasks', x))
        /\ \A x : AtEnd(tasks, x) => AtEnd(tasks', x) /\ (x = StartTask => tasks' = << >>)
    BY <1>a, <2>0, Taken
  <2>2. TypeOK'
    BY <1>a, <1>15, <2>1, <2>c, SMTT(30) DEF OnStartTask, TypeOK
  <2>3. StartTasks'
    BY <1>a, <1>15, <2>1, TaskKinds, <2>c DEF OnStartTask, StartTasks, TypeOK
  <2>4. Timers'
    BY <1>a, <1>15, <2>1, TaskKinds, <2>c DEF OnStartTask, Timers, StartTasks, TypeOK
  <2>5. Deletion'
    BY <1>a, <1>15, <2>1, TaskKinds, <2>c DEF OnStartTask, Deletion, Timers, TypeOK
  <2> QED
    BY <2>2, <2>3, <2>4, <2>5 DEF FlowInv
<1>16. CASE TimerClosed
  <2>c. /\ calls' \in Seq(Callbacks)
        /\ \/ path_timers' # 0 /\ state' = state /\ \A x : Called(x)' <=> Called(x)
           \/ /\ path_timers' = 0 /\ state' = ON_DEINIT
              /\ \A x : Called(x)' <=> Called(x) \/ x = "on_deinit"
    <3>1. CASE path_timers' # 0
      BY <1>a, <1>16, <3>1, CallsStay DEF TimerClosed, Skipped, TypeOK
    <3>2. CASE ~(path_timers' # 0)
      BY <1>a, <1>16, <3>2, CallsGrow DEF TimerClosed, Skipped, Call, Callbacks
    <3> QED
      BY <3>1, <3>2
  <2>d. path_timers \in 1 .. 2 /\ path_timers' = path_timers - 1 /\ timers_closing
                               /\ state < ON_DEINIT
    <3>1. tasks # << >> /\ Head(tasks) = CloseTimerTask /\ path_timers' = path_timers - 1
      BY <1>16 DEF TimerClosed, CloseTimerTask
    <3>2. Has(tasks, CloseTimerTask)
      BY <1>a, <3>1, Taken
    <3> QED
      BY <1>a, <3>1, <3>2 DEF Timers, TypeOK
  <2>0. tasks # << >> /\ Head(tasks) = CloseTimerTask /\ tasks' = Tail(tasks)
    BY <1>16 DEF TimerClosed, InitTask, StartTask, CloseTimerTask, DelTask, DeletedTask
  <2>1. /\ tasks' \in Seq(Tasks)
        /\ \A x : Has(tasks, x) <=> Has(tasks', x) \/ x = CloseTimerTask
        /\ \A x : Once(tasks, x) => Once(tasks', x) /\ (x = CloseTimerTask => ~Has(tasks', x))
        /\ \A x : Twice(tasks, x) => Twice(tasks', x) /\ (x = CloseTimerTask => Once(tasks', x))
        /\ \A x : AtEnd(tasks, x) => AtEnd(tasks', x) /\ (x = CloseTimerTask => tasks' = << >>)
    BY <1>a, <2>0, Taken
  <2>2. TypeOK'
    BY <1>a, <1>16, <2>1, <2>c, <2>d DEF TimerClosed, TypeOK
  <2>3. StartTasks'
    BY <1>a, <1>16, <2>1, TaskKinds, <2>c, <2>d DEF TimerClosed, StartTasks, TypeOK
  <2>4. Timers'
    BY <1>a, <1>16, <2>1, TaskKinds, <2>c, <2>d DEF TimerClosed, Timers, StartTasks, TypeOK
  <2>5. Deletion'
    BY <1>a, <1>16, <2>1, TaskKinds, <2>c, <2>d DEF TimerClosed, Deletion, Timers, TypeOK
  <2> QED
    BY <2>2, <2>3, <2>4, <2>5 DEF FlowInv
<1>17. CASE OnInitDoneEnd
  <2>1. /\ state \in ON_INIT_DONE .. ON_STOP_DONE /\ path_timers = 2 /\ flushing' = FALSE
        /\ UNCHANGED <<manual, close_triggered, timerVars, pending, msgVars, proxyVars, deleted, dones>>
    BY <1>a, <1>17 DEF OnInitDoneEnd, Timers
  <2>2. CASE close_triggered
    <3>1. /\ calls' \in Seq(Callbacks) /\ tasks' = tasks
          /\ \/ state' = PREPARE_TO_STOP /\ \A x : Called(x)' <=> Called(x)
             \/ state' = ON_STOP /\ \A x : Called(x)' <=> Called(x) \/ x = "on_stop"
      BY <1>a, <1>17, <2>2, StopEffect DEF OnInitDoneEnd
    <3>2. TypeOK'
      <4>1. calls' \in Seq(Callbacks) /\ tasks' = tasks /\ state' \in ST_INIT .. ON_DEINIT_DONE
        BY <3>1
      <4> QED
        BY <1>a, <2>1, <4>1 DEF TypeOK
    <3>3. StartTasks'
      BY <1>a, <2>1, <3>1, SameTasks DEF StartTasks
    <3>4. Timers'
      BY <1>a, <2>1, <3>1, SameTasks DEF Timers
    <3>5. Deletion'
      BY <1>a, <2>1, <3>1, SameTasks DEF Deletion
    <3> QED
      BY <3>2, <3>3, <3>4, <3>5 DEF FlowInv
  <2>3. CASE ~close_triggered
    <3>1. UNCHANGED <<state, calls>> /\ (tasks' = tasks \/ tasks' = Append(tasks, StartTask))
      BY <1>17, <2>3 DEF OnInitDoneEnd, Post, StartTask
    <3>2. /\ tasks' \in Seq(Tasks)
          /\ \A x : Has(tasks', x) => Has(tasks, x) \/ x = StartTask
          /\ \A x : Once(tasks, x) /\ x # StartTask => Once(tasks', x)
          /\ \A x : Twice(tasks, x) /\ x # StartTask => Twice(tasks', x)
      <4>1. CASE tasks' = tasks
        BY <1>a, <4>1, SameTasks DEF TypeOK
      <4>2. CASE tasks' = Append(tasks, StartTask)
        BY <1>a, <4>2, TaskKinds, Posted
      <4> QED
        BY <3>1, <4>1, <4>2
    <3>3. TypeOK'
      BY <1>a, <2>1, <3>1, <3>2 DEF TypeOK
    <3>4. StartTasks'
      BY <1>a, <2>1, <3>1, <3>2, TaskKinds DEF StartTasks
    <3>5. Timers'
      BY <1>a, <2>1, <3>1, <3>2, TaskKinds, CallsStay DEF Timers
    <3>6. Deletion'
      <4>1. ~Has(tasks', DelTask) /\ ~deleted'
        BY <1>a, <2>1, <3>1, <3>2, TaskKinds DEF Deletion
      <4> QED
        BY <1>a, <2>1, <3>1, <3>2, <4>1, TaskKinds DEF Deletion
    <3> QED
      BY <3>3, <3>4, <3>5, <3>6 DEF FlowInv
  <2> QED
    BY <2>2, <2>3
<1>18. CASE OnStartDone
  <2>1. /\ state = ON_START /\ dones' = dones \cup {"on_start"}
        /\ answer' = [m \in Msgs |-> IF m \in triggers \cap StartTriggers THEN "ok" ELSE answer[m]]
        /\ triggers' = triggers \ StartTriggers
        /\ UNCHANGED <<manual, close_triggered, tasks, timerVars, pending, flushing, proxyVars,
                       deleted, arrived, handed>>
    BY <1>18 DEF OnStartDone, Done, ReplyTriggers
  <2>2. /\ calls' \in Seq(Callbacks)
        /\ \/ state' \in {ON_START_DONE, PREPARE_TO_STOP} /\ \A x : Called(x)' <=> Called(x)
           \/ state' = ON_STOP /\ \A x : Called(x)' <=> Called(x) \/ x = "on_stop"
    <3>1. CASE close_triggered
      BY <1>a, <1>18, <3>1, StopEffect DEF OnStartDone
    <3>2. CASE ~close_triggered
      BY <1>a, <1>18, <3>2, CallsStay DEF OnStartDone, TypeOK
    <3> QED
      BY <3>1, <3>2
  <2>3. TypeOK'
    BY <1>a, <2>1, <2>2 DEF TypeOK, Callbacks
  <2>4. StartTasks'
    BY <1>a, <2>1, <2>2, SameTasks DEF StartTasks
  <2>5. Timers'
    BY <1>a, <2>1, <2>2, SameTasks DEF Timers
  <2>6. Deletion'
    BY <1>a, <2>1, <2>2, SameTasks DEF Deletion
  <2> QED
    BY <2>3, <2>4, <2>5, <2>6 DEF FlowInv
<1>19. CASE OnStopDone
  <2>1. /\ state = ON_STOP /\ dones' = dones \cup {"on_stop"}
        /\ answer' = [m \in Msgs |-> IF m \in triggers \cap StopTriggers THEN "ok" ELSE answer[m]]
        /\ triggers' = triggers \ StopTriggers
        /\ UNCHANGED <<manual, close_triggered, path_timers, pending, flushing, proxyVars,
                       deleted, arrived, handed>>
    BY <1>19 DEF OnStopDone, Done, ReplyTriggers
  <2>2. CASE path_timers = 0
    <3>1. /\ state' = ON_DEINIT /\ calls' = Append(calls, "on_deinit")
          /\ UNCHANGED <<tasks, timers_closing>>
      BY <1>19, <2>2 DEF OnStopDone, Call
    <3>2. calls' \in Seq(Callbacks) /\ \A x : Called(x)' <=> Called(x) \/ x = "on_deinit"
      BY <1>a, <3>1, CallsGrow DEF Callbacks
    <3>3. TypeOK'
      BY <1>a, <2>1, <3>1, <3>2 DEF TypeOK, Callbacks
    <3>4. StartTasks'
      BY <1>a, <2>1, <3>1, SameTasks DEF StartTasks
    <3>5. Timers'
      BY <1>a, <2>1, <2>2, <3>1, <3>2, SameTasks DEF Timers
    <3>6. Deletion'
      BY <1>a, <2>1, <3>1, SameTasks DEF Deletion
    <3> QED
      BY <3>3, <3>4, <3>5, <3>6 DEF FlowInv
  <2>3. CASE path_timers # 0
    <3>0. state' = ON_STOP_DONE /\ UNCHANGED calls
      BY <1>19, <2>3 DEF OnStopDone
    <3>1. /\ timers_closing' = TRUE
          /\ tasks' = IF timers_closing THEN tasks
                      ELSE tasks \o <<CloseTimerTask, CloseTimerTask>>
      BY <1>19, <2>3 DEF OnStopDone, CloseTimerTask
    <3>2. /\ tasks' \in Seq(Tasks)
          /\ \A x : Has(tasks', x) => Has(tasks, x) \/ x = CloseTimerTask
          /\ \A x : Once(tasks, x) /\ x # CloseTimerTask => Once(tasks', x)
          /\ Twice(tasks', CloseTimerTask)
          /\ path_timers = 1 => Once(tasks', CloseTimerTask)
      <4>1. CASE timers_closing
        BY <1>a, <3>1, <4>1, SameTasks DEF Timers, TypeOK
      <4>2. CASE ~timers_closing
        <5> DEFINE s == Append(tasks, CloseTimerTask)
        <5>1. /\ s \in Seq(Tasks)
              /\ \A x : Has(s, x) <=> Has(tasks, x) \/ x = CloseTimerTask
              /\ \A x : Once(tasks, x) /\ x # CloseTimerTask => Once(s, x)
              /\ Once(s, CloseTimerTask)
          <6>1. ~Has(tasks, CloseTimerTask)
            BY <1>a, <4>2 DEF Timers
          <6>2. Once(tasks, CloseTimerTask)
            BY <6>1 DEF Once, Has
          <6> QED
            BY <1>a, <6>1, <6>2, TaskKinds, Posted
        <5>2. tasks' = Append(s, CloseTimerTask)
          BY <1>a, <3>1, <4>2, TaskKinds DEF TypeOK
        <5> HIDE DEF s
        <5>3. path_timers = 2
          BY <1>a, <2>3, <4>2, <2>1 DEF Timers, TypeOK
        <5> QED
          BY <5>1, <5>2, <5>3, TaskKinds, AppendQueue, AppendMore
      <4> QED
        BY <4>1, <4>2
    <3>3. TypeOK'
      BY <1>a, <2>1, <3>0, <3>1, <3>2 DEF TypeOK, Callbacks
    <3>4. StartTasks'
      BY <1>a, <3>0, <3>2, TaskKinds DEF StartTasks
    <3>5. Timers'
      BY <1>a, <2>1, <2>3, <3>0, <3>1, <3>2, TaskKinds, CallsStay DEF Timers, TypeOK
    <3>6. Deletion'
      <4>1. ~Has(tasks', DelTask) /\ ~deleted'
        BY <1>a, <2>1, <3>2, TaskKinds DEF Deletion
      <4> QED
        BY <1>a, <2>1, <3>2, <4>1, TaskKinds DEF Deletion
    <3> QED
      BY <3>3, <3>4, <3>5, <3>6 DEF FlowInv
  <2> QED
    BY <2>2, <2>3
<1>20. CASE OnDeinitDone
  <2>1. /\ state = ON_DEINIT /\ dones' = dones \cup {"on_deinit"} /\ state' = ON_DEINIT_DONE
        /\ UNCHANGED <<manual, close_triggered, timerVars, flushing, triggers, proxyVars, deleted,
                       arrived, handed, calls>>
    BY <1>20 DEF OnDeinitDone, Done
  <2>2. ~Has(tasks, DelTask) /\ ~deleted
    BY <1>a, <2>1 DEF Deletion
  <2>3. CASE proxies = {}
    <3>1. /\ tasks' = Append(tasks, DelTask) /\ pending' = << >>
          /\ answer' \in [Msgs -> {"none", "ok", "error"}]
      BY <1>a, <1>20, <2>3 DEF OnDeinitDone, FinishDeinit, Reject, DelTask, TypeOK
    <3>2. /\ tasks' \in Seq(Tasks)
          /\ \A x : Has(tasks', x) <=> Has(tasks, x) \/ x = DelTask
          /\ \A x : Once(tasks, x) /\ x # DelTask => Once(tasks', x)
          /\ \A x : Twice(tasks, x) /\ x # DelTask => Twice(tasks', x)
          /\ AtEnd(tasks', DelTask)
      BY <1>a, <2>2, <3>1, TaskKinds, Posted
    <3>3. TypeOK'
      BY <1>a, <2>1, <3>1, <3>2 DEF TypeOK, Callbacks
    <3>4. StartTasks'
      BY <1>a, <2>1, <3>2, TaskKinds DEF StartTasks
    <3>5. Timers'
      BY <1>a, <2>1, <3>2, TaskKinds, CallsStay DEF Timers
    <3>6. Deletion'
      BY <1>a, <2>1, <2>2, <2>3, <3>1, <3>2, TaskKinds DEF Deletion
    <3> QED
      BY <3>3, <3>4, <3>5, <3>6 DEF FlowInv
  <2>4. CASE proxies # {}
    <3>1. UNCHANGED <<answer, pending, tasks>>
      BY <1>20, <2>4 DEF OnDeinitDone
    <3>2. TypeOK'
      BY <1>a, <2>1, <3>1 DEF TypeOK, Callbacks
    <3>3. StartTasks'
      BY <1>a, <2>1, <3>1, SameTasks DEF StartTasks
    <3>4. Timers'
      BY <1>a, <2>1, <3>1, SameTasks, CallsStay DEF Timers
    <3>5. Deletion'
      BY <1>a, <2>1, <2>2, <3>1, SameTasks DEF Deletion
    <3> QED
      BY <3>2, <3>3, <3>4, <3>5 DEF FlowInv
  <2> QED
    BY <2>3, <2>4
<1>21. ASSUME NEW p \in Proxies, ProxyDeleted(p) PROVE FlowInv'
  <2> DEFINE s == Tail(tasks)
  <2>1. /\ ~flushing /\ tasks # << >> /\ Head(tasks) = DeletedTask(p)
        /\ proxies' = proxies \ {p}
        /\ UNCHANGED <<state, manual, close_triggered, timerVars, flushing, triggers, released,
                       notified, deleted, arrived, handed, calls, dones>>
    BY <1>21 DEF ProxyDeleted, DeletedTask
  <2>2. /\ s \in Seq(Tasks)
        /\ \A x : Has(tasks, x) <=> Has(s, x) \/ x = DeletedTask(p)
        /\ \A x : Once(tasks, x) => Once(s, x) /\ (x = DeletedTask(p) => ~Has(s, x))
        /\ \A x : Twice(tasks, x) => Twice(s, x)
    BY <1>a, <2>1, Taken
  <2>3. p \in proxies /\ ~Has(tasks, DelTask) /\ ~Has(s, DelTask) /\ ~deleted
    BY <1>a, <2>1, <2>2 DEF Deletion
  <2> HIDE DEF s
  <2>4. \A q \in Proxies :
          /\ Has(s, DeletedTask(q)) => q \in proxies' /\ q \in released'
          /\ Once(s, DeletedTask(q))
    BY <1>a, <2>1, <2>2, TaskKinds DEF Deletion
  <2>5. CASE proxies' = {} /\ state = ON_DEINIT_DONE
    <3>1. /\ tasks' = Append(s, DelTask) /\ pending' = << >>
          /\ answer' \in [Msgs -> {"none", "ok", "error"}]
      BY <1>a, <1>21, <2>5 DEF ProxyDeleted, FinishDeinit, Reject, DelTask, TypeOK, s
    <3>2. /\ tasks' \in Seq(Tasks)
          /\ \A x : Has(tasks', x) <=> Has(s, x) \/ x = DelTask
          /\ \A x : Once(s, x) /\ x # DelTask => Once(tasks', x)
          /\ \A x : Twice(s, x) /\ x # DelTask => Twice(tasks', x)
          /\ AtEnd(tasks', DelTask)
      BY <2>2, <2>3, <3>1, TaskKinds, AppendQueue, AppendMore
    <3>3. TypeOK'
      BY <1>a, <2>1, <3>1, <3>2 DEF TypeOK
    <3>4. StartTasks'
      BY <1>a, <2>1, <2>2, <3>2, TaskKinds DEF StartTasks
    <3>5. Timers'
      BY <1>a, <2>1, <2>2, <3>2, TaskKinds, CallsStay DEF Timers
    <3>6. Deletion'
      BY <1>a, <2>1, <2>3, <2>4, <2>5, <3>1, <3>2, TaskKinds DEF Deletion
    <3> QED
      BY <3>3, <3>4, <3>5, <3>6 DEF FlowInv
  <2>6. CASE ~(proxies' = {} /\ state = ON_DEINIT_DONE)
    <3>1. tasks' = s /\ UNCHANGED <<answer, pending>>
      BY <1>21, <2>6 DEF ProxyDeleted, s
    <3>2. TypeOK'
      BY <1>a, <2>1, <2>2, <3>1 DEF TypeOK
    <3>3. StartTasks'
      BY <1>a, <2>1, <2>2, <3>1, TaskKinds DEF StartTasks
    <3>4. Timers'
      BY <1>a, <2>1, <2>2, <3>1, TaskKinds, CallsStay DEF Timers
    <3>5. Deletion'
      BY <1>a, <2>1, <2>3, <2>4, <3>1 DEF Deletion
    <3> QED
      BY <3>2, <3>3, <3>4, <3>5 DEF FlowInv
  <2> QED
    BY <2>5, <2>6
<1>22. CASE UNCHANGED vars
  <2>1. TypeOK'
    BY <1>a, <1>22 DEF vars, TypeOK
  <2>2. StartTasks'
    BY <1>a, <1>22, SameTasks DEF vars, StartTasks
  <2>3. Timers'
    BY <1>a, <1>22, SameTasks, CallsStay DEF vars, Timers
  <2>4. Deletion'
    BY <1>a, <1>22, SameTasks DEF vars, Deletion
  <2> QED
    BY <2>1, <2>2, <2>3, <2>4 DEF FlowInv
<1> QED
  BY <1>1, <1>2, <1>3, <1>4, <1>5, <1>6, <1>7, <1>8, <1>9, <1>10, <1>11, <1>12, <1>13, <1>14,
     <1>15, <1>16, <1>17, <1>18, <1>19, <1>20, <1>21, <1>22
  DEF Next, UserDone, RunTask, Flush

-----------------------------------------------------------------------------
(* Where the messages are.                                                 *)

\* The messages that a step leaves alone stay where they are.
LEMMA PlacesSame ==
  ASSUME Places, UNCHANGED <<pending, arrived, handed, answer>>, dones \subseteq dones'
  PROVE  Places'
<1>1. \A x : (Has(pending, x)' <=> Has(pending, x)) /\ (Once(pending, x)' <=> Once(pending, x))
  BY DEF Has, Once
<1> QED
  BY <1>1 DEF Places

\* Only a trigger command is answered by the runtime when a stage is done.
LEMMA PlacesReply ==
  ASSUME TypeOK, Places, NEW cb \in Callbacks, NEW S \in SUBSET Triggers,
         UNCHANGED <<pending, arrived, handed>>, dones' = dones \cup {cb},
         ReplyTriggers(S),
         \/ cb = "on_start" /\ S = StartTriggers
         \/ cb = "on_stop" /\ S = StopTriggers
  PROVE  Places'
<1> USE LifeCycleAssumption
<1>1. \A x : (Has(pending, x)' <=> Has(pending, x)) /\ (Once(pending, x)' <=> Once(pending, x))
  BY DEF Has, Once
<1>2. \A m \in Cmds : answer'[m] = answer[m]
  BY DEF ReplyTriggers, Msgs
<1>3. \A m \in Triggers \ S : answer'[m] = answer[m]
  BY DEF ReplyTriggers, Msgs
<1>4. /\ \A m \in StartTriggers : answer'[m] = "ok" => "on_start" \in dones'
      /\ \A m \in StopTriggers : answer'[m] = "ok" => "on_stop" \in dones'
  BY <1>3 DEF Places, Triggers
<1> QED
  BY <1>1, <1>2, <1>4 DEF Places

\* Where a message goes that is handed on: only a command reaches on_cmd,
\* and only a trigger command gets an error.
LEMMA DispatchPlaces ==
  ASSUME TypeOK, NEW m \in Msgs, Dispatch(m)
  PROVE  /\ m \in Cmds => handed' = handed \cup {m} /\ answer' = answer
         /\ m \notin Cmds =>
              /\ handed' = handed
              /\ \A x \in Msgs : answer'[x] = answer[x] \/ (x = m /\ answer'[x] = "error")
<1> USE LifeCycleAssumption
<1>1. CASE m \in Cmds
  BY <1>1 DEF Dispatch, Triggers
<1>2. CASE m \in StartTriggers
  BY <1>2 DEF Dispatch, HandleTriggerStart, Reject, Triggers
<1>3. CASE m \in StopTriggers
  BY <1>3 DEF Dispatch, HandleTriggerStop, Reject, Triggers
<1> QED
  BY <1>1, <1>2, <1>3 DEF Msgs, Triggers

\* A message that has left the queue, or never was in it, finds its place.
LEMMA PlacesDispatch ==
  ASSUME TypeOK, Places, NEW m \in Msgs, Dispatch(m), dones' = dones,
         arrived' = arrived \cup {m},
         m \notin handed, answer[m] = "none" \/ m \notin Cmds,
         \A x : Once(pending, x) => Once(pending', x),
         ~Has(pending', m), \A x : x # m => (Has(pending', x) <=> Has(pending, x))
  PROVE  Places'
<1> USE LifeCycleAssumption
<1>1. CASE m \in Cmds
  <2>1. handed' = handed \cup {m} /\ answer' = answer
    BY <1>1, DispatchPlaces
  <2>2. answer[m] = "none"
    BY <1>1
  <2>3. \A x \in Msgs : Once(pending', x) /\ (Has(pending', x) => x \in arrived')
    BY DEF Places
  <2>4. \A x \in Cmds :
          /\ x \in arrived' => Has(pending', x) \/ x \in handed' \/ answer'[x] # "none"
          /\ x \in handed' => x \in arrived' /\ answer'[x] = "none" /\ ~Has(pending', x)
          /\ answer'[x] # "none" => x \in arrived' /\ ~Has(pending', x)
    BY <2>1, <2>2 DEF Places
  <2> QED
    BY <2>1, <2>3, <2>4 DEF Places
<1>2. CASE m \notin Cmds
  <2>1. /\ handed' = handed
        /\ \A x \in Msgs : answer'[x] = answer[x] \/ (x = m /\ answer'[x] = "error")
    BY <1>2, DispatchPlaces
  <2>2. \A x \in Cmds : answer'[x] = answer[x]
    BY <1>2, <2>1 DEF Msgs
  <2>3. \A x \in Msgs : Once(pending', x) /\ (Has(pending', x) => x \in arrived')
    BY DEF Places
  <2>4. \A x \in Cmds :
          /\ x \in arrived' => Has(pending', x) \/ x \in handed' \/ answer'[x] # "none"
          /\ x \in handed' => x \in arrived' /\ answer'[x] = "none" /\ ~Has(pending', x)
          /\ answer'[x] # "none" => x \in arrived' /\ ~Has(pending', x)
    BY <1>2, <2>1, <2>2 DEF Places
  <2>5. \A x \in Msgs : answer'[x] = "ok" => answer[x] = "ok"
    BY <2>1
  <2>6. /\ \A x \in StartTriggers : answer'[x] = "ok" => "on_start" \in dones'
        /\ \A x \in StopTriggers : answer'[x] = "ok" => "on_stop" \in dones'
    BY <2>5 DEF Places, Msgs, Triggers
  <2> QED
    BY <2>3, <2>4, <2>6 DEF Places
<1> QED
  BY <1>1, <1>2

\* The last flush rejects everything that is still queued.
LEMMA PlacesFlushed ==
  ASSUME TypeOK, Places, NEW q, FinishDeinit(q), UNCHANGED <<arrived, handed>>,
         dones \subseteq dones'
  PROVE  Places'
<1>1. pending' = << >> /\ \A x : ~Has(pending', x) /\ Once(pending', x)
  BY DEF FinishDeinit, Has, Once
<1>2. \A x \in Msgs : answer'[x] = IF Has(pending, x) THEN "error" ELSE answer[x]
  <2>1. answer' = [x \in Msgs |-> IF x \in {pending[i] : i \in 1 .. Len(pending)}
                                  THEN "error" ELSE answer[x]]
    BY DEF FinishDeinit, Reject
  <2>2. \A x : x \in {pending[i] : i \in 1 .. Len(pending)} <=> Has(pending, x)
    BY DEF Has
  <2> QED
    BY <2>1, <2>2
<1>3. \A x \in Cmds :
        /\ x \in arrived' => Has(pending', x) \/ x \in handed' \/ answer'[x] # "none"
        /\ x \in handed' => x \in arrived' /\ answer'[x] = "none" /\ ~Has(pending', x)
        /\ answer'[x] # "none" => x \in arrived' /\ ~Has(pending', x)
  BY <1>1, <1>2 DEF Places, Msgs
<1>4. /\ \A x \in StartTriggers : answer'[x] = "ok" => "on_start" \in dones'
      /\ \A x \in StopTriggers : answer'[x] = "ok" => "on_stop" \in dones'
  BY <1>2 DEF Places, Msgs, Triggers
<1> QED
  BY <1>1, <1>3, <1>4 DEF Places

\* Every step keeps track of the messages.
LEMMA NextPlaces ==
  ASSUME IInv, [Next]_vars
  PROVE  Places'
<1> USE LifeCycleAssumption DEF timerVars, msgVars, proxyVars
<1>a. TypeOK /\ Deletion /\ Places
  BY DEF IInv
<1>1. ASSUME NEW m \in Msgs, QueueMsg(m) PROVE Places'
  <2>1. /\ m \notin arrived /\ arrived' = arrived \cup {m} /\ pending' = Append(pending, m)
        /\ UNCHANGED <<handed, answer, dones>>
    BY <1>1 DEF QueueMsg
  <2>2. ~Has(pending, m)
    BY <1>a, <2>1 DEF Places
  <2>3. /\ \A x : Has(pending', x) <=> Has(pending, x) \/ x = m
        /\ \A x : Once(pending, x) => Once(pending', x)
    BY <1>a, <2>1, <2>2, AppendQueue DEF TypeOK
  <2>4. m \in Cmds => m \notin handed /\ answer[m] = "none"
    BY <1>a, <2>1 DEF Places
  <2> QED
    BY <1>a, <2>1, <2>3, <2>4 DEF Places
<1>2. ASSUME NEW m \in Msgs, HandleMsg(m) PROVE Places'
  <2>1. /\ m \notin arrived /\ arrived' = arrived \cup {m} /\ Dispatch(m)
        /\ UNCHANGED <<pending, dones>>
    BY <1>2 DEF HandleMsg
  <2>2. ~Has(pending, m) /\ (m \in Cmds => m \notin handed /\ answer[m] = "none")
    BY <1>a, <2>1 DEF Places
  <2>3. m \notin handed
    BY <1>a, <2>2 DEF TypeOK
  <2>4. \A x : (Has(pending', x) <=> Has(pending, x)) /\ (Once(pending, x) => Once(pending', x))
    BY <2>1 DEF Has, Once
  <2> QED
    BY <1>a, <2>1, <2>2, <2>3, <2>4, PlacesDispatch
<1>3. ASSUME NEW m \in Msgs, RejectMsg(m) PROVE Places'
  <2>1. /\ m \notin arrived /\ arrived' = arrived \cup {m}
        /\ UNCHANGED <<pending, handed, dones>>
    BY <1>3 DEF RejectMsg
  <2>2. \A x \in Msgs : /\ answer'[x] = answer[x] \/ (x = m /\ answer'[x] = "error")
                        /\ x = m /\ x \in Cmds => answer'[x] = "error"
    BY <1>3 DEF RejectMsg, Reject, Triggers
  <2>3. ~Has(pending, m) /\ (m \in Cmds => m \notin handed /\ answer[m] = "none")
    BY <1>a, <2>1 DEF Places
  <2>4. \A x : (Has(pending', x) <=> Has(pending, x)) /\ (Once(pending, x) => Once(pending', x))
    BY <2>1 DEF Has, Once
  <2>5. \A x \in Cmds :
          /\ x \in arrived' => Has(pending', x) \/ x \in handed' \/ answer'[x] # "none"
          /\ x \in handed' => x \in arrived' /\ answer'[x] = "none" /\ ~Has(pending', x)
          /\ answer'[x] # "none" => x \in arrived' /\ ~Has(pending', x)
    BY <1>a, <2>1, <2>2, <2>3, <2>4 DEF Places, Msgs
  <2>6. /\ \A x \in StartTriggers : answer'[x] = "ok" => "on_start" \in dones'
        /\ \A x \in StopTriggers : answer'[x] = "ok" => "on_stop" \in dones'
    BY <1>a, <2>1, <2>2 DEF Places, Msgs, Triggers
  <2>7. \A x \in Msgs : Once(pending', x) /\ (Has(pending', x) => x \in arrived')
    BY <1>a, <2>1, <2>4 DEF Places
  <2> QED
    BY <2>5, <2>6, <2>7 DEF Places
<1>4. CASE FlushMsg
  <2> DEFINE m == Head(pending)
  <2>1. pending # << >> /\ pending' = Tail(pending) /\ Dispatch(m) /\ UNCHANGED <<arrived, dones>>
    BY <1>4 DEF FlushMsg
  <2>2. /\ m \in Msgs /\ Has(pending, m)
        /\ \A x : Has(pending, x) <=> Has(pending', x) \/ x = m
        /\ \A x : Once(pending, x) => Once(pending', x) /\ (x = m => ~Has(pending', x))
    BY <1>a, <2>1, TailQueue DEF TypeOK
  <2> HIDE DEF m
  <2>3. m \in arrived /\ ~Has(pending', m) /\ (m \in Cmds => m \notin handed /\ answer[m] = "none")
    BY <1>a, <2>2 DEF Places
  <2>4. m \notin handed /\ arrived' = arrived \cup {m}
    BY <1>a, <2>1, <2>3 DEF TypeOK
  <2>5. \A x : x # m => (Has(pending', x) <=> Has(pending, x))
    BY <2>2
  <2> QED
    BY <1>a, <2>1, <2>2, <2>3, <2>4, <2>5, PlacesDispatch
<1>5. CASE OnStartDone
  <2>1. /\ UNCHANGED <<pending, arrived, handed>> /\ dones' = dones \cup {"on_start"}
        /\ ReplyTriggers(StartTriggers)
    BY <1>5 DEF OnStartDone, Done
  <2> QED
    BY <1>a, <2>1, PlacesReply DEF Callbacks, Triggers
<1>6. CASE OnStopDone
  <2>1. /\ UNCHANGED <<pending, arrived, handed>> /\ dones' = dones \cup {"on_stop"}
        /\ ReplyTriggers(StopTriggers)
    BY <1>6 DEF OnStopDone, Done
  <2> QED
    BY <1>a, <2>1, PlacesReply DEF Callbacks, Triggers
<1>7. CASE OnDeinitDone
  <2>1. /\ UNCHANGED <<arrived, handed>> /\ dones \subseteq dones'
        /\ FinishDeinit(tasks) \/ UNCHANGED <<answer, pending>>
    BY <1>7 DEF OnDeinitDone, Done
  <2> QED
    BY <1>a, <2>1, PlacesFlushed, PlacesSame
<1>8. ASSUME NEW p \in Proxies, ProxyDeleted(p) PROVE Places'
  <2>1. /\ UNCHANGED <<arrived, handed>> /\ dones \subseteq dones'
        /\ FinishDeinit(Tail(tasks)) \/ UNCHANGED <<answer, pending>>
    BY <1>8 DEF ProxyDeleted
  <2> QED
    BY <1>a, <2>1, PlacesFlushed, PlacesSame
<1>9. CASE OnConfigure \/ TriggerClose \/ OnConfigureDone \/ OnInitDone \/ OnInitTask
           \/ OnStartTask \/ TimerClosed \/ DelExtension \/ OnInitDoneEnd
  <2>1. UNCHANGED <<pending, arrived, handed, answer>> /\ dones \subseteq dones'
    BY <1>9 DEF OnConfigure, TriggerClose, OnConfigureDone, OnInitDone, OnInitTask, OnStartTask,
                TimerClosed, DelExtension, OnInitDoneEnd, Done
  <2> QED
    BY <1>a, <2>1, PlacesSame
<1>10. ASSUME NEW p \in Proxies,
              NotifyTask(p) \/ CreateProxy(p) \/ ProxyNotify(p) \/ ProxyRelease(p)
       PROVE  Places'
  <2>1. UNCHANGED <<pending, arrived, handed, answer>> /\ dones \subseteq dones'
    BY <1>10 DEF NotifyTask, CreateProxy, ProxyNotify, ProxyRelease
  <2> QED
    BY <1>a, <2>1, PlacesSame
<1>11. CASE UNCHANGED vars
  BY <1>a, <1>11, PlacesSame DEF vars
<1> QED
  BY <1>1, <1>2, <1>3, <1>4, <1>5, <1>6, <1>7, <1>8, <1>9, <1>10, <1>11
  DEF Next, UserDone, RunTask, Flush

\* The invariant holds in every behaviour.
THEOREM Invariance == Spec => []IInv
<1>1. Init => IInv
  BY InitIInv
<1>2. IInv /\ [Next]_vars => IInv'
  BY NextFlow, NextPlaces DEF IInv, FlowInv
<1> QED
  BY <1>1, <1>2, PTL DEF Spec

\* A deleted extension is out of reach of its runloop, its proxies and its
\* queue, and its path timers are closed before on_deinit, however many
\* proxies other threads hold and whenever they release them.
THEOREM DeletedIsUnreachable == Spec => []NoUseAfterDelete
<1>1. IInv => NoUseAfterDelete
  <2> SUFFICES ASSUME IInv PROVE NoUseAfterDelete
    OBVIOUS
  <2>1. deleted => tasks = << >> /\ proxies = {} /\ pending = << >>
    BY DEF IInv, Deletion
  <2>2. TimersClosedBeforeDeinit
    BY DEF IInv, Timers, TimersClosedBeforeDeinit
  <2> QED
    BY <2>1, <2>2 DEF NoUseAfterDelete
<1> QED
  BY <1>1, Invariance, PTL

\* No command is lost or answered twice: one that the thread has taken is
\* queued, was handed to on_cmd or was rejected, and only one of them; and a
\* trigger command is confirmed only when its stage is done.
THEOREM CommandsAccounted == Spec => []CmdsAccounted
<1>1. IInv => CmdsAccounted
  <2> SUFFICES ASSUME IInv PROVE CmdsAccounted
    OBVIOUS
  <2>a. Places
    BY DEF IInv
  <2>1. ASSUME NEW m \in Cmds \cap arrived PROVE CmdAccounted(m)
    <3> DEFINE W == {w \in {"queued", "handed", "rejected"} :
                       \/ w = "queued" /\ \E i \in 1 .. Len(pending) : pending[i] = m
                       \/ w = "handed" /\ m \in handed
                       \/ w = "rejected" /\ answer[m] # "none"}
    <3>1. Has(pending, m) <=> \E i \in 1 .. Len(pending) : pending[i] = m
      BY DEF Has
    <3>2. /\ "queued" \in W <=> Has(pending, m)
          /\ "handed" \in W <=> m \in handed
          /\ "rejected" \in W <=> answer[m] # "none"
          /\ W \subseteq {"queued", "handed", "rejected"}
      BY <3>1
    <3> HIDE DEF W
    <3>3. W = {"queued"} \/ W = {"handed"} \/ W = {"rejected"}
      BY <2>a, <3>2 DEF Places
    <3>4. Cardinality(W) = 1
      BY <3>3, FS_Singleton
    <3> QED
      BY <3>4 DEF CmdAccounted, W
  <2>2. ASSUME NEW m \in Triggers, answer[m] = "ok"
        PROVE  IF m \in StartTriggers THEN "on_start" \in dones ELSE "on_stop" \in dones
    BY <2>a, <2>2 DEF Places, Triggers
  <2> QED
    BY <2>1, <2>2 DEF CmdsAccounted
<1> QED
  BY <1>1, Invariance, PTL

-----------------------------------------------------------------------------
(* The order of the callbacks, when the start stage is automatic.          *)

\* The positions of the callbacks and of the states.
LEMMA Ranks ==
  /\ Rank("on_configure") = 1 /\ Rank("on_init") = 2 /\ Rank("on_start") = 3
  /\ Rank("on_stop") = 4 /\ Rank("on_deinit") = 5
  /\ LastRank(0) = 0 /\ LastRank(1) = 1 /\ LastRank(2) = 1 /\ LastRank(3) = 2 /\ LastRank(4) = 2
  /\ LastRank(5) = 3 /\ LastRank(6) = 3 /\ LastRank(7) = 3 /\ LastRank(8) = 4 /\ LastRank(9) = 4
  /\ LastRank(10) = 5 /\ LastRank(11) = 5
<1>1. /\ Rank("on_configure") = 1 /\ Rank("on_init") = 2 /\ Rank("on_start") = 3
      /\ Rank("on_stop") = 4 /\ Rank("on_deinit") = 5
  BY DEF Rank
<1>2. LastRank(0) = 0 /\ LastRank(1) = 1 /\ LastRank(2) = 1 /\ LastRank(3) = 2 /\ LastRank(4) = 2
  BY DEF LastRank
<1>3. /\ LastRank(5) = 3 /\ LastRank(6) = 3 /\ LastRank(7) = 3 /\ LastRank(8) = 4
      /\ LastRank(9) = 4 /\ LastRank(10) = 5 /\ LastRank(11) = 5
  BY DEF LastRank
<1> QED
  BY <1>1, <1>2, <1>3

\* They are numbers, before and after a step.
LEMMA RankTypes ==
  ASSUME TypeOK, TypeOK'
  PROVE  /\ \A x \in Callbacks : Rank(x) \in 1 .. 5
         /\ LastRank(state) \in 0 .. 5 /\ LastRank(state') \in 0 .. 5
<1>1. state \in 0 .. 11 /\ state' \in 0 .. 11
  BY DEF TypeOK, ST_INIT, ON_DEINIT_DONE
<1>2. \A s \in 0 .. 11 : LastRank(s) \in 0 .. 5
  BY Ranks
<1>3. \A x \in Callbacks : Rank(x) \in 1 .. 5
  BY Ranks DEF Callbacks
<1> QED
  BY <1>1, <1>2, <1>3

\* A callback that ranks above the present state comes after all the others.
LEMMA OrderCall ==
  ASSUME TypeOK, OrderInv, NEW cb \in Callbacks, calls' = Append(calls, cb),
         Rank(cb) > LastRank(state)
  PROVE  CalledInOrder'
<1> DEFINE n == Len(calls)
<1>1. /\ n \in Nat /\ Len(calls') = n + 1 /\ calls'[n + 1] = cb
      /\ \A i \in 1 .. n : calls'[i] = calls[i] /\ calls[i] \in Callbacks
  BY DEF TypeOK
<1>2. state \in 0 .. 11
  BY DEF TypeOK, ST_INIT, ON_DEINIT_DONE
<1>3. /\ \A x \in Callbacks : Rank(x) \in 1 .. 5
      /\ LastRank(state) \in 0 .. 5
  BY <1>2, Ranks DEF Callbacks
<1>4. \A i \in 1 .. n : Rank(calls[i]) < Rank(cb)
  <2> SUFFICES ASSUME NEW i \in 1 .. n PROVE Rank(calls[i]) < Rank(cb)
    OBVIOUS
  <2>1. calls[i] \in Callbacks /\ Called(calls[i])
    BY <1>1 DEF Called
  <2>2. Rank(calls[i]) <= LastRank(state)
    BY <2>1 DEF OrderInv
  <2> QED
    BY <1>3, <2>1, <2>2
<1>5. \A i, j \in 1 .. n : i < j => Rank(calls[i]) < Rank(calls[j])
  BY DEF OrderInv, CalledInOrder
<1> SUFFICES ASSUME NEW i \in 1 .. n + 1, NEW j \in 1 .. n + 1, i < j
             PROVE  Rank(calls'[i]) < Rank(calls'[j])
  BY <1>1 DEF CalledInOrder
<1>6. CASE j = n + 1
  <2>1. i \in 1 .. n
    BY <1>1, <1>6
  <2> QED
    BY <1>1, <1>4, <1>6, <2>1
<1>7. CASE j # n + 1
  <2>1. i \in 1 .. n /\ j \in 1 .. n
    BY <1>1, <1>7
  <2> QED
    BY <1>1, <1>5, <2>1
<1> QED
  BY <1>6, <1>7

\* A step that does not go back, and leaves a state of the start flow only by
\* its done call.
Forward ==
  /\ LastRank(state) <= LastRank(state')
  /\ flushing' => state' = ON_INIT_DONE
  /\ dones \subseteq dones'
  /\ state = ON_CONFIGURE => state' = state \/ "on_configure" \in dones'
  /\ state = ON_INIT => state' = state \/ "on_init" \in dones'
  /\ state = ON_START => state' = state \/ "on_start" \in dones'

\* A step of this kind that makes no callback keeps the order.
LEMMA OrderQuiet ==
  ASSUME TypeOK, TypeOK', OrderInv, Forward, calls' = calls
  PROVE  OrderInv'
<1>1. \A x : Called(x)' <=> Called(x)
  BY CallsStay
<1>2. CalledInOrder'
  BY DEF OrderInv, CalledInOrder
<1>3. \A cb \in Callbacks : Called(cb)' => Rank(cb) <= LastRank(state')
  <2>1. /\ \A x \in Callbacks : Rank(x) \in 1 .. 5
        /\ LastRank(state) \in 0 .. 5 /\ LastRank(state') \in 0 .. 5
    BY RankTypes
  <2>2. \A cb \in Callbacks : Called(cb) => Rank(cb) <= LastRank(state)
    BY DEF OrderInv
  <2>3. LastRank(state) <= LastRank(state')
    BY DEF Forward
  <2> QED
    BY <1>1, <2>1, <2>2, <2>3
<1> QED
  BY <1>1, <1>2, <1>3 DEF OrderInv, Forward

\* A step of this kind that makes the callback of the state it enters keeps
\* the order.
LEMMA OrderLoud ==
  ASSUME TypeOK, TypeOK', OrderInv, Forward, NEW cb \in Callbacks,
         calls' = Append(calls, cb), Rank(cb) > LastRank(state), Rank(cb) <= LastRank(state'),
         cb = "on_configure" => state' = ON_CONFIGURE,
         cb = "on_init" => state' = ON_INIT, cb = "on_start" => state' = ON_START
  PROVE  OrderInv'
<1>1. \A x : Called(x)' <=> Called(x) \/ x = cb
  BY CallsGrow
<1>2. CalledInOrder'
  BY OrderCall
<1>3. \A x \in Callbacks : Called(x)' => Rank(x) <= LastRank(state')
  <2>1. /\ \A x \in Callbacks : Rank(x) \in 1 .. 5
        /\ LastRank(state) \in 0 .. 5 /\ LastRank(state') \in 0 .. 5
    BY RankTypes
  <2>2. \A x \in Callbacks : Called(x) => Rank(x) <= LastRank(state)
    BY DEF OrderInv
  <2>3. LastRank(state) <= LastRank(state')
    BY DEF Forward
  <2> QED
    BY <1>1, <2>1, <2>2, <2>3
<1>4. /\ Called("on_configure")' => "on_configure" \in dones' \/ state' = ON_CONFIGURE
      /\ Called("on_init")' => "on_init" \in dones' \/ state' = ON_INIT
      /\ Called("on_start")' => "on_start" \in dones' \/ state' = ON_START
  BY <1>1 DEF OrderInv, Forward
<1> QED
  BY <1>2, <1>3, <1>4 DEF OrderInv, Forward

\* Every step keeps the callbacks in order when the start stage is automatic.
LEMMA NextOrder ==
  ASSUME "start" \notin manual, FlowInv, FlowInv', OrderInv, [Next]_vars
  PROVE  OrderInv'
<1> USE DEF timerVars, msgVars, proxyVars, ST_INIT, ON_CONFIGURE, ON_CONFIGURE_DONE, ON_INIT,
            ON_INIT_DONE, ON_START, ON_START_DONE, PREPARE_TO_STOP, ON_STOP, ON_STOP_DONE,
            ON_DEINIT, ON_DEINIT_DONE
<1>a. TypeOK /\ StartTasks /\ Timers /\ TypeOK'
  BY DEF FlowInv
<1>b. /\ state \in 0 .. 11 /\ state' \in 0 .. 11 /\ (flushing => state = 4)
      /\ "start" \notin manual
  BY <1>a DEF TypeOK, OrderInv
<1>c. /\ "on_configure" \in Callbacks /\ "on_init" \in Callbacks /\ "on_start" \in Callbacks
      /\ "on_stop" \in Callbacks /\ "on_deinit" \in Callbacks
  BY DEF Callbacks
<1>d. ASSUME state' = state, calls' = calls, dones \subseteq dones', flushing' => flushing
      PROVE  OrderInv'
  <2>1. Forward
    BY <1>b, <1>d, Ranks DEF Forward
  <2> QED
    BY <1>a, <1>d, <2>1, OrderQuiet
\* The close flow is entered from a state whose callback is done.
<1>e. ASSUME ten_extension_trigger_stop_if_needed, state \in {1, 2, 4, 5, 6}, dones \subseteq dones',
             ~flushing', state = 1 => "on_configure" \in dones', state = 5 => "on_start" \in dones'
      PROVE  OrderInv'
  <2>1. \/ state' = 7 /\ calls' = calls
        \/ state' = 8 /\ calls' = Append(calls, "on_stop")
    BY <1>a, <1>e, StopEffect
  <2>2. Forward
    BY <1>e, <2>1, Ranks DEF Forward
  <2>3. CASE state' = 7 /\ calls' = calls
    BY <1>a, <2>2, <2>3, OrderQuiet
  <2>4. CASE state' = 8 /\ calls' = Append(calls, "on_stop")
    <3>1. Rank("on_stop") > LastRank(state) /\ Rank("on_stop") <= LastRank(state')
      BY <1>e, <2>4, Ranks
    <3> QED
      BY <1>a, <1>c, <2>2, <2>4, <3>1, OrderLoud
  <2> QED
    BY <2>1, <2>3, <2>4
\* A message does not start the extension, and stops one that waits for it.
<1>f. ASSUME NEW m \in Msgs, Dispatch(m), UNCHANGED <<dones, flushing>>
      PROVE  OrderInv'
  <2>1. \/ state' = state /\ calls' = calls
        \/ state = 7 /\ state' = 8 /\ calls' = Append(calls, "on_stop")
    BY <1>a, <1>b, <1>f, DispatchEffect
  <2>2. CASE state' = state /\ calls' = calls
    BY <1>d, <1>f, <2>2
  <2>3. CASE state = 7 /\ state' = 8 /\ calls' = Append(calls, "on_stop")
    <3>1. Forward
      BY <1>b, <1>f, <2>3, Ranks DEF Forward
    <3>2. Rank("on_stop") > LastRank(state) /\ Rank("on_stop") <= LastRank(state')
      BY <2>3, Ranks
    <3> QED
      BY <1>a, <1>c, <2>3, <3>1, <3>2, OrderLoud
  <2> QED
    BY <2>1, <2>2, <2>3
<1>1. ASSUME NEW m \in Msgs, QueueMsg(m) \/ RejectMsg(m) PROVE OrderInv'
  BY <1>1, <1>d DEF QueueMsg, RejectMsg
<1>2. ASSUME NEW m \in Msgs, HandleMsg(m) PROVE OrderInv'
  BY <1>2, <1>f DEF HandleMsg
<1>3. CASE FlushMsg
  <2>1. Head(pending) \in Msgs /\ Dispatch(Head(pending)) /\ UNCHANGED <<dones, flushing>>
    BY <1>a, <1>3, TailQueue DEF FlushMsg, TypeOK
  <2> QED
    BY <1>f, <2>1
<1>4. CASE OnConfigure
  <2>1. /\ state = 0 /\ state' = 1 /\ calls' = Append(calls, "on_configure")
        /\ UNCHANGED <<dones, flushing>>
    BY <1>4 DEF OnConfigure, Call
  <2>2. Forward
    BY <1>b, <2>1, Ranks DEF Forward
  <2>3. Rank("on_configure") > LastRank(state) /\ Rank("on_configure") <= LastRank(state')
    BY <2>1, Ranks
  <2> QED
    BY <1>a, <1>c, <2>1, <2>2, <2>3, OrderLoud
<1>5. CASE TriggerClose
  <2>1. CASE state \in {2, 4, 6}
    BY <1>5, <1>e, <2>1 DEF TriggerClose
  <2>2. CASE state \notin {2, 4, 6}
    BY <1>5, <1>d, <2>2 DEF TriggerClose
  <2> QED
    BY <2>1, <2>2
<1>6. CASE OnConfigureDone
  <2>1. state = 1 /\ dones' = dones \cup {"on_configure"} /\ flushing' = flushing /\ ~flushing
    BY <1>b, <1>6 DEF OnConfigureDone, Done
  <2>2. CASE close_triggered
    BY <1>6, <1>e, <2>1, <2>2 DEF OnConfigureDone
  <2>3. CASE ~close_triggered
    <3>1. state' = 2 /\ calls' = calls
      BY <1>6, <2>3 DEF OnConfigureDone
    <3>2. Forward
      BY <2>1, <3>1, Ranks DEF Forward
    <3> QED
      BY <1>a, <3>1, <3>2, OrderQuiet
  <2> QED
    BY <2>2, <2>3
<1>7. CASE OnInitDone
  <2>1. state = 3 /\ dones' = dones \cup {"on_init"} /\ state' = 4 /\ calls' = calls
    BY <1>7 DEF OnInitDone, Done
  <2>2. Forward
    BY <2>1, Ranks DEF Forward
  <2> QED
    BY <1>a, <2>1, <2>2, OrderQuiet
<1>8. CASE OnStartDone
  <2>1. state = 5 /\ dones' = dones \cup {"on_start"} /\ flushing' = flushing /\ ~flushing
    BY <1>b, <1>8 DEF OnStartDone, Done
  <2>2. CASE close_triggered
    BY <1>8, <1>e, <2>1, <2>2 DEF OnStartDone
  <2>3. CASE ~close_triggered
    <3>1. state' = 6 /\ calls' = calls
      BY <1>8, <2>3 DEF OnStartDone
    <3>2. Forward
      BY <2>1, <3>1, Ranks DEF Forward
    <3> QED
      BY <1>a, <3>1, <3>2, OrderQuiet
  <2> QED
    BY <2>2, <2>3
<1>9. CASE OnStopDone
  <2>1. state = 8 /\ dones' = dones \cup {"on_stop"} /\ flushing' = flushing /\ ~flushing
    BY <1>b, <1>9 DEF OnStopDone, Done
  <2>2. CASE path_timers = 0
    <3>1. state' = 10 /\ calls' = Append(calls, "on_deinit")
      BY <1>9, <2>2 DEF OnStopDone, Call
    <3>2. Forward
      BY <2>1, <3>1, Ranks DEF Forward
    <3>3. Rank("on_deinit") > LastRank(state) /\ Rank("on_deinit") <= LastRank(state')
      BY <2>1, <3>1, Ranks
    <3> QED
      BY <1>a, <1>c, <3>1, <3>2, <3>3, OrderLoud
  <2>3. CASE path_timers # 0
    <3>1. state' = 9 /\ calls' = calls
      BY <1>9, <2>3 DEF OnStopDone
    <3>2. Forward
      BY <2>1, <3>1, Ranks DEF Forward
    <3> QED
      BY <1>a, <3>1, <3>2, OrderQuiet
  <2> QED
    BY <2>2, <2>3
<1>10. CASE OnDeinitDone
  <2>1. /\ state = 10 /\ dones \subseteq dones' /\ state' = 11 /\ calls' = calls
        /\ flushing' = flushing /\ ~flushing
    BY <1>b, <1>10 DEF OnDeinitDone, Done
  <2>2. Forward
    BY <2>1, Ranks DEF Forward
  <2> QED
    BY <1>a, <2>1, <2>2, OrderQuiet
<1>11. CASE OnInitTask
  <2>1. Has(tasks, InitTask) /\ ~flushing /\ UNCHANGED <<dones, flushing>>
    BY <1>a, <1>11, Taken DEF OnInitTask, InitTask
  <2>2. CASE state >= 7
    BY <1>11, <1>d, <2>1, <2>2 DEF OnInitTask, Skipped
  <2>3. CASE ~(state >= 7)
    <3>1. state = 2 /\ state' = 3 /\ calls' = Append(calls, "on_init")
      BY <1>a, <1>11, <2>1, <2>3 DEF OnInitTask, Skipped, StartTasks, Call
    <3>2. Forward
      BY <2>1, <3>1, Ranks DEF Forward
    <3>3. Rank("on_init") > LastRank(state) /\ Rank("on_init") <= LastRank(state')
      BY <3>1, Ranks
    <3> QED
      BY <1>a, <1>c, <3>1, <3>2, <3>3, OrderLoud
  <2> QED
    BY <2>2, <2>3
<1>12. CASE OnStartTask
  <2>1. Has(tasks, StartTask) /\ ~flushing /\ UNCHANGED <<dones, flushing>>
    BY <1>a, <1>12, Taken DEF OnStartTask, StartTask
  <2>2. CASE state >= 5
    BY <1>12, <1>d, <2>1, <2>2 DEF OnStartTask
  <2>3. CASE ~(state >= 5)
    <3>1. state = 4 /\ state' = 5 /\ calls' = Append(calls, "on_start")
      BY <1>a, <1>b, <1>12, <2>1, <2>3 DEF OnStartTask, StartTasks, Call
    <3>2. Forward
      BY <2>1, <3>1, Ranks DEF Forward
    <3>3. Rank("on_start") > LastRank(state) /\ Rank("on_start") <= LastRank(state')
      BY <3>1, Ranks
    <3> QED
      BY <1>a, <1>c, <3>1, <3>2, <3>3, OrderLoud
  <2> QED
    BY <2>2, <2>3
<1>13. CASE TimerClosed
  <2>1. /\ Has(tasks, CloseTimerTask) /\ ~flushing /\ UNCHANGED <<dones, flushing>>
        /\ path_timers' = path_timers - 1
    BY <1>a, <1>13, Taken DEF TimerClosed, CloseTimerTask
  <2>2. CASE path_timers' = 0
    <3>1. state' = 10 /\ calls' = Append(calls, "on_deinit")
      BY <1>13, <2>2 DEF TimerClosed, Call
    <3>2. state \in {7, 8, 9}
      BY <1>a, <1>b, <2>1 DEF Timers, TypeOK
    <3>3. Forward
      BY <2>1, <3>1, <3>2, Ranks DEF Forward
    <3>4. Rank("on_deinit") > LastRank(state) /\ Rank("on_deinit") <= LastRank(state')
      BY <3>1, <3>2, Ranks
    <3> QED
      BY <1>a, <1>c, <3>1, <3>3, <3>4, OrderLoud
  <2>3. CASE path_timers' # 0
    BY <1>13, <1>d, <2>1, <2>3 DEF TimerClosed
  <2> QED
    BY <2>2, <2>3
<1>14. CASE OnInitDoneEnd
  <2>1. state = 4 /\ flushing' = FALSE /\ dones' = dones
    BY <1>b, <1>14 DEF OnInitDoneEnd
  <2>2. CASE close_triggered
    <3>1. ten_extension_trigger_stop_if_needed
      BY <1>14, <2>2 DEF OnInitDoneEnd
    <3> QED
      BY <1>e, <2>1, <3>1
  <2>3. CASE ~close_triggered
    <3>1. UNCHANGED <<state, calls>>
      BY <1>14, <2>3 DEF OnInitDoneEnd
    <3> QED
      BY <1>d, <2>1, <3>1
  <2> QED
    BY <2>2, <2>3
<1>15. CASE DelExtension \/ UNCHANGED vars
  BY <1>15, <1>d DEF DelExtension, vars
<1>16. ASSUME NEW p \in Proxies, NotifyTask(p) \/ ProxyDeleted(p) \/ CreateProxy(p)
                                   \/ ProxyNotify(p) \/ ProxyRelease(p)
       PROVE  OrderInv'
  BY <1>16, <1>d DEF NotifyTask, ProxyDeleted, CreateProxy, ProxyNotify, ProxyRelease
<1> QED
  BY <1>1, <1>2, <1>3, <1>4, <1>5, <1>6, <1>7, <1>8, <1>9, <1>10, <1>11, <1>12, <1>13, <1>14,
     <1>15, <1>16
  DEF Next, UserDone, RunTask, Flush

\* The manual stages are read once, when on_configure is done.
ManualUnread == state <= ON_CONFIGURE => manual = {}

LEMMA NextManual ==
  ASSUME FlowInv, FlowInv', ManualUnread, [Next]_vars
  PROVE  ManualUnread' /\ ("start" \notin manual' => "start" \notin manual)
<1> USE DEF timerVars, msgVars, proxyVars, ST_INIT, ON_CONFIGURE, ON_CONFIGURE_DONE, ON_INIT,
            ON_INIT_DONE, ON_START, ON_START_DONE, PREPARE_TO_STOP, ON_STOP, ON_STOP_DONE,
            ON_DEINIT, ON_DEINIT_DONE
<1>a. state \in 0 .. 11 /\ state' \in 0 .. 11
  BY DEF FlowInv, TypeOK
<1>b. ASSUME manual' = manual, state' = state \/ state' > 1 \/ state = 0
      PROVE  ManualUnread' /\ ("start" \notin manual' => "start" \notin manual)
  BY <1>a, <1>b DEF ManualUnread
<1>c. ASSUME ten_extension_trigger_stop_if_needed PROVE state' > 1
  BY <1>c DEF ten_extension_trigger_stop_if_needed
<1>d. ASSUME NEW m \in Msgs, Dispatch(m) PROVE state' = state \/ state' > 1
  BY <1>d DEF Dispatch, HandleTriggerStart, HandleTriggerStop
<1>1. ASSUME NEW m \in Msgs, QueueMsg(m) \/ HandleMsg(m) \/ RejectMsg(m)
      PROVE  manual' = manual /\ (state' = state \/ state' > 1)
  BY <1>1, <1>d DEF QueueMsg, HandleMsg, RejectMsg
<1>2. CASE FlushMsg
  <2>1. Head(pending) \in Msgs /\ Dispatch(Head(pending)) /\ manual' = manual
    BY <1>2, TailQueue DEF FlushMsg, FlowInv, TypeOK
  <2> QED
    BY <1>b, <1>d, <2>1
<1>3. CASE OnConfigureDone
  <2>1. state = 1 /\ state' > 1
    BY <1>3, <1>c DEF OnConfigureDone
  <2> QED
    BY <1>a, <2>1 DEF ManualUnread
<1>4. CASE OnConfigure \/ OnInitDone \/ OnStopDone \/ OnDeinitDone \/ DelExtension
  BY <1>4, <1>b DEF OnConfigure, OnInitDone, OnStopDone, OnDeinitDone, DelExtension
<1>5. CASE TriggerClose \/ OnStartDone \/ OnInitDoneEnd
  BY <1>5, <1>b, <1>c DEF TriggerClose, OnStartDone, OnInitDoneEnd
<1>6. CASE OnInitTask \/ OnStartTask \/ TimerClosed
  BY <1>6, <1>b DEF OnInitTask, OnStartTask, TimerClosed
<1>7. ASSUME NEW p \in Proxies, NotifyTask(p) \/ ProxyDeleted(p) \/ CreateProxy(p)
                                  \/ ProxyNotify(p) \/ ProxyRelease(p)
      PROVE  UNCHANGED <<manual, state>>
  BY <1>7 DEF NotifyTask, ProxyDeleted, CreateProxy, ProxyNotify, ProxyRelease
<1>8. CASE UNCHANGED vars
  BY <1>8, <1>b DEF vars
<1> QED
  BY <1>b, <1>1, <1>2, <1>3, <1>4, <1>5, <1>6, <1>7, <1>8
  DEF Next, UserDone, RunTask, Flush

\* However the close races with the start flow, the user sees the callbacks in
\* their order and each at most once, and on_stop waits for the done call of
\* every callback of the start flow, in an extension that does not put its
\* start stage under manual control (its stop stage may be).
THEOREM CallbacksInOrder == Spec => []CallbackOrder
<1> DEFINE Ordered == FlowInv /\ ManualUnread /\ ("start" \notin manual => OrderInv)
<1>1. Init => Ordered
  BY InitIInv DEF IInv, FlowInv, ManualUnread, Init
<1>2. Ordered /\ [Next]_vars => Ordered'
  <2> SUFFICES ASSUME Ordered, [Next]_vars PROVE Ordered'
    OBVIOUS
  <2>1. FlowInv'
    BY NextFlow
  <2>2. ManualUnread' /\ ("start" \notin manual' => "start" \notin manual)
    BY <2>1, NextManual
  <2>3. "start" \notin manual' => OrderInv'
    BY <2>1, <2>2, NextOrder
  <2> QED
    BY <2>1, <2>2, <2>3
<1>3. Ordered => CallbackOrder
  <2> SUFFICES ASSUME FlowInv, "start" \notin manual => OrderInv PROVE CallbackOrder
    OBVIOUS
  <2>a. TypeOK
    BY DEF FlowInv
  <2> SUFFICES ASSUME OrderInv PROVE CalledInOrder /\ StopWaitsForDone
    BY <2>a DEF CallbackOrder
  <2>1. Called("on_stop") => state >= 8 /\ state \in 0 .. 11
    <3>1. Called("on_stop") => 4 <= LastRank(state)
      BY Ranks DEF OrderInv, Callbacks
    <3>2. state \in 0 .. 11
      BY DEF FlowInv, TypeOK, ST_INIT, ON_DEINIT_DONE
    <3> QED
      BY <3>1, <3>2, Ranks
  <2>2. StopWaitsForDone
    BY <2>1 DEF StopWaitsForDone, OrderInv, ON_CONFIGURE, ON_INIT, ON_START
  <2> QED
    BY <2>2 DEF OrderInv
<1> QED
  BY <1>1, <1>2, <1>3, PTL DEF Spec
=============================================================================
