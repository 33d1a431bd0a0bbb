------------------------------ MODULE Runloop ------------------------------
(***************************************************************************)
(* The runloop of ten_utils (core/src/ten_utils/io/general/loops): a list  *)
(* of tasks behind a mutex, and a libuv async handle, the task_available   *)
(* signal, that wakes the loop.  Any thread posts tasks; the task that is  *)
(* running posts tasks too and may stop the loop.                          *)
(*                                                                         *)
(* A post notifies the loop only when it finds the list empty, and libuv   *)
(* folds several notifications into one: the loop must never sleep on a    *)
(* list that is not empty.  Stopping first refuses new tasks, then closes  *)
(* the signal; the tasks accepted before are run when libuv reports the    *)
(* signal closed.                                                          *)
(***************************************************************************)
EXTENDS Naturals, Sequences

CONSTANTS
  Posters,   \* the threads that post tasks from outside
  Loop,      \* the thread of the runloop
  LoopTasks, \* tasks, each posted at most once
  NoOne      \* no thread, no task

ASSUME RunloopAssumption ==
  Loop \notin Posters /\ NoOne \notin Posters \cup LoopTasks \cup {Loop}

Callers == Posters \cup {Loop}

VARIABLES
  loop_tasks,   \* impl->tasks
  loop_lock,    \* the thread that holds impl->lock
  destroying,   \* impl->destroying
  notify,       \* the poster holding the lock found the list empty (needs_notify)
  signal,       \* libuv has a notification of the signal pending
  signal_state, \* the state of the async handle
  loop_at,      \* where the thread of the loop is
  task,         \* the task the loop is running
  done,         \* tasks that have been run
  refused       \* tasks whose post has failed

loop_vars ==
  <<loop_tasks, loop_lock, destroying, notify, signal, signal_state, loop_at, task, done,
    refused>>

Unposted ==
  LoopTasks \
    ({loop_tasks[i] : i \in 1 .. Len(loop_tasks)} \cup done \cup refused \cup {task})

LoopInit ==
  /\ loop_tasks = << >> /\ loop_lock = NoOne
  /\ destroying = FALSE /\ notify = FALSE /\ signal = FALSE /\ signal_state = "INIT"
  /\ loop_at = "created" /\ task = NoOne /\ done = {} /\ refused = {}

-----------------------------------------------------------------------------
(* Posting.                                                                *)

\* The thread of the loop calls it from a task or from another callback of libuv.
MayCall(c) == c = Loop => loop_at \in {"task", "callback"}

\* Mutant: whether to notify is decided from the list with the task in it.
PostTaskLate(c, t, front) ==
  /\ MayCall(c) /\ loop_lock = NoOne /\ t \in Unposted /\ ~destroying
  /\ loop_tasks' = IF front THEN <<t>> \o loop_tasks ELSE Append(loop_tasks, t)
  /\ notify' = (loop_tasks' = << >>) /\ loop_lock' = c
  /\ UNCHANGED <<destroying, signal, signal_state, loop_at, task, done, refused>>

\* Mutant: destroying is not looked at.
PostTaskAlways(c, t, front) ==
  /\ MayCall(c) /\ loop_lock = NoOne /\ t \in Unposted
  /\ notify' = (loop_tasks = << >>)
  /\ loop_tasks' = IF front THEN <<t>> \o loop_tasks ELSE Append(loop_tasks, t)
  /\ loop_lock' = c
  /\ UNCHANGED <<destroying, signal, signal_state, loop_at, task, done, refused>>

\* ten_runloop_post_task_at under the lock: refused, or put into the list.
PostTask(c, t, front) ==
  /\ MayCall(c) /\ loop_lock = NoOne /\ t \in Unposted
  /\ IF destroying
     THEN /\ refused' = refused \cup {t}
          /\ UNCHANGED <<loop_tasks, loop_lock, notify>>
     ELSE /\ notify' = (loop_tasks = << >>)
          /\ loop_tasks' = IF front THEN <<t>> \o loop_tasks ELSE Append(loop_tasks, t)
          /\ loop_lock' = c
          /\ UNCHANGED refused
  /\ UNCHANGED <<destroying, signal, signal_state, loop_at, task, done>>

\* ... then the loop is notified and the lock given back.
PostNotify(c) ==
  /\ loop_lock = c
  /\ signal' = (signal \/ notify) /\ notify' = FALSE /\ loop_lock' = NoOne
  /\ UNCHANGED <<loop_tasks, destroying, signal_state, loop_at, task, done, refused>>

-----------------------------------------------------------------------------
(* Running.                                                                *)

LoopMoves(from, to) == loop_at = from /\ loop_at' = to

\* ten_runloop_run
RunLoop ==
  /\ LoopMoves("created", "poll")
  /\ UNCHANGED <<loop_tasks, loop_lock, destroying, notify, signal, signal_state,
                 task, done, refused>>

\* libuv calls task_available_callback; the notification is consumed first.
TaskAvailable ==
  /\ signal /\ signal_state = "INIT"
  /\ LoopMoves("poll", "flush") /\ signal' = FALSE
  /\ UNCHANGED <<loop_tasks, loop_lock, destroying, notify, signal_state, task,
                 done, refused>>

\* process_remaining_tasks_safe takes a task out and runs it without the lock.
TakeTask ==
  /\ loop_at = "flush" /\ loop_lock = NoOne /\ loop_tasks # << >>
  /\ loop_at' = "task" /\ task' = Head(loop_tasks) /\ loop_tasks' = Tail(loop_tasks)
  /\ UNCHANGED <<loop_lock, destroying, notify, signal, signal_state, done, refused>>

\* What the thread of the loop has begun is complete: a post and a stop.
CallsReturned == loop_lock # Loop /\ (destroying => signal_state # "INIT")

\* The task returns.
EndTask ==
  /\ CallsReturned
  /\ LoopMoves("task", "flush") /\ task' = NoOne /\ done' = done \cup {task}
  /\ UNCHANGED <<loop_tasks, loop_lock, destroying, notify, signal, signal_state,
                 refused>>

\* libuv calls back for another handle of the loop: a timer that is due, a
\* handle that has been closed, a stream.
Callback ==
  /\ LoopMoves("poll", "callback")
  /\ UNCHANGED <<loop_tasks, loop_lock, destroying, notify, signal, signal_state,
                 task, done, refused>>

EndCallback ==
  /\ CallsReturned /\ LoopMoves("callback", "poll")
  /\ UNCHANGED <<loop_tasks, loop_lock, destroying, notify, signal, signal_state,
                 task, done, refused>>

-----------------------------------------------------------------------------
(* Stopping.                                                               *)

\* Mutant: the flag is set without the lock.
StopLoopUnlocked ==
  /\ MayCall(Loop) /\ ~destroying
  /\ destroying' = TRUE
  /\ UNCHANGED <<loop_tasks, loop_lock, notify, signal, signal_state, loop_at, task,
                 done, refused>>

\* ten_runloop_stop, called in the thread of the loop: no new tasks ...
StopLoop ==
  /\ MayCall(Loop) /\ loop_lock = NoOne /\ ~destroying
  /\ destroying' = TRUE
  /\ UNCHANGED <<loop_tasks, loop_lock, notify, signal, signal_state, loop_at, task,
                 done, refused>>

\* ... then the signal is closed; libuv forgets its notification.
CloseSignal ==
  /\ MayCall(Loop) /\ destroying /\ signal_state = "INIT"
  /\ signal_state' = "CLOSING" /\ signal' = FALSE
  /\ UNCHANGED <<loop_tasks, loop_lock, destroying, notify, loop_at, task, done,
                 refused>>

\* libuv reports the signal closed: task_available_signal_closed runs what is left.
SignalClosed ==
  /\ signal_state = "CLOSING"
  /\ LoopMoves("poll", "flush") /\ signal_state' = "CLOSED"
  /\ UNCHANGED <<loop_tasks, loop_lock, destroying, notify, signal, task, done,
                 refused>>

\* Mutant: the last round ends like the others.
FlushEndPolls ==
  /\ loop_tasks = << >> /\ loop_lock = NoOne /\ LoopMoves("flush", "poll")
  /\ UNCHANGED <<loop_tasks, loop_lock, destroying, notify, signal, signal_state,
                 task, done, refused>>

\* The list is empty.  In the last round the signal is destroyed and
\* ten_runloop_uv_stop closes the handle of the migration, whose close
\* callback stops libuv: ten_runloop_run returns.
FlushEnd ==
  /\ loop_at = "flush" /\ loop_lock = NoOne /\ loop_tasks = << >>
  /\ loop_at' = IF signal_state = "CLOSED" THEN "stopped" ELSE "poll"
  /\ UNCHANGED <<loop_tasks, loop_lock, destroying, notify, signal, signal_state,
                 task, done, refused>>

-----------------------------------------------------------------------------

LoopStep == RunLoop \/ TakeTask \/ EndTask \/ EndCallback \/ CloseSignal \/ FlushEnd

LoopNext ==
  \/ LoopStep \/ TaskAvailable \/ SignalClosed \/ Callback \/ StopLoop
  \/ \E c \in Callers : PostNotify(c)
  \/ \E c \in Callers, t \in LoopTasks, front \in BOOLEAN : PostTask(c, t, front)

LoopSpec == LoopInit /\ [][LoopNext]_loop_vars

(* The thread of the loop goes on, tasks and callbacks return, and a       *)
(* thread in the critical section of a post leaves it.  Every iteration of *)
(* libuv looks at the async handles and at those being closed, however     *)
(* many other callbacks there are.  Nobody has to post or to stop.         *)
LoopFairness ==
  /\ WF_loop_vars(LoopStep) /\ SF_loop_vars(TaskAvailable) /\ SF_loop_vars(SignalClosed)
  /\ \A c \in Callers : WF_loop_vars(PostNotify(c))

LoopFairSpec == LoopSpec /\ LoopFairness

-----------------------------------------------------------------------------
(* Properties.                                                             *)

\* The type invariant: tasks are in one place at a time.
LoopTypeOK ==
  /\ loop_tasks \in Seq(LoopTasks) /\ task \in LoopTasks \cup {NoOne}
  /\ \A i, j \in 1 .. Len(loop_tasks) : loop_tasks[i] = loop_tasks[j] => i = j
  /\ done \subseteq LoopTasks /\ refused \subseteq LoopTasks
  /\ loop_lock \in Callers \cup {NoOne}
  /\ destroying \in BOOLEAN /\ notify \in BOOLEAN /\ signal \in BOOLEAN
  /\ signal_state \in {"INIT", "CLOSING", "CLOSED"}
  /\ loop_at \in {"created", "poll", "flush", "task", "callback", "stopped"}
  /\ loop_at = "task" <=> task # NoOne

\* The loop never sleeps on accepted tasks: when it is about to wait and the
\* list is not empty, a notification is pending, the thread that found the
\* list empty is about to send it, or the loop is being stopped.
NoLostWakeup ==
  loop_at \in {"created", "poll", "callback"} /\ loop_tasks # << >> =>
    signal \/ notify \/ destroying

\* The assertions of the stop hold: a thread that has passed the check of
\* destroying never notifies a closing signal (ten_runloop_async_uv_notify),
\* and no task that was accepted is left when the loop has stopped
\* (task_available_signal_closed).
StopAssertions ==
  /\ LoopTypeOK
  /\ notify => signal_state = "INIT"
  /\ loop_at = "stopped" => loop_tasks = << >> /\ destroying /\ loop_lock = NoOne

\* A runloop that is told to stop stops, whatever is posted meanwhile.
StopCompletes == destroying ~> loop_at = "stopped"

\* The runloop is the task queue the other modules take it for: it keeps the
\* order, runs every accepted task once, and accepts none after the stop.
Queue == INSTANCE TaskQueue WITH
  Tasks <- LoopTasks, queue <- loop_tasks, running <- {task} \ {NoOne}, finished <- done,
  closed <- destroying

IsTaskQueue == Queue!QSpec
============================================================================
