----------------------------- MODULE TaskQueue -----------------------------
(***************************************************************************)
(* What a runloop promises to the rest of the runtime, and what the other  *)
(* modules of this project use it for: tasks that are accepted run one at  *)
(* a time in the order of the queue, every accepted task is run, and none  *)
(* is accepted once the runloop is being stopped.                          *)
(***************************************************************************)
EXTENDS Naturals, Sequences

CONSTANT Tasks

VARIABLES
  queue,    \* accepted tasks, the next one to run first
  running,  \* the task that is running, as a set of at most one
  finished, \* tasks that have been run
  refused,  \* tasks that were turned down
  closed    \* no task is accepted any more

qvars == <<queue, running, finished, refused, closed>>

Queued == {queue[i] : i \in 1 .. Len(queue)}
New == Tasks \ (Queued \cup running \cup finished \cup refused)

QInit ==
  queue = << >> /\ running = {} /\ finished = {} /\ refused = {} /\ closed = FALSE

Accept(t) ==
  /\ ~closed /\ t \in New
  /\ queue' = Append(queue, t) \/ queue' = <<t>> \o queue
  /\ UNCHANGED <<running, finished, refused, closed>>

Refuse(t) ==
  /\ closed /\ t \in New
  /\ refused' = refused \cup {t}
  /\ UNCHANGED <<queue, running, finished, closed>>

Run ==
  /\ running = {} /\ queue # << >>
  /\ running' = {Head(queue)} /\ queue' = Tail(queue)
  /\ UNCHANGED <<finished, refused, closed>>

Finish ==
  /\ running # {}
  /\ finished' = finished \cup running /\ running' = {}
  /\ UNCHANGED <<queue, refused, closed>>

Close ==
  /\ closed' = TRUE
  /\ UNCHANGED <<queue, running, finished, refused>>

QNext == Run \/ Finish \/ Close \/ \E t \in Tasks : Accept(t) \/ Refuse(t)

QSafety == QInit /\ [][QNext]_qvars

QSpec == QSafety /\ WF_qvars(Run) /\ WF_qvars(Finish)
============================================================================
