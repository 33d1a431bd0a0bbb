------------------------ MODULE ConnectionMigration ------------------------
(***************************************************************************)
(* A connection that a client has opened moves from the app, whose thread  *)
(* has accepted it and reads its first message, to the engine that the     *)
(* message is for.  An engine with a loop of its own gets a new stream for *)
(* the same socket, made by a handshake of the two loops; it then blocks   *)
(* until the app has let go of the old stream.                             *)
(*                                                                         *)
(*   connection/{connection,migration}.c, app/migration.c,                 *)
(*   app/msg_interface/common.c, engine/internal/migration.c,              *)
(*   protocol/integrated/protocol_integrated.c,                            *)
(*   ten_utils/.../uv/stream/migrate.c, ten_utils/.../loops/uv/runloop.c   *)
(*                                                                         *)
(* A message is its position in what the client sends; 'script' says where *)
(* each of them is to go.  How the app and the engine close is in          *)
(* AppLifeCycle and RemoteConnect: here they only close the connection.    *)
(***************************************************************************)
EXTENDS Naturals, FiniteSets, Sequences, SequencesExt

CONSTANTS
  Scripts,  \* what the client may send
  OwnLoop   \* one_event_loop_per_engine

\* A start_graph command, a command or a message for an existing graph, one
\* for a graph that does not exist, a close_app command, and what the app
\* handles without a look at the connection: stop_graph commands, messages
\* that are no commands, start_graph commands that are refused.
Kinds == {"start", "graph", "unknown", "close_app", "other"}

ASSUME MigrationAssumption ==
  Scripts \subseteq Seq(Kinds) /\ OwnLoop \in BOOLEAN

VARIABLES
  script,  \* what the client sends
  s        \* the connection, its protocol and streams, the two loops

migration_vars == <<script, s>>

Threads == {"app", "engine"}

\* The thread that runs the engine.
EngineLoop == IF OwnLoop THEN "engine" ELSE "app"

Msgs == DOMAIN script

ToEngine == {i \in Msgs : script[i] \in {"start", "graph"}}

\* The handshake of the two loops, in its order: the thread that takes a step
\* and the step that it asks the other thread for.
Stages == [start         |-> [by |-> "engine", next |-> "src_prepare"],
           src_prepare   |-> [by |-> "app",    next |-> "dst_prepare"],
           dst_prepare   |-> [by |-> "engine", next |-> "src_migration"],
           src_migration |-> [by |-> "app",    next |-> "dst_migration"],
           dst_migration |-> [by |-> "engine", next |-> "dst_done"]]

Connection ==
  [next: 1..(Len(script) + 1), gone: BOOLEAN, eof: BOOLEAN,
   state: {"open", "closing", "destroyed"},
   attach: {"app", "engine", "remote"},
   mstate: {"INIT", "FIRST_MSG", "DONE"},
   owner: Threads,
   lists: SUBSET {"app", "engine", "remote"},
   stream: [Threads -> {"none", "reading", "stopped", "cleaning", "closing", "closed"}],
   stage: DOMAIN Stages \cup {"none", "dst_done"},
   first: 0..Len(script), waits: BOOLEAN, cleaned: BOOLEAN,
   cached: Seq(Msgs), inMsgs: Seq(Msgs),
   tasks: [Threads -> Seq({"clean", "cleaned", "in_msgs", "close"})],
   ready: BOOLEAN, putBack: SUBSET Msgs, cut: BOOLEAN,
   failed: BOOLEAN, log: Seq(Msgs)]

MigrationTypeOK == script \in Scripts /\ s \in Connection

\* The engine is made by a start_graph command of this client.
NewEngine ==
  \E i \in ToEngine : script[i] = "start" /\ \A j \in ToEngine : i <= j

\* A connection that has been accepted; the graph it is for, unless it is
\* started by this connection, may still be starting.  'first' is the message
\* that is carried over with the connection, 'log' the messages in the order
\* in which the app or the engine has handled them.  Two fields only remember:
\* 'putBack' what the engine could not handle at once, 'cut' that the connection
\* was closed on its way.
MigrationInit ==
  /\ script \in Scripts
  /\ \E r \in BOOLEAN :
       /\ NewEngine => ~r
       /\ s = [next |-> 1, gone |-> FALSE, eof |-> FALSE, state |-> "open",
               attach |-> "app", mstate |-> "INIT", owner |-> "app", lists |-> {"app"},
               stream |-> [t \in Threads |->
                             IF t = "app" THEN "reading" ELSE "none"],
               stage |-> "none", first |-> 0, waits |-> FALSE,
               cleaned |-> FALSE, cached |-> <<>>, inMsgs |-> <<>>,
               tasks |-> [t \in Threads |-> <<>>],
               ready |-> r, putBack |-> {}, cut |-> FALSE,
               failed |-> FALSE, log |-> <<>>]

-----------------------------------------------------------------------------
(* What the handlers do to the state a.                                    *)

PostTo(a, t, task) == [a EXCEPT !.tasks[t] = Append(@, task)]

Handled(a, i) == [a EXCEPT !.log = Append(@, i)]

AppendToInMsgs(a, i) ==
  PostTo([a EXCEPT !.inMsgs = Append(@, i)], EngineLoop, "in_msgs")

\* ten_connection_upgrade_migration_state_to_done with an engine.
UpgradeToDone(a) ==
  PostTo([a EXCEPT !.attach = "engine", !.lists = @ \cup {"engine"},
                   !.mstate = "DONE"],
         EngineLoop, "cleaned")

\* Mutant: the stream is not stopped.
MigrateKeepsReading(a, i) == [a EXCEPT !.stage = "start", !.first = i]

\* ten_protocol_integrated_migrate: no data is read until the engine does.
ten_connection_migrate(a, i) ==
  [a EXCEPT !.stream["app"] = "stopped", !.stage = "start", !.first = i]

\* An engine in the thread of the app takes the connection at once, and the
\* message after it.
ten_app_do_connection_migration_or_push_to_engine_queue(a, i) ==
  IF a.mstate = "FIRST_MSG" /\ OwnLoop THEN ten_connection_migrate(a, i)
  ELSE IF a.mstate = "FIRST_MSG"
  THEN AppendToInMsgs(UpgradeToDone([a EXCEPT !.lists = @ \ {"app"}]), i)
  ELSE AppendToInMsgs(a, i)

ten_app_handle_msg_default_handler(a, i) ==
  CASE script[i] \in {"start", "graph"} ->
         ten_app_do_connection_migration_or_push_to_engine_queue(a, i)
    [] script[i] = "unknown" ->
         PostTo(Handled([a EXCEPT !.mstate = "INIT"], i), "app", "cleaned")
    [] script[i] = "close_app" ->
         PostTo(Handled([a EXCEPT !.mstate = "DONE"], i), "app", "cleaned")
    [] OTHER -> Handled(a, i)

Fail(a) == [a EXCEPT !.failed = TRUE]

ten_protocol_on_input(a, i) ==
  IF a.state # "open" THEN a
  ELSE ten_app_handle_msg_default_handler([a EXCEPT !.mstate = "FIRST_MSG"], i)

\* ten_connection_on_msgs finds no one to give messages to while the
\* connection is with the engine and has no remote.
ten_protocol_on_inputs(a, batch) ==
  IF a.state # "open" THEN a
  ELSE CASE a.attach = "app" -> FoldLeft(ten_app_handle_msg_default_handler, a, batch)
         [] a.attach = "remote" -> [a EXCEPT !.log = @ \o batch]
         [] OTHER -> Fail(a)

\* Mutant: messages are kept in front of those that came before.
OnInputsCachesInFront(a, batch) ==
  IF a.mstate = "FIRST_MSG" THEN Fail(a)
  ELSE IF a.mstate = "INIT"
  THEN LET b == ten_protocol_on_input(a, Head(batch))
       IN  [b EXCEPT !.cached = Reverse(Tail(batch)) \o @]
  ELSE ten_protocol_on_inputs(a, batch)

\* Only the first message is handed on before the connection has moved.
ten_protocol_on_inputs_based_on_migration_state(a, batch) ==
  IF a.mstate = "FIRST_MSG" THEN Fail(a)
  ELSE IF a.mstate = "INIT"
  THEN LET b == ten_protocol_on_input(a, Head(batch))
       IN  [b EXCEPT !.cached = @ \o Tail(batch)]
  ELSE ten_protocol_on_inputs(a, batch)

\* The stream that the protocol has now.
CommunicationStream(a) == IF a.stream["engine"] = "none" THEN "app" ELSE "engine"

InTransit(a) == a.stage # "none" \/ a.waits

\* ten_connection_close and ten_protocol_close.
Close(a) ==
  IF a.state # "open" THEN a
  ELSE [a EXCEPT !.state = "closing", !.stream[CommunicationStream(a)] = "closing",
                 !.cut = @ \/ InTransit(a)]

-----------------------------------------------------------------------------
(* Tasks and callbacks of the two loops.                                   *)

\* The thread of the engine is not blocked in ten_event_wait.
ThreadFree(t) == ~(t = "engine" /\ s.waits)

Step(a) == s' = a /\ UNCHANGED script

RunsNext(t, task) == ThreadFree(t) /\ s.tasks[t] # <<>> /\ Head(s.tasks[t]) = task

RestOf(t) == [s EXCEPT !.tasks[t] = Tail(@)]

\* A loop may read a stream many times before it runs a task, uv__read up to
\* 32 times in one turn.  Only the tasks of the take-over come before the first
\* read of the engine's new stream: uv__io_poll watches the stream after the
\* loop was woken for them, and epoll reports the earlier event first.
Reads(t) ==
  /\ ThreadFree(t)
  /\ s.stream[t] = "reading"
  /\ t = "engine" => "cleaned" \notin ToSet(s.tasks[t])
  /\ ~s.eof

\* ten_stream_on_data, with one or more messages.
ten_stream_on_data(t) ==
  /\ Reads(t)
  /\ \E last \in s.next..Len(script) :
       Step(ten_protocol_on_inputs_based_on_migration_state(
              [s EXCEPT !.next = last + 1],
              [i \in 1..(last + 1 - s.next) |-> s.next + i - 1]))

\* ten_stream_on_data, when the client has gone.
StreamEnds(t) ==
  /\ Reads(t)
  /\ s.gone
  /\ s.next = Len(script) + 1
  /\ Step(PostTo([s EXCEPT !.eof = TRUE],
                 IF s.attach = "app" THEN "app" ELSE EngineLoop, "close"))

ten_protocol_close_task(t) == RunsNext(t, "close") /\ Step(Close(RestOf(t)))

\* ten_protocol_integrated_on_base_protocol_cleaned
ten_protocol_on_cleaned_task(t) ==
  /\ RunsNext(t, "cleaned")
  /\ LET a == [RestOf(t) EXCEPT !.cached = <<>>]
     IN  Step(IF s.cached = <<>> THEN a
              ELSE ten_protocol_on_inputs_based_on_migration_state(a, s.cached))

\* The steps of the handshake that only prepare the next one.
Handshake ==
  /\ s.stage \in DOMAIN Stages
  /\ ThreadFree(Stages[s.stage].by)
  /\ Step([s EXCEPT !.stage = Stages[s.stage].next])

\* Mutant: the engine does not wait for the app.
MigratedDoesNotWait ==
  /\ s.stage = "dst_done"
  /\ Step(PostTo([s EXCEPT !.stage = "none", !.waits = TRUE, !.cleaned = TRUE],
                 "app", "clean"))

\* migration_dst_done and ten_stream_migrated, up to ten_event_wait.
ten_stream_migrated ==
  /\ s.stage = "dst_done"
  /\ Step(PostTo([s EXCEPT !.stage = "none", !.waits = TRUE], "app", "clean"))

\* Mutant: the connection stays an orphan connection of the app.
CleanKeepsOrphan ==
  /\ RunsNext("app", "clean")
  /\ Step([RestOf("app") EXCEPT !.stream["app"] = "cleaning"])

\* The app gives up its orphan connection and closes its stream.
ten_app_clean_connection_task ==
  /\ RunsNext("app", "clean")
  /\ Step([RestOf("app") EXCEPT !.lists = @ \ {"app"},
                                !.stream["app"] = "cleaning"])

\* ten_connection_on_protocol_cleaned: the event that the engine waits for.
ten_protocol_integrated_on_stream_cleaned ==
  /\ s.stream["app"] = "cleaning"
  /\ Step([s EXCEPT !.stream["app"] = "closed", !.cleaned = TRUE])

\* The rest of ten_engine_on_connection_cleaned and of ten_stream_migrated.
ten_engine_on_connection_cleaned ==
  /\ s.waits
  /\ s.cleaned
  /\ LET a == [s EXCEPT !.waits = FALSE, !.owner = "engine"]
         b == UpgradeToDone(AppendToInMsgs(a, s.first))
     IN  Step([b EXCEPT !.stream["engine"] = "reading"])

\* While the engine starts it handles only the command that starts it.
CanHandle == {i \in Msgs : s.ready \/ script[i] = "start"}

\* The messages of q that are in S, in their order.
Chosen(q, S) ==
  LET at == {i \in DOMAIN q : q[i] \in S}
  IN  [k \in 1..Cardinality(at) |->
         q[CHOOSE i \in at : Cardinality({j \in at : j <= i}) = k]]

\* Mutant: what cannot be handled yet is dropped.
InMsgsNotPutBack ==
  /\ RunsNext(EngineLoop, "in_msgs")
  /\ LET a == RestOf(EngineLoop)
         linked == IF s.inMsgs # <<>> /\ "engine" \in s.lists
                   THEN [a EXCEPT !.lists = (@ \ {"engine"}) \cup {"remote"},
                                  !.attach = "remote"]
                   ELSE a
     IN  Step([linked EXCEPT !.log = @ \o Chosen(s.inMsgs, CanHandle),
                             !.inMsgs = <<>>])

\* The first command of a connection gives it its remote, whether or not the
\* engine can handle the command yet.
ten_engine_handle_in_msgs_sync ==
  /\ RunsNext(EngineLoop, "in_msgs")
  /\ LET a == RestOf(EngineLoop)
         linked == IF s.inMsgs # <<>> /\ "engine" \in s.lists
                   THEN [a EXCEPT !.lists = (@ \ {"engine"}) \cup {"remote"},
                                  !.attach = "remote"]
                   ELSE a
         left == Chosen(s.inMsgs, Msgs \ CanHandle)
     IN  Step([linked EXCEPT !.log = @ \o Chosen(s.inMsgs, CanHandle),
                             !.inMsgs = left,
                             !.putBack = @ \cup ToSet(left)])

\* The extension threads of the engine have started.
EngineReady ==
  /\ ThreadFree(EngineLoop)
  /\ ~s.ready
  /\ NewEngine => \E i \in ToEngine : script[i] = "start" /\ i \in ToSet(s.log)
  /\ Step(PostTo([s EXCEPT !.ready = TRUE], EngineLoop, "in_msgs"))

\* ten_protocol_integrated_on_stream_closed, up to the destruction of the
\* connection by the app, the engine or the remote that has it.  libuv calls it
\* at the end of a turn: what was posted before the close has run.
StreamClosed(t) ==
  /\ ThreadFree(t)
  /\ s.stream[t] = "closing"
  /\ {"cleaned", "close"} \cap ToSet(s.tasks[t]) = {}
  /\ Step([s EXCEPT !.stream[t] = "closed", !.state = "destroyed", !.lists = {}])

\* The client goes; what it has sent is read before.
ClientGoes == ~s.gone /\ Step([s EXCEPT !.gone = TRUE])

\* ten_app_close_sync closes the connections that are still with the app, at
\* any time.
AppCloses ==
  /\ "app" \in s.lists
  /\ s.state = "open"
  /\ Step(Close(s))

\* The engine closes its remotes.
EngineCloses ==
  /\ ThreadFree(EngineLoop)
  /\ "remote" \in s.lists
  /\ s.state = "open"
  /\ Step(Close(s))

Loops ==
  \/ \E t \in Threads :
       \/ ten_stream_on_data(t) \/ StreamEnds(t)
       \/ ten_protocol_close_task(t) \/ ten_protocol_on_cleaned_task(t)
       \/ StreamClosed(t)
  \/ Handshake \/ ten_stream_migrated
  \/ ten_app_clean_connection_task \/ ten_protocol_integrated_on_stream_cleaned
  \/ ten_engine_on_connection_cleaned \/ ten_engine_handle_in_msgs_sync
  \/ EngineReady

MigrationNext ==
  \/ Loops
  \/ ClientGoes \/ AppCloses \/ EngineCloses

MigrationSpec == MigrationInit /\ [][MigrationNext]_migration_vars

\* Both loops run, and a starting engine becomes ready.
MigrationFairSpec == MigrationSpec /\ WF_migration_vars(Loops)

-----------------------------------------------------------------------------
(* Properties.                                                             *)

\* The client begins with a message that moves its connection, whatever it
\* sends behind it.
FirstMoves == Len(script) > 0 /\ script[1] \in {"start", "graph"}

\* No assertion of the way of a message fails: none comes while the
\* connection moves ("The stream should be frozen before the migration is
\* completed."), and none while it is with the engine and has no remote.
NoAssertionFails == ~s.failed

\* The connection of a client that begins with a message for a graph is frozen
\* while it moves: no message comes in FIRST_MSG, nor while it has no remote,
\* whatever follows in however many reads, and whoever closes it when.  Only a
\* client whose first message the app does not find a graph for, or does not
\* look at, may fail an assertion with the messages behind it.
FrozenWhileMoving == FirstMoves => NoAssertionFails

\* The messages of a client that begins with one for a graph are handled in the
\* order in which it has sent them, those that came with the first one
\* included: only a message that a starting engine has put back is overtaken.
InOrder ==
  FirstMoves =>
    \A i, j \in DOMAIN s.log :
      i < j => s.log[i] < s.log[j] \/ s.log[j] \in s.putBack

\* The connection is used by one thread at a time: the app has closed its
\* stream and has no task left for the connection when the engine takes it
\* over, and until then the engine does not read.
OneThread ==
  /\ MigrationTypeOK
  /\ OwnLoop =>
       IF s.owner = "engine"
       THEN s.stream["app"] = "closed" /\ s.tasks["app"] = <<>>
       ELSE s.stream["engine"] = "none" /\ "cleaned" \notin ToSet(s.tasks["engine"])

\* When the connection is destroyed, neither the handshake nor a thread nor a
\* task that uses it is left.
NoUseAfterDelete ==
  s.state = "destroyed" =>
    ~InTransit(s) /\ \A t \in Threads : "clean" \notin ToSet(s.tasks[t])

\* Whoever closes the connection when, someone has it until it is destroyed and
\* can close it: exactly one of the app, the engine and a remote, except while
\* it is handed over.  Only a connection that was open when it began to move,
\* and was closed on its way, is used after it is destroyed.
OneHolder ==
  /\ s.state # "destroyed" =>
       s.waits \/ \E l \in {"app", "engine", "remote"} : s.lists = {l}
  /\ s.cut \/ NoUseAfterDelete

\* The app has handled a message without a look at the connection, and leaves
\* it in FIRST_MSG although it does not move.
LeftInFirstMsg == s.mstate = "FIRST_MSG" /\ ~InTransit(s)

\* What has been read from a client is handled, unless the connection is closed
\* or left in FIRST_MSG, or an assertion has failed; and a client that goes
\* away, also while its connection moves, is noticed: the stream is read again
\* where the connection is then.
AllHandled ==
  /\ \A i \in UNION {DOMAIN q : q \in Scripts} :
       (s.next > i /\ i \in Msgs)
         ~> (i \in ToSet(s.log) \/ s.state # "open" \/ LeftInFirstMsg \/ s.failed)
  /\ s.gone ~> (s.state = "destroyed" \/ s.cut)
=============================================================================
