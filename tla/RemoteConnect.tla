--------------------------- MODULE RemoteConnect ---------------------------
(***************************************************************************)
(* The remotes of one engine, from the start_graph command that needs them *)
(* to the end of the engine: creating the protocol, connecting, retrying,  *)
(* losing the connection, and closing.  Every callback runs in the thread  *)
(* of the engine, so an action is one callback or one task of its runloop; *)
(* the calls a callback makes into the remote, the connection, the         *)
(* protocol and the engine are part of the action.                         *)
(*                                                                         *)
(*   engine/internal/remote_interface.c, engine/internal/close.c,          *)
(*   remote/remote.c, connection/connection.c, protocol/close.c,           *)
(*   protocol/integrated/{protocol_integrated,close}.c, timer/timer.c      *)
(*                                                                         *)
(* The connection has no state of its own here: it is closing whenever the *)
(* remote or the protocol is, and it closes in the same step as both.      *)
(***************************************************************************)
EXTENDS Naturals

CONSTANTS
  Remotes,     \* the apps this engine connects to for its graph
  MaxRetries   \* retry_config.max_retries

ASSUME RetriesAssumption == MaxRetries \in Nat

VARIABLES
  st,           \* per remote: the remote, its protocol and its connect attempt
  answers,      \* per remote: results given to its start_graph
  lost,         \* remotes whose peer closed the stream
  eng,          \* the engine
  longRunning   \* engine->long_running_mode

vars == <<st, answers, lost, eng, longRunning>>

\* A remote of the engine: 'table' is the list that holds it, 'timer' the
\* retry timer and 'timerClose' how far its closing is, 'attempt' the
\* transport connect in flight, 'cb' on_server_connected of the connect
\* context, 'closeTask' a posted ten_protocol_close_task, 'sent' that the
\* start_graph command went out.
RemoteState ==
  [remote: {"none", "creating", "open", "closing", "closed"},
   proto: {"none", "open", "closing", "closed"},
   table: {"none", "weak", "strong"},
   stream: {"none", "open", "closing"},
   timer: {"none", "armed", "idle"}, timerClose: {"no", "posted", "closing"},
   times: 0..MaxRetries,
   attempt: {"none", "first", "retry"},
   uncompleted: BOOLEAN, cb: BOOLEAN, closeTask: BOOLEAN, sent: BOOLEAN]

NoRemote ==
  [remote |-> "none", proto |-> "none", table |-> "none", stream |-> "none",
   timer |-> "none", timerClose |-> "no", times |-> 0, attempt |-> "none",
   uncompleted |-> FALSE, cb |-> FALSE, closeTask |-> FALSE, sent |-> FALSE]

EngineState ==
  [isClosing: BOOLEAN, closePosted: BOOLEAN, uncompleted: BOOLEAN,
   context: {"none", "open", "closing"}, closed: BOOLEAN,
   waiting: SUBSET Remotes, original: {"none", "waiting", "ok", "error"}]

TypeOK ==
  /\ st \in [Remotes -> RemoteState]
  /\ answers \in [Remotes -> Nat]
  /\ lost \subseteq Remotes
  /\ eng \in EngineState
  /\ longRunning \in BOOLEAN

Init ==
  /\ st = [r \in Remotes |-> NoRemote]
  /\ answers = [r \in Remotes |-> 0]
  /\ lost = {}
  /\ eng = [isClosing |-> FALSE, closePosted |-> FALSE, uncompleted |-> FALSE,
            context |-> "none", closed |-> FALSE, waiting |-> {},
            original |-> "none"]
  /\ longRunning \in BOOLEAN

-----------------------------------------------------------------------------
(* Closing, bottom up: protocol, connection, remote, engine.               *)

\* Mutant: a connect attempt or a retry in progress does not keep the protocol.
CouldBeCloseEarly(x) == x.stream = "none" /\ x.timer = "none"

ten_protocol_integrated_could_be_close(x) ==
  x.stream = "none" /\ x.timer = "none" /\ ~x.uncompleted

\* The last resource of a closing protocol closes the protocol, its
\* connection and its remote, in one call chain.
ten_protocol_integrated_on_close(x) ==
  IF ten_protocol_integrated_could_be_close(x)
  THEN [x EXCEPT !.proto = "closed", !.remote = "closed"]
  ELSE x

OnCloseIfClosing(x) ==
  IF x.proto = "closing" THEN ten_protocol_integrated_on_close(x) ELSE x

\* ten_timer_stop_async and ten_timer_close_async: both only post a task.
StopAndCloseTimer(x) ==
  IF x.timerClose = "no" THEN [x EXCEPT !.timerClose = "posted"] ELSE x

ten_protocol_integrated_close(x) ==
  LET y == IF x.stream = "open" THEN [x EXCEPT !.stream = "closing"] ELSE x
  IN  CASE x.timer # "none" -> StopAndCloseTimer(y)
        [] x.timer = "none" /\ x.stream # "none" -> y
        [] OTHER -> ten_protocol_integrated_on_close(x)

ten_protocol_close(x) ==
  IF x.proto # "open" THEN x
  ELSE ten_protocol_integrated_close([x EXCEPT !.proto = "closing"])

ten_remote_close(x) ==
  IF x.remote = "closing" THEN x
  ELSE ten_protocol_close([x EXCEPT !.remote = "closing"])

\* A closed remote has left both tables.
ten_engine_could_be_close(e, s) ==
  /\ \A r \in Remotes : s[r].table = "none"
  /\ e.context = "none"
  /\ ~e.uncompleted

ten_engine_on_close(e, s) ==
  IF ten_engine_could_be_close(e, s) THEN [e EXCEPT !.closed = TRUE] ELSE e

\* The remote has closed: a closing engine goes on, another one closes
\* unless the remote was weak or the engine is in long-running mode.
ten_engine_on_remote_closed(e, x, s) ==
  CASE e.isClosing -> ten_engine_on_close(e, s)
    [] ~e.isClosing /\ x.table = "strong" /\ ~longRunning ->
         [e EXCEPT !.closePosted = TRUE]
    [] OTHER -> e

\* Remote r ends the step as x, the engine as e or as what follows from the
\* end of the remote.
Settle(r, x, e) ==
  LET gone == x.remote = "closed" /\ st[r].remote # "closed"
      s    == [st EXCEPT ![r] = IF gone THEN [x EXCEPT !.table = "none"] ELSE x]
  IN  /\ st' = s
      /\ eng' = IF gone THEN ten_engine_on_remote_closed(e, x, s) ELSE e

-----------------------------------------------------------------------------
(* The results of the start_graph commands sent to the remotes.            *)

\* The first error cancels the others, answers the command the engine was
\* started with and closes the engine.
ResultError(e, r) ==
  IF r \notin e.waiting THEN [e EXCEPT !.closePosted = TRUE]
  ELSE [e EXCEPT !.waiting = {}, !.original = "error", !.closePosted = TRUE]

\* Mutant: every OK enables the extension system.
ResultOkDoesNotWait(e, r) ==
  CASE r \notin e.waiting -> e
    [] r \in e.waiting /\ e.isClosing ->
         [e EXCEPT !.waiting = {}, !.original = "error", !.closePosted = TRUE]
    [] OTHER -> [e EXCEPT !.waiting = @ \ {r}, !.original = "ok",
                          !.context = "open"]

\* The last OK enables the extension system, unless the engine is closing.
ResultOk(e, r) ==
  LET left == e.waiting \ {r} IN
  CASE r \notin e.waiting -> e
    [] r \in e.waiting /\ left # {} -> [e EXCEPT !.waiting = left]
    [] r \in e.waiting /\ left = {} /\ e.isClosing ->
         [e EXCEPT !.waiting = {}, !.original = "error", !.closePosted = TRUE]
    [] OTHER -> [e EXCEPT !.waiting = {}, !.original = "ok", !.context = "open"]

Answered(r) == answers' = [answers EXCEPT ![r] = @ + 1]

\* on_server_connected(false): the remote's on_error answers the start_graph
\* with an error and closes the remote; the callback is called once.
ConnectError(x) ==
  OnCloseIfClosing([ten_remote_close(x) EXCEPT !.cb = FALSE])

-----------------------------------------------------------------------------
(* start_graph: create the protocols, then connect.                        *)

ten_engine_handle_cmd_start_graph ==
  /\ eng.original = "none" /\ ~eng.isClosing
  /\ st' = [r \in Remotes |-> [NoRemote EXCEPT !.remote = "creating"]]
  /\ eng' = [eng EXCEPT !.original = "waiting", !.waiting = Remotes,
                        !.uncompleted = TRUE]
  /\ UNCHANGED <<answers, lost, longRunning>>

\* The protocol comes too late: the engine is closing.  The remote is never
\* created, the command is answered with an error and the protocol closed.
ProtocolCreatedTooLate(r) ==
  LET e == [ResultError(eng, r) EXCEPT !.uncompleted = FALSE]
      s == [st EXCEPT ![r] = NoRemote]
  IN
  /\ st[r].remote = "creating" /\ eng.isClosing
  /\ st' = s
  /\ eng' = ten_engine_on_close(e, s)
  /\ Answered(r)
  /\ UNCHANGED <<lost, longRunning>>

\* The protocol is there: a weak remote is added and told to connect.
NewRemote ==
  [NoRemote EXCEPT !.remote = "open", !.proto = "open", !.table = "weak",
                   !.cb = TRUE]

ProtocolCreated(r) ==
  /\ st[r].remote = "creating" /\ ~eng.isClosing
  /\ st' = [st EXCEPT ![r] = [NewRemote EXCEPT !.attempt = "first",
                                               !.uncompleted = TRUE]]
  /\ eng' = [eng EXCEPT !.uncompleted = FALSE]
  /\ UNCHANGED <<answers, lost, longRunning>>

\* ten_transport_connect fails in the call.
ConnectFailsAtOnce(r) ==
  /\ st[r].remote = "creating" /\ ~eng.isClosing
  /\ Settle(r, ConnectError(NewRemote),
            ResultError([eng EXCEPT !.uncompleted = FALSE], r))
  /\ Answered(r)
  /\ UNCHANGED <<lost, longRunning>>

-----------------------------------------------------------------------------
(* The first connect attempt ends.                                         *)

ConnectEnded(r) == [st[r] EXCEPT !.attempt = "none", !.uncompleted = FALSE]

\* The stream is there and the start_graph command goes out.
Connected(x) ==
  [x EXCEPT !.attempt = "none", !.stream = "open", !.cb = FALSE, !.sent = TRUE]

FirstConnectSucceeds(r) ==
  /\ st[r].attempt = "first" /\ st[r].proto = "open"
  /\ st' = [st EXCEPT ![r] = Connected(ConnectEnded(r))]
  /\ UNCHANGED <<answers, lost, eng, longRunning>>

\* Closing, or no retry configured: the failure is reported at once.
FirstConnectReported(r) ==
  /\ st[r].attempt = "first"
  /\ st[r].proto = "closing" \/ MaxRetries = 0
  /\ Settle(r, ConnectError(ConnectEnded(r)), ResultError(eng, r))
  /\ Answered(r)
  /\ UNCHANGED <<lost, longRunning>>

\* The retry timer is created and keeps the protocol from closing.
FirstConnectRetries(r) ==
  /\ st[r].attempt = "first" /\ st[r].proto = "open" /\ MaxRetries > 0
  /\ st' = [st EXCEPT ![r] = [ConnectEnded(r) EXCEPT !.uncompleted = TRUE,
                                                     !.timer = "armed"]]
  /\ UNCHANGED <<answers, lost, eng, longRunning>>

-----------------------------------------------------------------------------
(* Retries.  A posted stop does not keep an armed timer from firing.       *)

MayFire(r) == st[r].timer = "armed" /\ st[r].timerClose # "closing"
Fired(r) == [st[r] EXCEPT !.timer = "idle", !.times = @ + 1]

RetryTriggered(r) ==
  /\ MayFire(r)
  /\ st' = [st EXCEPT ![r] = [Fired(r) EXCEPT !.attempt = "retry"]]
  /\ UNCHANGED <<answers, lost, eng, longRunning>>

\* Mutant: the context keeps its callback after it was called.
RetryFailsAtOnceTwice(r) ==
  /\ MayFire(r)
  /\ Settle(r, StopAndCloseTimer(ten_remote_close(Fired(r))), ResultError(eng, r))
  /\ Answered(r)
  /\ UNCHANGED <<lost, longRunning>>

\* ten_transport_connect fails in the call: no more retries.
RetryFailsAtOnce(r) ==
  /\ MayFire(r)
  /\ Settle(r, StopAndCloseTimer([ten_remote_close(Fired(r)) EXCEPT !.cb = FALSE]),
            ResultError(eng, r))
  /\ Answered(r)
  /\ UNCHANGED <<lost, longRunning>>

RetrySucceeds(r) ==
  /\ st[r].attempt = "retry" /\ st[r].proto = "open"
  /\ st' = [st EXCEPT ![r] = StopAndCloseTimer(Connected(st[r]))]
  /\ UNCHANGED <<answers, lost, eng, longRunning>>

\* ten_timer_enable: once more, or the timer is closed when the retries are
\* used up.
ten_timer_enable(x) ==
  IF x.times >= MaxRetries THEN StopAndCloseTimer(x)
  ELSE [x EXCEPT !.timer = "armed"]

RetryFails(r) ==
  /\ st[r].attempt = "retry" /\ st[r].proto = "open"
  /\ st' = [st EXCEPT ![r] = ten_timer_enable([st[r] EXCEPT !.attempt = "none"])]
  /\ UNCHANGED <<answers, lost, eng, longRunning>>

\* The protocol is closing: the callback only drops the new stream.  Once the
\* protocol has closed the callback uses destroyed memory; nothing more is
\* assumed of it.
RetryTooLate(r) ==
  /\ st[r].attempt = "retry" /\ st[r].proto \in {"closing", "closed"}
  /\ st' = [st EXCEPT ![r].attempt = "none"]
  /\ UNCHANGED <<answers, lost, eng, longRunning>>

\* The posted tasks stop the timer and start to close it.
ten_timer_close_task(r) ==
  /\ st[r].timerClose = "posted"
  /\ st' = [st EXCEPT ![r] = [st[r] EXCEPT !.timerClose = "closing",
                                           !.timer = "idle"]]
  /\ UNCHANGED <<answers, lost, eng, longRunning>>

TimerGone(r) == [st[r] EXCEPT !.timer = "none", !.timerClose = "no"]

\* Mutant: the closed timer leaves has_uncompleted_async_task set.
TimerClosedKeepsFlag(r) ==
  LET report == st[r].cb
      x == IF report THEN ConnectError(TimerGone(r)) ELSE TimerGone(r)
  IN
  /\ st[r].timerClose = "closing"
  /\ Settle(r, OnCloseIfClosing(x), IF report THEN ResultError(eng, r) ELSE eng)
  /\ IF report THEN Answered(r) ELSE UNCHANGED answers
  /\ UNCHANGED <<lost, longRunning>>

\* The timer is closed.  An attempt nobody was told about has failed.
ten_protocol_integrated_on_retry_timer_closed(r) ==
  LET report == st[r].cb
      x == IF report THEN ConnectError(TimerGone(r)) ELSE TimerGone(r)
  IN
  /\ st[r].timerClose = "closing"
  /\ Settle(r, OnCloseIfClosing([x EXCEPT !.uncompleted = FALSE]),
            IF report THEN ResultError(eng, r) ELSE eng)
  /\ IF report THEN Answered(r) ELSE UNCHANGED answers
  /\ UNCHANGED <<lost, longRunning>>

-----------------------------------------------------------------------------
(* The peer.                                                               *)

Talks(r) == st[r].stream = "open" /\ st[r].proto = "open" /\ r \notin lost

\* The result makes a weak remote a normal one.
PeerAnswersOk(r) ==
  /\ Talks(r) /\ st[r].sent /\ answers[r] = 0
  /\ st' = [st EXCEPT ![r].table = "strong"]
  /\ eng' = ResultOk(eng, r)
  /\ Answered(r)
  /\ UNCHANGED <<lost, longRunning>>

PeerAnswersError(r) ==
  /\ Talks(r) /\ st[r].sent /\ answers[r] = 0
  /\ eng' = ResultError(eng, r)
  /\ Answered(r)
  /\ UNCHANGED <<st, lost, longRunning>>

\* A failed read posts ten_protocol_close_task.
PeerDrops(r) ==
  /\ Talks(r)
  /\ st' = [st EXCEPT ![r].closeTask = TRUE]
  /\ lost' = lost \cup {r}
  /\ UNCHANGED <<answers, eng, longRunning>>

ten_protocol_close_task(r) ==
  /\ st[r].closeTask
  /\ Settle(r, ten_protocol_close([st[r] EXCEPT !.closeTask = FALSE]), eng)
  /\ UNCHANGED <<answers, lost, longRunning>>

ten_protocol_integrated_on_stream_closed(r) ==
  /\ st[r].stream = "closing"
  /\ Settle(r, OnCloseIfClosing([st[r] EXCEPT !.stream = "none"]), eng)
  /\ UNCHANGED <<answers, lost, longRunning>>

-----------------------------------------------------------------------------
(* The engine closes.                                                      *)

\* stop_graph, or the app: the close is always a task of its own.
ten_engine_close_async ==
  /\ ~eng.closePosted /\ ~eng.isClosing
  /\ eng' = [eng EXCEPT !.closePosted = TRUE]
  /\ UNCHANGED <<st, answers, lost, longRunning>>

ten_engine_close_task_again ==
  /\ eng.closePosted /\ eng.isClosing
  /\ eng' = [eng EXCEPT !.closePosted = FALSE]
  /\ UNCHANGED <<st, answers, lost, longRunning>>

\* Every remote of both tables is told to close, and the extension context;
\* the engine closes here only if there is nothing to wait for.
ten_engine_close_sync ==
  LET listed == {r \in Remotes : st[r].table # "none"}
      told == [r \in Remotes |-> IF r \in listed THEN ten_remote_close(st[r]) ELSE st[r]]
      s == [r \in Remotes |-> IF told[r].remote = "closed"
                              THEN [told[r] EXCEPT !.table = "none"] ELSE told[r]]
      e == [eng EXCEPT !.isClosing = TRUE, !.closePosted = FALSE,
                       !.context = IF @ = "open" THEN "closing" ELSE @]
      nothing == listed = {} /\ e.context = "none" /\ ~e.uncompleted
  IN
  /\ eng.closePosted /\ ~eng.isClosing
  /\ st' = s
  /\ eng' = IF nothing \/ \E r \in listed : s[r].table = "none"
            THEN ten_engine_on_close(e, s) ELSE e
  /\ UNCHANGED <<answers, lost, longRunning>>

ten_engine_on_extension_context_closed ==
  LET e == [eng EXCEPT !.context = "none"] IN
  /\ eng.context = "closing"
  /\ eng' = ten_engine_on_close(e, st)
  /\ UNCHANGED <<st, answers, lost, longRunning>>

-----------------------------------------------------------------------------
\* The callbacks and tasks of the engine's runloop for a remote.
Callback(r) ==
  \/ ProtocolCreatedTooLate(r)
  \/ ProtocolCreated(r) \/ ConnectFailsAtOnce(r)
  \/ FirstConnectSucceeds(r) \/ FirstConnectReported(r) \/ FirstConnectRetries(r)
  \/ RetryTriggered(r) \/ RetryFailsAtOnce(r)
  \/ RetrySucceeds(r) \/ RetryFails(r) \/ RetryTooLate(r)
  \/ ten_timer_close_task(r)
  \/ ten_protocol_integrated_on_retry_timer_closed(r)

PeerMoves(r) == PeerAnswersOk(r) \/ PeerAnswersError(r) \/ PeerDrops(r)

StreamMoves(r) ==
  ten_protocol_close_task(r) \/ ten_protocol_integrated_on_stream_closed(r)

EngineMoves ==
  \/ ten_engine_close_task_again \/ ten_engine_close_sync
  \/ ten_engine_on_extension_context_closed

Next ==
  \/ ten_engine_handle_cmd_start_graph
  \/ \E r \in Remotes : Callback(r) \/ PeerMoves(r) \/ StreamMoves(r)
  \/ EngineMoves
  \/ ten_engine_close_async

Spec == Init /\ [][Next]_vars

\* Callbacks and posted tasks run; a peer that got the command answers or
\* disconnects.  Nothing makes a start_graph arrive, a peer disconnect or
\* the engine close.
FairSpec ==
  /\ Spec
  /\ \A r \in Remotes : /\ WF_vars(Callback(r))
                         /\ WF_vars(PeerMoves(r))
                         /\ WF_vars(StreamMoves(r))
  /\ WF_vars(EngineMoves)

-----------------------------------------------------------------------------
(* Properties.                                                             *)

ProtocolClosesLast(x) ==
  /\ x.proto = "closed" =>
       /\ x.stream = "none" /\ x.timer = "none"
       /\ x.attempt # "first" /\ ~x.cb
  /\ x.timer # "none" \/ x.attempt = "first" => x.uncompleted

\* The engine closes bottom up.  A protocol closes only after its stream, its
\* retry timer and its first connect attempt (protocol/integrated/close.c),
\* so none of their callbacks finds it closed, and until then its context
\* knows whom to tell; when the engine has closed, no remote it ever listed is
\* alive and its extension context is gone (engine/internal/close.c).
ClosesBottomUp ==
  /\ TypeOK
  /\ \A r \in Remotes : ProtocolClosesLast(st[r])
  /\ eng.closed =>
       /\ eng.isClosing /\ eng.context = "none"
       /\ \A r \in Remotes : st[r].remote \notin {"open", "closing"}

\* The extension system starts only when every remote has its channel: the
\* engine holds a strong remote for it, unless its peer left after answering.
ContextNeedsChannels ==
  eng.context = "open" =>
    \A r \in Remotes : answers[r] = 1 /\ (st[r].table = "strong" \/ r \in lost)

\* A remote that was asked for gets its start_graph answered, whatever the
\* network, the retries and the end of the engine do - unless the command was
\* sent and the peer disconnects or the engine closes before the peer answers:
\* the end of a weak remote answers nothing (remote_interface.c).  It is never
\* answered twice, however the failure of a connect, a retry, the timer's end
\* and the close meet (on_server_connected is cleared once called).
RemoteAnswered ==
  \A r \in Remotes :
    /\ st[r].remote = "creating" ~>
         (answers[r] >= 1 \/ (st[r].sent /\ (r \in lost \/ eng.isClosing)))
    /\ [](answers[r] <= 1)

\* An engine that starts to close ends, whatever connect attempt, retry or
\* creation is under way.
EngineCloses == eng.isClosing ~> eng.closed
=============================================================================
